---------------------------- MODULE Viaje_proofs ----------------------------
(***************************************************************************)
(* The framing over a TCP connection implements the channel of whole       *)
(* messages, for every set of messages, of any sizes; and the journey of a *)
(* trainer, for every hojaDeViaje, any lives, signals and failed           *)
(* connections: it uses its connection as Tramas says, and the medals of a *)
(* maestro pokemon.                                                        *)
(***************************************************************************)
EXTENDS Viaje, SequenceTheorems, TLAPS

(***************************************************************************)
(* The framing.                                                            *)
(***************************************************************************)
Trama == [trama : Mensajes, resta : Nat \ {0}, perdidos : Nat]

TipoTramas ==
    /\ flujo \in Seq(Trama)
    /\ abierta \in BOOLEAN
    /\ lee \in [fase : {"size", "buffer", "lista"}, trama : Mensajes \cup {Nulo, Ninguno},
                falta : Nat]

\* Nothing was read of a frame, and its size came whole.
SinEmpezar(x) ==
    x.resta + x.perdidos = TamInt + Cuerpo[x.trama] /\ x.resta >= TamInt

\* Only the last frame of a connection that was cut loses bytes.
SoloLaUltima ==
    \A i \in 1 .. Len(flujo) : flujo[i].perdidos > 0 => i = Len(flujo) /\ ~abierta

\* Only the first frame can be half read, and only inside recibirBuffer, which then
\* waits for exactly what is left of it.
AlPaso ==
    /\ \A i \in 1 .. Len(flujo) : i > 1 \/ lee.fase # "buffer" => SinEmpezar(flujo[i])
    /\ lee.fase = "buffer" =>
          /\ lee.falta > 0
          /\ flujo = <<>> => ~abierta
          /\ flujo # <<>> => /\ flujo[1].trama = lee.trama
                             /\ flujo[1].resta + flujo[1].perdidos = lee.falta

InvTramas == TipoTramas /\ SoloLaUltima /\ AlPaso

-----------------------------------------------------------------------------
\* What recv() leaves: the stream without its first frame, or with less of it.
LEMMA RecibeDeja ==
    ASSUME InvTramas, NEW n \in Nat, NEW k \in Nat, Recibe(n, k)
    PROVE  /\ flujo # <<>> /\ Head(flujo) = flujo[1] /\ flujo[1] \in Trama /\ Len(flujo) >= 1
           /\ k \in 1 .. n /\ k <= flujo[1].resta
           /\ flujo' \in Seq(Trama)
           /\ k = flujo[1].resta =>
                /\ flujo' = Tail(flujo)
                /\ Len(flujo') = Len(flujo) - 1
                /\ \A i \in 1 .. Len(flujo') : flujo'[i] = flujo[i + 1]
           /\ k # flujo[1].resta =>
                /\ flujo' # <<>>
                /\ Len(flujo') = Len(flujo)
                /\ \A i \in 2 .. Len(flujo') : flujo'[i] = flujo[i]
                /\ flujo'[1] = [flujo[1] EXCEPT !.resta = @ - k]
<1>1. flujo # <<>> /\ flujo \in Seq(Trama)
  BY DEF InvTramas, TipoTramas, Recibe
<1>2. Head(flujo) = flujo[1] /\ flujo[1] \in Trama /\ Len(flujo) \in Nat \ {0}
  BY <1>1, EmptySeq, ElementOfSeq, LenProperties
<1>3. k \in 1 .. n /\ k <= flujo[1].resta
  BY <1>2 DEF Recibe
<1>4. CASE k = flujo[1].resta
  <2>1. flujo' = Tail(flujo)
    BY <1>2, <1>4 DEF Recibe
  <2> QED
    BY <1>1, <1>2, <1>3, <1>4, <2>1, HeadTailProperties
<1>5. CASE k # flujo[1].resta
  <2> DEFINE e == [flujo[1] EXCEPT !.resta = @ - k]
  <2>1. e \in Trama
    BY <1>2, <1>3, <1>5 DEF Trama
  <2>2. flujo' = [flujo EXCEPT ![1] = e]
    BY <1>2, <1>5 DEF Recibe
  <2>3. 1 \in 1 .. Len(flujo)
    BY <1>2
  <2> HIDE DEF e
  <2>4. /\ flujo' \in Seq(Trama) /\ Len(flujo') = Len(flujo)
        /\ \A j \in 1 .. Len(flujo) : flujo'[j] = IF j = 1 THEN e ELSE flujo[j]
    BY <1>1, <2>1, <2>2, <2>3, ExceptSeq
  <2>5. flujo' # <<>>
    BY <1>2, <2>4, EmptySeq
  <2> QED
    BY <1>1, <1>2, <1>3, <1>5, <2>3, <2>4, <2>5 DEF e
<1> QED
  BY <1>4, <1>5

\* What a cut leaves: the first frames whole, and perhaps a part of the next one.
LEMMA CortarDeja ==
    ASSUME InvTramas, Cortar, CabeceraEntera
    PROVE  /\ flujo \in Seq(Trama) /\ flujo' \in Seq(Trama)
           /\ \E n \in 0 .. Len(flujo) :
                \/ /\ Len(flujo') = n
                   /\ \A i \in 1 .. n : flujo'[i] = flujo[i]
                \/ /\ n < Len(flujo) /\ Len(flujo') = n + 1
                   /\ \A i \in 1 .. n : flujo'[i] = flujo[i]
                   /\ \E k \in 1 .. flujo[n + 1].resta - 1 :
                        /\ flujo[n + 1].resta > Cuerpo[flujo[n + 1].trama] => k >= TamInt
                        /\ flujo'[n + 1] = Cortada(flujo[n + 1], k)
<1>1. flujo \in Seq(Trama) /\ Len(flujo) \in Nat
  BY LenProperties DEF InvTramas, TipoTramas
<1>2. \A i \in 1 .. Len(flujo) : flujo[i] \in Trama
  BY <1>1, ElementOfSeq
<1>3. PICK n \in 0 .. Len(flujo) :
         \/ flujo' = SubSeq(flujo, 1, n)
         \/ /\ n < Len(flujo)
            /\ \E k \in 1 .. flujo[n + 1].resta - 1 :
                 /\ flujo[n + 1].resta > Cuerpo[flujo[n + 1].trama] => k >= TamInt
                 /\ flujo' = Append(SubSeq(flujo, 1, n), Cortada(flujo[n + 1], k))
  BY DEF Cortar
<1> DEFINE s == SubSeq(flujo, 1, n)
<1>4. s \in Seq(Trama) /\ Len(s) = n /\ \A i \in 1 .. n : s[i] = flujo[i]
  <2>1. n \in Int /\ \A i \in 1 .. n : flujo[i] \in Trama
    BY <1>1, <1>2
  <2>2. /\ s \in Seq(Trama)
        /\ Len(s) = IF 1 <= n THEN n - 1 + 1 ELSE 0
        /\ \A i \in 1 .. n - 1 + 1 : s[i] = flujo[1 + i - 1]
    BY <2>1, SubSeqProperties
  <2> QED
    BY <1>1, <2>2
<1> HIDE DEF s
<1>5. CASE flujo' = s
  BY <1>1, <1>4, <1>5
<1>6. CASE /\ n < Len(flujo)
           /\ \E k \in 1 .. flujo[n + 1].resta - 1 :
                /\ flujo[n + 1].resta > Cuerpo[flujo[n + 1].trama] => k >= TamInt
                /\ flujo' = Append(s, Cortada(flujo[n + 1], k))
  <2>1. PICK k \in 1 .. flujo[n + 1].resta - 1 :
           /\ flujo[n + 1].resta > Cuerpo[flujo[n + 1].trama] => k >= TamInt
           /\ flujo' = Append(s, Cortada(flujo[n + 1], k))
    BY <1>6
  <2> DEFINE e == Cortada(flujo[n + 1], k)
  <2>2. flujo[n + 1] \in Trama
    BY <1>1, <1>2, <1>6
  <2>3. e \in Trama
    BY <2>2 DEF Trama, Cortada
  <2> HIDE DEF e
  <2>4. /\ flujo' \in Seq(Trama) /\ Len(flujo') = n + 1
        /\ \A i \in 1 .. n : flujo'[i] = s[i]
        /\ flujo'[n + 1] = e
    BY <1>4, <2>1, <2>3, AppendProperties DEF e
  <2>5. \A i \in 1 .. n : flujo'[i] = flujo[i]
    BY <1>4, <2>4
  <2> QED
    BY <1>1, <1>6, <2>1, <2>4, <2>5 DEF e
<1> QED
  BY <1>3, <1>5, <1>6 DEF s

-----------------------------------------------------------------------------
LEMMA InvInicial == InitTramas => InvTramas
<1> SUFFICES ASSUME InitTramas PROVE InvTramas
  OBVIOUS
<1>1. flujo = <<>> /\ Len(flujo) = 0 /\ flujo \in Seq(Trama) /\ abierta = FALSE
  BY EmptySeq DEF InitTramas
<1>2. /\ lee \in [fase : {"size", "buffer", "lista"}, trama : Mensajes \cup {Nulo, Ninguno},
                 falta : Nat]
      /\ lee.fase = "size"
  BY DEF InitTramas, PorLeer, Lee
<1>3. TipoTramas
  BY <1>1, <1>2 DEF TipoTramas
<1>4. Len(flujo) = 0
  BY <1>1
<1>5. SoloLaUltima /\ AlPaso
  BY <1>2, <1>4 DEF SoloLaUltima, AlPaso
<1> QED
  BY <1>3, <1>5 DEF InvTramas

LEMMA InvPaso == CabeceraEntera /\ InvTramas /\ [NextTramas]_conexion => InvTramas'
<1> SUFFICES ASSUME CabeceraEntera, InvTramas, [NextTramas]_conexion PROVE InvTramas'
  OBVIOUS
<1>0. /\ flujo \in Seq(Trama) /\ Len(flujo) \in Nat
      /\ \A i \in 1 .. Len(flujo) : flujo[i] \in Trama
      /\ flujo = <<>> <=> Len(flujo) = 0
  BY EmptySeq, LenProperties, ElementOfSeq DEF InvTramas, TipoTramas
<1>1. CASE socketConectado
  <2>1. flujo' = <<>> /\ Len(flujo') = 0 /\ flujo' \in Seq(Trama)
    BY <1>1, EmptySeq DEF socketConectado
  <2> QED
    BY <1>1, <2>1
    DEF socketConectado, InvTramas, TipoTramas, SoloLaUltima, AlPaso, PorLeer, Lee
<1>2. ASSUME NEW m \in Mensajes, enviarBuffer(m) PROVE InvTramas'
  <2> DEFINE e == [trama |-> m, resta |-> TamInt + Cuerpo[m], perdidos |-> 0]
  <2>1. e \in Trama /\ SinEmpezar(e) /\ e.perdidos = 0
    BY CuerpoAssumption, TamIntAssumption DEF Trama, SinEmpezar
  <2>2. flujo' = Append(flujo, e) /\ abierta /\ UNCHANGED <<abierta, lee>>
    BY <1>2 DEF enviarBuffer
  <2> HIDE DEF e
  <2>3. /\ flujo' \in Seq(Trama) /\ flujo' # <<>> /\ Len(flujo') = Len(flujo) + 1
        /\ \A i \in 1 .. Len(flujo) : flujo'[i] = flujo[i]
        /\ flujo'[Len(flujo')] = e
    BY <1>0, <2>1, <2>2, AppendProperties
  <2>4. TipoTramas'
    BY <2>2, <2>3 DEF InvTramas, TipoTramas
  <2>5. SoloLaUltima'
    BY <1>0, <2>1, <2>2, <2>3 DEF InvTramas, SoloLaUltima
  <2>6. lee.fase = "buffer" => flujo # <<>>
    BY <2>2 DEF InvTramas, AlPaso
  <2>7. \A i \in 1 .. Len(flujo') : i > 1 \/ lee.fase # "buffer" => SinEmpezar(flujo'[i])
    BY <1>0, <2>1, <2>3 DEF InvTramas, AlPaso
  <2>8. lee.fase = "buffer" => flujo'[1] = flujo[1]
    BY <1>0, <2>3, <2>6
  <2> QED
    BY <2>2, <2>3, <2>4, <2>5, <2>6, <2>7, <2>8 DEF InvTramas, AlPaso
<1>3. CASE Cortar
  <2>1. lee' = lee /\ abierta /\ abierta' = FALSE
    BY <1>3 DEF Cortar
  <2>2. \A i \in 1 .. Len(flujo) : flujo[i].perdidos = 0
    BY <1>0, <2>1 DEF InvTramas, SoloLaUltima, Trama
  <2>3. flujo' \in Seq(Trama)
    BY <1>3, CortarDeja
  <2>4. PICK n \in 0 .. Len(flujo) :
          \/ /\ Len(flujo') = n
             /\ \A i \in 1 .. n : flujo'[i] = flujo[i]
          \/ /\ n < Len(flujo) /\ Len(flujo') = n + 1
             /\ \A i \in 1 .. n : flujo'[i] = flujo[i]
             /\ \E k \in 1 .. flujo[n + 1].resta - 1 :
                  /\ flujo[n + 1].resta > Cuerpo[flujo[n + 1].trama] => k >= TamInt
                  /\ flujo'[n + 1] = Cortada(flujo[n + 1], k)
    BY <1>3, CortarDeja
  <2>5. flujo' = <<>> <=> Len(flujo') = 0
    BY <2>3, EmptySeq
  <2>6. TipoTramas'
    BY <2>1, <2>3 DEF InvTramas, TipoTramas
  <2>7. CASE /\ Len(flujo') = n
             /\ \A i \in 1 .. n : flujo'[i] = flujo[i]
    <3>1. SoloLaUltima'
      BY <1>0, <2>2, <2>7 DEF SoloLaUltima
    <3> QED
      BY <1>0, <2>1, <2>5, <2>6, <2>7, <3>1 DEF InvTramas, AlPaso
  <2>8. CASE /\ n < Len(flujo) /\ Len(flujo') = n + 1
             /\ \A i \in 1 .. n : flujo'[i] = flujo[i]
             /\ \E k \in 1 .. flujo[n + 1].resta - 1 :
                  /\ flujo[n + 1].resta > Cuerpo[flujo[n + 1].trama] => k >= TamInt
                  /\ flujo'[n + 1] = Cortada(flujo[n + 1], k)
    <3> DEFINE x == flujo[n + 1]
    <3>1. PICK k \in 1 .. x.resta - 1 :
             /\ x.resta > Cuerpo[x.trama] => k >= TamInt
             /\ flujo'[n + 1] = Cortada(x, k)
      BY <2>8
    <3>2. x \in Trama /\ x.perdidos = 0 /\ n + 1 \in 1 .. Len(flujo)
      BY <1>0, <2>2, <2>8
    <3>3. /\ Cortada(x, k).trama = x.trama /\ Cortada(x, k).resta = k
          /\ Cortada(x, k).perdidos = x.resta - k
          /\ k + (x.resta - k) = x.resta
      BY <3>2 DEF Cortada, Trama
    <3>4. SinEmpezar(x) => SinEmpezar(Cortada(x, k))
      <4>1. Cuerpo[x.trama] \in Nat \ {0} /\ TamInt \in Nat \ {0} /\ x.resta \in Nat
        BY <3>2, CuerpoAssumption, TamIntAssumption DEF Trama
      <4> QED
        BY <3>1, <3>2, <3>3, <4>1 DEF SinEmpezar
    <3>5. SoloLaUltima'
      BY <1>0, <2>1, <2>2, <2>8 DEF SoloLaUltima
    <3>6. \A i \in 1 .. Len(flujo') :
             i > 1 \/ lee.fase # "buffer" => SinEmpezar(flujo'[i])
      BY <1>0, <2>8, <3>1, <3>2, <3>4 DEF InvTramas, AlPaso
    <3>7. flujo'[1].trama = flujo[1].trama
      BY <1>0, <2>8, <3>1, <3>3
    <3>8. flujo'[1].resta + flujo'[1].perdidos = flujo[1].resta + flujo[1].perdidos
      <4>1. CASE n = 0
        BY <3>1, <3>2, <3>3, <4>1 DEF Trama
      <4>2. CASE n # 0
        BY <1>0, <2>8, <4>2
      <4> QED
        BY <4>1, <4>2
    <3>9. lee.fase = "buffer" =>
             /\ lee.falta > 0
             /\ flujo' # <<>> /\ flujo # <<>>
             /\ flujo'[1].trama = lee.trama
             /\ flujo'[1].resta + flujo'[1].perdidos = lee.falta
      BY <1>0, <2>5, <2>8, <3>2, <3>7, <3>8 DEF InvTramas, AlPaso
    <3> QED
      BY <2>1, <2>6, <3>5, <3>6, <3>9 DEF InvTramas, AlPaso
  <2> QED
    BY <2>4, <2>7, <2>8
<1>4. CASE recibirSize
  <2>1. lee.fase = "size" /\ abierta' = abierta
    BY <1>4 DEF recibirSize
  <2>2. \A i \in 1 .. Len(flujo) : SinEmpezar(flujo[i])
    BY <2>1 DEF InvTramas, AlPaso
  <2>3. CASE flujo = <<>> /\ lee' = Lee("lista", Nulo, 0) /\ UNCHANGED flujo
    BY <2>1, <2>2, <2>3 DEF InvTramas, TipoTramas, SoloLaUltima, AlPaso, Lee
  <2>4. ASSUME Recibe(TamInt, TamInt),
               lee' = IF EnInicio
                        THEN Lee("buffer", Head(flujo).trama, Cuerpo[Head(flujo).trama])
                        ELSE Lee("lista", Basura, 0)
        PROVE  InvTramas'
    <3> DEFINE x == flujo[1]
    <3>1. TamInt \in Nat
      BY TamIntAssumption
    <3>2. /\ flujo # <<>> /\ Head(flujo) = x /\ x \in Trama /\ Len(flujo) >= 1
          /\ TamInt <= x.resta
          /\ flujo' \in Seq(Trama)
          /\ TamInt = x.resta =>
               /\ Len(flujo') = Len(flujo) - 1
               /\ \A i \in 1 .. Len(flujo') : flujo'[i] = flujo[i + 1]
          /\ TamInt # x.resta =>
               /\ flujo' # <<>>
               /\ Len(flujo') = Len(flujo)
               /\ \A i \in 2 .. Len(flujo') : flujo'[i] = flujo[i]
               /\ flujo'[1] = [x EXCEPT !.resta = @ - TamInt]
      BY <2>4, <3>1, RecibeDeja
    <3>3. /\ x.trama \in Mensajes /\ x.resta \in Nat \ {0} /\ x.perdidos \in Nat
          /\ Cuerpo[x.trama] \in Nat \ {0} /\ TamInt \in Nat \ {0}
          /\ x.resta + x.perdidos = TamInt + Cuerpo[x.trama]
      <4>1. SinEmpezar(x) /\ x \in Trama
        BY <1>0, <2>2, <3>2
      <4> HIDE DEF x
      <4>2. x.trama \in Mensajes /\ x.resta \in Nat \ {0} /\ x.perdidos \in Nat
        BY <4>1 DEF Trama
      <4> QED
        BY <4>1, <4>2, CuerpoAssumption, TamIntAssumption DEF SinEmpezar
    <3>4. lee' = Lee("buffer", x.trama, Cuerpo[x.trama])
      BY <2>4, <3>2, <3>3 DEF EnInicio
    <3>5. /\ lee' \in [fase : {"size", "buffer", "lista"},
                      trama : Mensajes \cup {Nulo, Ninguno}, falta : Nat]
          /\ lee'.fase = "buffer" /\ lee'.trama = x.trama /\ lee'.falta = Cuerpo[x.trama]
      BY <3>3, <3>4 DEF Lee
    <3>6. flujo' = <<>> <=> Len(flujo') = 0
      BY <3>2, EmptySeq
    <3>7. TipoTramas'
      BY <2>1, <3>2, <3>5 DEF InvTramas, TipoTramas
    <3>8. CASE TamInt = x.resta
      <4>1. x.perdidos = Cuerpo[x.trama] /\ Len(flujo) = 1 /\ ~abierta
        BY <1>0, <3>2, <3>3, <3>8 DEF InvTramas, SoloLaUltima
      <4>2. flujo' = <<>> /\ Len(flujo') = 0
        BY <3>2, <3>6, <3>8, <4>1
      <4> QED
        BY <2>1, <3>3, <3>5, <3>7, <4>1, <4>2 DEF InvTramas, SoloLaUltima, AlPaso
    <3>9. CASE TamInt # x.resta
      <4>1. /\ flujo'[1].trama = x.trama /\ flujo'[1].perdidos = x.perdidos
            /\ flujo'[1].resta = x.resta - TamInt
        BY <3>2, <3>9 DEF Trama
      <4>2. flujo'[1].resta + flujo'[1].perdidos = Cuerpo[x.trama]
        BY <3>3, <4>1
      <4>3. \A i \in 1 .. Len(flujo') : flujo'[i].perdidos = flujo[i].perdidos
        BY <1>0, <3>2, <3>9, <4>1
      <4>4. SoloLaUltima'
        BY <1>0, <2>1, <3>2, <3>9, <4>3 DEF InvTramas, SoloLaUltima
      <4>5. \A i \in 1 .. Len(flujo') : i > 1 => SinEmpezar(flujo'[i])
        BY <1>0, <2>2, <3>2, <3>9
      <4> QED
        BY <3>2, <3>3, <3>5, <3>7, <3>9, <4>1, <4>2, <4>4, <4>5 DEF InvTramas, AlPaso
    <3> QED
      BY <3>8, <3>9
  <2> QED
    BY <1>4, <2>3, <2>4 DEF recibirSize
<1>5. CASE recibirBuffer
  <2>1. lee.fase = "buffer" /\ abierta' = abierta
    BY <1>5 DEF recibirBuffer
  <2>2. lee.falta \in Nat /\ lee.trama \in Mensajes \cup {Nulo, Ninguno}
    BY DEF InvTramas, TipoTramas
  <2>3. PICK k \in 1 .. lee.falta :
           /\ Recibe(lee.falta, k)
           /\ lee' = IF k = lee.falta
                        THEN Lee("lista", lee.trama, 0)
                        ELSE [lee EXCEPT !.falta = @ - k]
    BY <1>5 DEF recibirBuffer
  <2> DEFINE x == flujo[1]
  <2>4. /\ flujo # <<>> /\ x \in Trama /\ Len(flujo) >= 1
        /\ k <= x.resta
        /\ flujo' \in Seq(Trama)
        /\ k = x.resta =>
             /\ Len(flujo') = Len(flujo) - 1
             /\ \A i \in 1 .. Len(flujo') : flujo'[i] = flujo[i + 1]
        /\ k # x.resta =>
             /\ flujo' # <<>>
             /\ Len(flujo') = Len(flujo)
             /\ \A i \in 2 .. Len(flujo') : flujo'[i] = flujo[i]
             /\ flujo'[1] = [x EXCEPT !.resta = @ - k]
    BY <2>2, <2>3, RecibeDeja
  <2>5. x.trama = lee.trama /\ x.resta + x.perdidos = lee.falta
    BY <2>1, <2>4 DEF InvTramas, AlPaso
  <2>6. x.resta \in Nat \ {0} /\ x.perdidos \in Nat
    BY <2>4 DEF Trama
  <2>7. flujo' = <<>> <=> Len(flujo') = 0
    BY <2>4, EmptySeq
  <2>8. lee' \in [fase : {"size", "buffer", "lista"},
                 trama : Mensajes \cup {Nulo, Ninguno}, falta : Nat]
    BY <2>2, <2>3 DEF InvTramas, TipoTramas, Lee
  <2>9. TipoTramas'
    BY <2>1, <2>4, <2>8 DEF InvTramas, TipoTramas
  <2>10. CASE k = x.resta
    <3>1. \A i \in 1 .. Len(flujo') : SinEmpezar(flujo'[i])
      BY <1>0, <2>4, <2>10 DEF InvTramas, AlPaso
    <3>2. SoloLaUltima'
      BY <1>0, <2>1, <2>4, <2>10 DEF InvTramas, SoloLaUltima
    <3>3. CASE k = lee.falta
      <4>1. lee'.fase = "lista"
        BY <2>3, <3>3 DEF Lee
      <4> QED
        BY <2>9, <3>1, <3>2, <4>1 DEF InvTramas, AlPaso
    <3>4. CASE k # lee.falta
      <4>1. lee'.fase = "buffer" /\ lee'.falta > 0
        BY <2>1, <2>2, <2>3, <3>4 DEF InvTramas, TipoTramas
      <4>2. Len(flujo) = 1 /\ ~abierta
        BY <1>0, <2>4, <2>5, <2>6, <2>10, <3>4 DEF InvTramas, SoloLaUltima
      <4>3. flujo' = <<>>
        BY <2>4, <2>7, <2>10, <4>2
      <4> QED
        BY <2>1, <2>9, <3>1, <3>2, <4>1, <4>2, <4>3 DEF InvTramas, AlPaso
    <3> QED
      BY <3>3, <3>4
  <2>11. CASE k # x.resta
    <3>1. /\ flujo'[1].trama = x.trama /\ flujo'[1].perdidos = x.perdidos
          /\ flujo'[1].resta = x.resta - k
      BY <2>4, <2>11 DEF Trama
    <3>2. k < lee.falta
      BY <2>2, <2>4, <2>5, <2>6, <2>11
    <3>3. lee'.fase = "buffer" /\ lee'.trama = lee.trama /\ lee'.falta = lee.falta - k
      BY <2>1, <2>3, <3>2 DEF InvTramas, TipoTramas
    <3>4. flujo'[1].resta + flujo'[1].perdidos = lee'.falta /\ lee'.falta > 0
      BY <2>2, <2>5, <2>6, <3>1, <3>2, <3>3
    <3>5. \A i \in 1 .. Len(flujo') : flujo'[i].perdidos = flujo[i].perdidos
      BY <1>0, <2>4, <2>11, <3>1
    <3>6. SoloLaUltima'
      BY <1>0, <2>1, <2>4, <2>11, <3>5 DEF InvTramas, SoloLaUltima
    <3>7. \A i \in 1 .. Len(flujo') : i > 1 => SinEmpezar(flujo'[i])
      BY <1>0, <2>4, <2>11 DEF InvTramas, AlPaso
    <3> QED
      BY <2>4, <2>5, <2>9, <2>11, <3>1, <3>3, <3>4, <3>6, <3>7 DEF InvTramas, AlPaso
  <2> QED
    BY <2>10, <2>11
<1>6. ASSUME NEW m \in Mensajes \cup {Nulo}, Toma(m) PROVE InvTramas'
  <2>1. lee' = PorLeer /\ UNCHANGED <<flujo, abierta>> /\ lee.fase = "lista"
    BY <1>6 DEF Toma
  <2> QED
    BY <2>1 DEF InvTramas, TipoTramas, SoloLaUltima, AlPaso, PorLeer, Lee
<1>7. CASE UNCHANGED conexion
  BY <1>7 DEF conexion, InvTramas, TipoTramas, SoloLaUltima, AlPaso
<1> QED
  BY <1>1, <1>2, <1>3, <1>4, <1>5, <1>6, <1>7 DEF NextTramas

\* InvTramas holds as long as a size arrives whole, whatever recv() and a cut do.
THEOREM TramasInv ==
    ASSUME CabeceraEntera
    PROVE  SpecTramas => []InvTramas
<1>1. InvTramas /\ [NextTramas]_conexion => InvTramas'
  BY InvPaso
<1> QED
  BY <1>1, InvInicial, PTL DEF SpecTramas

-----------------------------------------------------------------------------
\* The frames of f that will come whole, and their messages: the channel it stands for.
Vistas(f) == IF f # <<>> /\ f[Len(f)].perdidos > 0 THEN Len(f) - 1 ELSE Len(f)

CanalDe(f) == [i \in 1 .. Vistas(f) |-> f[i].trama]

EntregadoDe(l) == IF l.fase = "lista" THEN l.trama ELSE Ninguno

LEMMA CanalDeTipo ==
    ASSUME NEW f \in Seq(Trama)
    PROVE  /\ Len(f) \in Nat /\ (f = <<>> <=> Len(f) = 0)
           /\ \A i \in 1 .. Len(f) : f[i] \in Trama
           /\ Vistas(f) \in Nat
           /\ Len(f) = Vistas(f) \/ (Len(f) = Vistas(f) + 1 /\ f[Len(f)].perdidos > 0)
           /\ Vistas(f) > 0 /\ Vistas(f) = Len(f) => f[Len(f)].perdidos = 0
           /\ CanalDe(f) \in Seq(Mensajes) /\ Len(CanalDe(f)) = Vistas(f)
           /\ \A i \in 1 .. Vistas(f) : CanalDe(f)[i] = f[i].trama
<1>1. Len(f) \in Nat /\ (f = <<>> <=> Len(f) = 0) /\ \A i \in 1 .. Len(f) : f[i] \in Trama
  BY EmptySeq, LenProperties, ElementOfSeq
<1>2. /\ Vistas(f) \in Nat
      /\ Len(f) = Vistas(f) \/ (Len(f) = Vistas(f) + 1 /\ f[Len(f)].perdidos > 0)
  BY <1>1 DEF Vistas
<1>3. Vistas(f) > 0 /\ Vistas(f) = Len(f) => f[Len(f)].perdidos = 0
  <2>1. Len(f) > 0 => f[Len(f)].perdidos \in Nat
    BY <1>1 DEF Trama
  <2> QED
    BY <1>1, <2>1 DEF Vistas
<1>4. \A i \in 1 .. Vistas(f) : f[i].trama \in Mensajes
  BY <1>1, <1>2 DEF Trama
<1>5. CanalDe(f) \in [1 .. Vistas(f) -> Mensajes]
  BY <1>4 DEF CanalDe
<1>6. CanalDe(f) \in Seq(Mensajes)
  BY <1>2, <1>5, SeqDef
<1>7. Len(CanalDe(f)) = Vistas(f)
  BY <1>2, <1>5, <1>6, LenProperties
<1> QED
  BY <1>1, <1>2, <1>3, <1>6, <1>7 DEF CanalDe

\* Two streams with as many frames to come, of the same messages, are the same channel.
LEMMA MismoCanal ==
    ASSUME NEW f \in Seq(Trama), NEW g \in Seq(Trama), Vistas(f) = Vistas(g),
           \A i \in 1 .. Vistas(f) : f[i].trama = g[i].trama
    PROVE  CanalDe(f) = CanalDe(g)
BY DEF CanalDe

\* No frame to come: the empty channel.
LEMMA CanalVacio ==
    ASSUME NEW f \in Seq(Trama), Vistas(f) = 0
    PROVE  CanalDe(f) = <<>>
<1>1. CanalDe(f) \in Seq(Mensajes) /\ Len(CanalDe(f)) = 0
  BY CanalDeTipo
<1> QED
  BY <1>1, EmptySeq

LEMMA AbstractoEs ==
    /\ Abstracto!Init <=>
         CanalDe(flujo) = <<>> /\ abierta = FALSE /\ EntregadoDe(lee) = Ninguno
    /\ Abstracto!Conectar <=>
         CanalDe(flujo)' = <<>> /\ abierta' = TRUE /\ EntregadoDe(lee)' = Ninguno
    /\ \A m \in Mensajes : Abstracto!Poner(m) <=>
         /\ abierta /\ CanalDe(flujo)' = Append(CanalDe(flujo), m)
         /\ abierta' = abierta /\ EntregadoDe(lee)' = EntregadoDe(lee)
    /\ Abstracto!Cortar <=>
         /\ abierta /\ abierta' = FALSE
         /\ \E n \in 0 .. Len(CanalDe(flujo)) : CanalDe(flujo)' = SubSeq(CanalDe(flujo), 1, n)
         /\ EntregadoDe(lee)' = EntregadoDe(lee)
    /\ Abstracto!Entregar <=>
         /\ EntregadoDe(lee) = Ninguno
         /\ \/ /\ CanalDe(flujo) # <<>>
               /\ EntregadoDe(lee)' = Head(CanalDe(flujo))
               /\ CanalDe(flujo)' = Tail(CanalDe(flujo))
            \/ /\ CanalDe(flujo) = <<>> /\ ~abierta
               /\ EntregadoDe(lee)' = Nulo
               /\ CanalDe(flujo)' = CanalDe(flujo)
         /\ abierta' = abierta
    /\ Abstracto!Tomar <=>
         /\ EntregadoDe(lee)' = Ninguno
         /\ CanalDe(flujo)' = CanalDe(flujo) /\ abierta' = abierta
    /\ UNCHANGED Abstracto!vars <=>
         /\ CanalDe(flujo)' = CanalDe(flujo) /\ abierta' = abierta
         /\ EntregadoDe(lee)' = EntregadoDe(lee)
BY DEF Abstracto!Init, Abstracto!Conectar, Abstracto!Poner, Abstracto!Cortar,
       Abstracto!Entregar, Abstracto!Tomar, Abstracto!vars, CanalDe, Vistas, Enteras,
       EntregadoDe

LEMMA PasoDeTramas ==
    CabeceraEntera /\ InvTramas /\ InvTramas' /\ [NextTramas]_conexion
        => [Abstracto!Next]_(Abstracto!vars)
<1> SUFFICES ASSUME CabeceraEntera, InvTramas, InvTramas', [NextTramas]_conexion
             PROVE  Abstracto!Next \/ UNCHANGED Abstracto!vars
  OBVIOUS
<1> DEFINE c == CanalDe(flujo)
           d == CanalDe(flujo')
<1>0. flujo \in Seq(Trama) /\ flujo' \in Seq(Trama)
  BY DEF InvTramas, TipoTramas
<1>1. /\ Len(flujo) \in Nat /\ (flujo = <<>> <=> Len(flujo) = 0)
      /\ \A i \in 1 .. Len(flujo) : flujo[i] \in Trama
      /\ Vistas(flujo) \in Nat
      /\ \/ Len(flujo) = Vistas(flujo)
         \/ Len(flujo) = Vistas(flujo) + 1 /\ flujo[Len(flujo)].perdidos > 0
      /\ c \in Seq(Mensajes) /\ Len(c) = Vistas(flujo)
      /\ \A i \in 1 .. Vistas(flujo) : c[i] = flujo[i].trama
  BY <1>0, CanalDeTipo
<1>2. /\ Len(flujo') \in Nat /\ (flujo' = <<>> <=> Len(flujo') = 0)
      /\ \A i \in 1 .. Len(flujo') : flujo'[i] \in Trama
      /\ Vistas(flujo') \in Nat
      /\ \/ Len(flujo') = Vistas(flujo')
         \/ Len(flujo') = Vistas(flujo') + 1 /\ flujo'[Len(flujo')].perdidos > 0
      /\ Vistas(flujo') > 0 /\ Vistas(flujo') = Len(flujo')
           => flujo'[Len(flujo')].perdidos = 0
      /\ d \in Seq(Mensajes) /\ Len(d) = Vistas(flujo')
      /\ \A i \in 1 .. Vistas(flujo') : d[i] = flujo'[i].trama
  BY <1>0, CanalDeTipo
<1>3. abierta => Vistas(flujo) = Len(flujo)
  BY <1>1 DEF InvTramas, SoloLaUltima
<1>4. d = CanalDe(flujo)'
  BY DEF CanalDe, Vistas
<1> HIDE DEF c, d
<1>5. CASE socketConectado
  <2>1. d = <<>>
    <3>1. flujo' = <<>>
      BY <1>5 DEF socketConectado
    <3>2. Vistas(flujo') = 0
      BY <1>2, <3>1
    <3> QED
      BY <1>0, <3>2, CanalVacio DEF d
  <2>2. abierta' = TRUE /\ EntregadoDe(lee)' = Ninguno
    BY <1>5 DEF socketConectado, PorLeer, Lee, EntregadoDe
  <2> QED
    BY <1>4, <2>1, <2>2, AbstractoEs DEF Abstracto!Next
<1>6. ASSUME NEW m \in Mensajes, enviarBuffer(m) PROVE Abstracto!Next
  <2> DEFINE e == [trama |-> m, resta |-> TamInt + Cuerpo[m], perdidos |-> 0]
  <2>1. e \in Trama /\ e.trama = m
    BY CuerpoAssumption, TamIntAssumption DEF Trama
  <2>2. abierta /\ abierta' /\ abierta' = abierta /\ lee' = lee /\ flujo' = Append(flujo, e)
    BY <1>6 DEF enviarBuffer
  <2> HIDE DEF e
  <2>3. /\ Len(flujo') = Len(flujo) + 1
        /\ \A i \in 1 .. Len(flujo) : flujo'[i] = flujo[i]
        /\ flujo'[Len(flujo) + 1] = e
    BY <1>0, <2>1, <2>2, AppendProperties
  <2>4. Vistas(flujo') = Len(flujo) + 1 /\ Vistas(flujo) = Len(flujo)
    BY <1>2, <1>3, <2>2, <2>3 DEF InvTramas, SoloLaUltima
  <2>5. /\ Append(c, m) \in Seq(Mensajes) /\ Len(Append(c, m)) = Len(c) + 1
        /\ \A i \in 1 .. Len(c) : Append(c, m)[i] = c[i]
        /\ Append(c, m)[Len(c) + 1] = m
    BY <1>1, AppendProperties
  <2>6. \A i \in 1 .. Len(d) : d[i] = Append(c, m)[i]
    BY <1>1, <1>2, <2>1, <2>3, <2>4, <2>5
  <2>7. d = Append(c, m)
    BY <1>1, <1>2, <2>4, <2>5, <2>6, SeqEqual
  <2>8. EntregadoDe(lee)' = EntregadoDe(lee)
    BY <2>2
  <2> QED
    BY <1>4, <2>2, <2>7, <2>8, AbstractoEs DEF c, Abstracto!Next
<1>7. CASE Cortar
  <2>1. abierta /\ abierta' = FALSE /\ lee' = lee
    BY <1>7 DEF Cortar
  <2>2. PICK n \in 0 .. Len(flujo) :
          \/ /\ Len(flujo') = n
             /\ \A i \in 1 .. n : flujo'[i] = flujo[i]
          \/ /\ n < Len(flujo) /\ Len(flujo') = n + 1
             /\ \A i \in 1 .. n : flujo'[i] = flujo[i]
             /\ \E k \in 1 .. flujo[n + 1].resta - 1 :
                  /\ flujo[n + 1].resta > Cuerpo[flujo[n + 1].trama] => k >= TamInt
                  /\ flujo'[n + 1] = Cortada(flujo[n + 1], k)
    BY <1>7, CortarDeja
  <2>3. \A i \in 1 .. Len(flujo) : flujo[i].perdidos = 0
    BY <1>1, <2>1 DEF InvTramas, SoloLaUltima, Trama
  <2>4. Len(flujo') = n + 1 => flujo'[n + 1].perdidos > 0
    <3> SUFFICES ASSUME Len(flujo') = n + 1, n < Len(flujo),
                        NEW k \in 1 .. flujo[n + 1].resta - 1,
                        flujo'[n + 1] = Cortada(flujo[n + 1], k)
                 PROVE  flujo'[n + 1].perdidos > 0
      BY <2>2
    <3>1. flujo[n + 1].resta \in Nat
      BY <1>1 DEF Trama
    <3> QED
      BY <3>1 DEF Cortada
  <2>5. Vistas(flujo') = n /\ Vistas(flujo) = Len(flujo)
    BY <1>2, <1>3, <2>1, <2>2, <2>3, <2>4
  <2>6. /\ SubSeq(c, 1, n) \in Seq(Mensajes) /\ Len(SubSeq(c, 1, n)) = n
        /\ \A i \in 1 .. n : SubSeq(c, 1, n)[i] = c[i]
    <3>1. \A i \in 1 .. n : c[i] \in Mensajes
      BY <1>1, <2>5, ElementOfSeq
    <3>2. /\ SubSeq(c, 1, n) \in Seq(Mensajes)
          /\ Len(SubSeq(c, 1, n)) = IF 1 <= n THEN n - 1 + 1 ELSE 0
          /\ \A i \in 1 .. n - 1 + 1 : SubSeq(c, 1, n)[i] = c[1 + i - 1]
      BY <3>1, SubSeqProperties
    <3> QED
      BY <1>1, <3>2
  <2>7. \A i \in 1 .. Len(d) : d[i] = SubSeq(c, 1, n)[i]
    <3> SUFFICES ASSUME NEW i \in 1 .. Len(d) PROVE d[i] = SubSeq(c, 1, n)[i]
      OBVIOUS
    <3>1. i \in 1 .. n /\ i \in 1 .. Vistas(flujo') /\ i \in 1 .. Vistas(flujo)
      BY <1>1, <1>2, <2>5
    <3>2. d[i] = flujo'[i].trama /\ c[i] = flujo[i].trama
      BY <1>1, <1>2, <3>1
    <3>3. flujo'[i] = flujo[i] /\ SubSeq(c, 1, n)[i] = c[i]
      BY <2>2, <2>6, <3>1
    <3> QED
      BY <3>2, <3>3
  <2>8. d = SubSeq(c, 1, n)
    BY <1>2, <2>5, <2>6, <2>7, SeqEqual
  <2>9. n \in 0 .. Len(c)
    BY <1>1, <2>5
  <2>10. EntregadoDe(lee)' = EntregadoDe(lee)
    BY <2>1
  <2> QED
    BY <1>4, <2>1, <2>8, <2>9, <2>10, AbstractoEs DEF c, Abstracto!Next
<1>8. CASE recibirSize
  <2>1. lee.fase = "size" /\ abierta' = abierta /\ EntregadoDe(lee) = Ninguno
    BY <1>8 DEF recibirSize, EntregadoDe
  <2>2. CASE flujo = <<>> /\ ~abierta /\ lee' = Lee("lista", Nulo, 0) /\ UNCHANGED flujo
    <3>1. EntregadoDe(lee)' = Nulo
      BY <2>2 DEF EntregadoDe, Lee
    <3>2. Vistas(flujo) = 0
      BY <1>1, <2>2
    <3>3. c = <<>>
      BY <1>0, <3>2, CanalVacio DEF c
    <3>4. CanalDe(flujo)' = c
      BY <2>2 DEF c, CanalDe, Vistas
    <3> QED
      BY <2>1, <2>2, <3>1, <3>3, <3>4, AbstractoEs DEF c, Abstracto!Next
  <2>3. ASSUME Recibe(TamInt, TamInt),
               lee' = IF EnInicio
                        THEN Lee("buffer", Head(flujo).trama, Cuerpo[Head(flujo).trama])
                        ELSE Lee("lista", Basura, 0)
        PROVE  UNCHANGED Abstracto!vars
    <3> DEFINE x == flujo[1]
    <3>1. /\ flujo # <<>> /\ Head(flujo) = x /\ x \in Trama /\ Len(flujo) >= 1
          /\ TamInt = x.resta => Len(flujo') = Len(flujo) - 1
          /\ TamInt # x.resta =>
               /\ Len(flujo') = Len(flujo)
               /\ \A i \in 2 .. Len(flujo') : flujo'[i] = flujo[i]
               /\ flujo'[1] = [x EXCEPT !.resta = @ - TamInt]
      BY <2>3, TamIntAssumption, RecibeDeja
    <3>2. SinEmpezar(x)
      BY <1>1, <2>1, <3>1 DEF InvTramas, AlPaso
    <3>3. EnInicio
      BY <3>1, <3>2 DEF EnInicio, SinEmpezar
    <3>4. EntregadoDe(lee)' = Ninguno
      BY <2>3, <3>3 DEF EntregadoDe, Lee
    <3>5. d = c
      <4>1. CASE TamInt = x.resta
        <5>1. x.trama \in Mensajes /\ x.perdidos \in Nat
          BY <3>1 DEF Trama
        <5>2. x.perdidos > 0
          BY <3>2, <4>1, <5>1, CuerpoAssumption, TamIntAssumption DEF SinEmpezar
        <5>3. Len(flujo) = 1
          <6>1. 1 \in 1 .. Len(flujo)
            BY <1>1, <3>1
          <6> QED
            BY <5>2, <6>1 DEF InvTramas, SoloLaUltima
        <5>4. Vistas(flujo) = 0
          BY <3>1, <5>2, <5>3 DEF Vistas
        <5>5. Vistas(flujo') = 0
          BY <1>2, <3>1, <4>1, <5>3
        <5> QED
          BY <1>0, <5>4, <5>5, CanalVacio DEF c, d
      <4>2. CASE TamInt # x.resta
        <5>1. flujo'[1].trama = x.trama /\ flujo'[1].perdidos = x.perdidos
          BY <3>1, <4>2 DEF Trama
        <5>2. \A i \in 1 .. Len(flujo) :
                 flujo'[i].trama = flujo[i].trama /\ flujo'[i].perdidos = flujo[i].perdidos
          <6> SUFFICES ASSUME NEW i \in 1 .. Len(flujo)
                       PROVE  /\ flujo'[i].trama = flujo[i].trama
                              /\ flujo'[i].perdidos = flujo[i].perdidos
            OBVIOUS
          <6>1. i = 1 \/ i \in 2 .. Len(flujo')
            BY <1>1, <3>1, <4>2
          <6>2. i = 1 \/ flujo'[i] = flujo[i]
            BY <3>1, <4>2, <6>1
          <6> QED
            BY <5>1, <6>2
        <5>3. Vistas(flujo') = Vistas(flujo)
          BY <1>1, <1>2, <3>1, <4>2, <5>2 DEF Vistas
        <5>4. \A i \in 1 .. Vistas(flujo') : flujo'[i].trama = flujo[i].trama
          BY <1>1, <5>2, <5>3
        <5> QED
          BY <1>0, <5>3, <5>4, MismoCanal DEF c, d
      <4> QED
        BY <4>1, <4>2
    <3> QED
      BY <1>4, <2>1, <3>4, <3>5, AbstractoEs DEF c
  <2> QED
    BY <1>8, <2>2, <2>3 DEF recibirSize, Abstracto!Next
<1>9. CASE recibirBuffer
  <2>1. lee.fase = "buffer" /\ abierta' = abierta /\ EntregadoDe(lee) = Ninguno
    BY <1>9 DEF recibirBuffer, EntregadoDe
  <2>2. lee.falta \in Nat /\ lee.trama \in Mensajes \cup {Nulo, Ninguno}
    BY DEF InvTramas, TipoTramas
  <2>3. PICK k \in 1 .. lee.falta :
           /\ Recibe(lee.falta, k)
           /\ lee' = IF k = lee.falta
                        THEN Lee("lista", lee.trama, 0)
                        ELSE [lee EXCEPT !.falta = @ - k]
    BY <1>9 DEF recibirBuffer
  <2> DEFINE x == flujo[1]
  <2>4. /\ flujo # <<>> /\ x \in Trama /\ Len(flujo) >= 1 /\ k <= x.resta
        /\ k = x.resta =>
             /\ Len(flujo') = Len(flujo) - 1
             /\ \A i \in 1 .. Len(flujo') : flujo'[i] = flujo[i + 1]
        /\ k # x.resta =>
             /\ Len(flujo') = Len(flujo)
             /\ \A i \in 2 .. Len(flujo') : flujo'[i] = flujo[i]
             /\ flujo'[1] = [x EXCEPT !.resta = @ - k]
    BY <2>2, <2>3, RecibeDeja
  <2>5. x.trama = lee.trama /\ x.resta + x.perdidos = lee.falta
    BY <2>1, <2>4 DEF InvTramas, AlPaso
  <2>6. x.resta \in Nat \ {0} /\ x.perdidos \in Nat
    BY <2>4 DEF Trama
  <2>7. 1 \in 1 .. Len(flujo)
    BY <1>1, <2>4
  <2>8. CASE k = lee.falta
    <3>1. k = x.resta /\ x.perdidos = 0
      BY <2>4, <2>5, <2>6, <2>8
    <3>2. EntregadoDe(lee)' = x.trama
      BY <2>3, <2>5, <2>8 DEF EntregadoDe, Lee
    <3>3. Vistas(flujo) >= 1 /\ Vistas(flujo') = Vistas(flujo) - 1
      <4>1. Vistas(flujo) >= 1
        BY <1>1, <2>4, <3>1
      <4>2. Len(flujo') >= 1 => flujo'[Len(flujo')] = flujo[Len(flujo)]
        BY <1>1, <1>2, <2>4, <3>1
      <4>3. Len(flujo') = Len(flujo) - 1
        BY <2>4, <3>1
      <4>4. Len(flujo') >= 1 => Vistas(flujo') = Vistas(flujo) - 1
        BY <1>1, <1>2, <4>2, <4>3 DEF Vistas
      <4>5. Len(flujo') = 0 => Vistas(flujo') = Vistas(flujo) - 1
        <5> SUFFICES ASSUME Len(flujo') = 0 PROVE Vistas(flujo') = Vistas(flujo) - 1
          OBVIOUS
        <5>1. Vistas(flujo') = 0
          BY <1>2
        <5>2. Vistas(flujo) = 1
          BY <1>1, <4>1, <4>3
        <5> QED
          BY <5>1, <5>2
      <4> QED
        BY <1>2, <4>1, <4>4, <4>5
    <3>4. c # <<>> /\ Head(c) = c[1] /\ c[1] = x.trama
      BY <1>1, <3>3, EmptySeq
    <3>5. /\ Tail(c) \in Seq(Mensajes) /\ Len(Tail(c)) = Len(c) - 1
          /\ \A i \in 1 .. Len(Tail(c)) : Tail(c)[i] = c[i + 1]
      BY <1>1, <3>4, HeadTailProperties
    <3>6. \A i \in 1 .. Len(d) : d[i] = Tail(c)[i]
      <4> SUFFICES ASSUME NEW i \in 1 .. Len(d) PROVE d[i] = Tail(c)[i]
        OBVIOUS
      <4>1. /\ i \in 1 .. Vistas(flujo') /\ i \in 1 .. Len(flujo')
            /\ i + 1 \in 1 .. Vistas(flujo) /\ i \in 1 .. Len(Tail(c))
        BY <1>1, <1>2, <3>3, <3>5
      <4>2. d[i] = flujo'[i].trama /\ c[i + 1] = flujo[i + 1].trama
        BY <1>1, <1>2, <4>1
      <4>3. flujo'[i] = flujo[i + 1] /\ Tail(c)[i] = c[i + 1]
        BY <2>4, <3>1, <3>5, <4>1
      <4> QED
        BY <4>2, <4>3
    <3>7. d = Tail(c)
      BY <1>1, <1>2, <3>3, <3>5, <3>6, SeqEqual
    <3> QED
      BY <1>4, <2>1, <3>2, <3>4, <3>7, AbstractoEs DEF c, Abstracto!Next
  <2>9. CASE k # lee.falta
    <3>1. EntregadoDe(lee)' = Ninguno
      BY <2>1, <2>3, <2>9 DEF EntregadoDe, InvTramas, TipoTramas
    <3>2. d = c
      <4>1. CASE k = x.resta
        <5>1. x.perdidos > 0
          BY <2>5, <2>6, <2>9, <4>1
        <5>2. Len(flujo) = 1
          BY <2>7, <5>1 DEF InvTramas, SoloLaUltima
        <5>3. Vistas(flujo) = 0
          BY <2>4, <5>1, <5>2 DEF Vistas
        <5>4. Vistas(flujo') = 0
          BY <1>2, <2>4, <4>1, <5>2
        <5> QED
          BY <1>0, <5>3, <5>4, CanalVacio DEF c, d
      <4>2. CASE k # x.resta
        <5>1. flujo'[1].trama = x.trama /\ flujo'[1].perdidos = x.perdidos
          BY <2>4, <4>2 DEF Trama
        <5>2. \A i \in 1 .. Len(flujo) :
                 flujo'[i].trama = flujo[i].trama /\ flujo'[i].perdidos = flujo[i].perdidos
          <6> SUFFICES ASSUME NEW i \in 1 .. Len(flujo)
                       PROVE  /\ flujo'[i].trama = flujo[i].trama
                              /\ flujo'[i].perdidos = flujo[i].perdidos
            OBVIOUS
          <6>1. i = 1 \/ i \in 2 .. Len(flujo')
            BY <1>1, <2>4, <4>2
          <6>2. i = 1 \/ flujo'[i] = flujo[i]
            BY <2>4, <4>2, <6>1
          <6> QED
            BY <5>1, <6>2
        <5>3. Vistas(flujo') = Vistas(flujo)
          BY <1>1, <1>2, <2>4, <4>2, <5>2 DEF Vistas
        <5>4. \A i \in 1 .. Vistas(flujo') : flujo'[i].trama = flujo[i].trama
          BY <1>1, <5>2, <5>3
        <5> QED
          BY <1>0, <5>3, <5>4, MismoCanal DEF c, d
      <4> QED
        BY <4>1, <4>2
    <3>3. UNCHANGED Abstracto!vars
      BY <1>4, <2>1, <3>1, <3>2, AbstractoEs DEF c
    <3> QED
      BY <3>3
  <2> QED
    BY <2>8, <2>9
<1>10. ASSUME NEW m \in Mensajes \cup {Nulo}, Toma(m) PROVE Abstracto!Next
  <2>1. EntregadoDe(lee)' = Ninguno /\ flujo' = flujo /\ abierta' = abierta
    BY <1>10 DEF Toma, PorLeer, Lee, EntregadoDe
  <2>2. CanalDe(flujo)' = CanalDe(flujo)
    BY <2>1 DEF CanalDe, Vistas
  <2> QED
    BY <2>1, <2>2, AbstractoEs DEF Abstracto!Next
<1>11. CASE UNCHANGED conexion
  BY <1>11, AbstractoEs DEF conexion, CanalDe, Vistas, EntregadoDe
<1> QED
  BY <1>5, <1>6, <1>7, <1>8, <1>9, <1>10, <1>11 DEF NextTramas

\* While a size arrives whole, the framing (enviarBuffer, recibirSize, recibirBuffer)
\* implements the channel of whole messages in order: for every set of messages, of
\* any sizes, whatever the pieces recv() returns and wherever the connection is cut.
THEOREM TramasImplementaCanal ==
    ASSUME CabeceraEntera
    PROVE  SpecTramas => CumpleCanal
<1>1. InitTramas => Abstracto!Init
  <2> SUFFICES ASSUME InitTramas PROVE Abstracto!Init
    OBVIOUS
  <2>1. flujo = <<>> /\ Len(flujo) = 0 /\ flujo \in Seq(Trama)
    BY EmptySeq DEF InitTramas
  <2>2. CanalDe(flujo) = <<>>
    BY <2>1, CanalVacio DEF Vistas
  <2> QED
    BY <2>2, AbstractoEs DEF InitTramas, PorLeer, Lee, EntregadoDe
<1>2. InvTramas /\ InvTramas' /\ [NextTramas]_conexion => [Abstracto!Next]_(Abstracto!vars)
  BY PasoDeTramas
<1> QED
  BY <1>1, <1>2, TramasInv, PTL DEF SpecTramas, CumpleCanal, Abstracto!Spec
-----------------------------------------------------------------------------
(***************************************************************************)
(* The journey.                                                            *)
(***************************************************************************)
\* The trainer and the map only touch the connection with the operations of Tramas.
LEMMA PasoDeViaje == [Next]_vars => [NextTramas]_conexion
<1> SUFFICES ASSUME [Next]_vars PROVE NextTramas \/ UNCHANGED conexion
  OBVIOUS
<1> USE DEF NextTramas
<1>1. CASE Entrenador
  <2>1. CASE \/ MaestroPokemon \/ UsaLiberado \/ VuelveAlMapa \/ PierdeElJuego
             \/ SiguientePokemon \/ obtenerMedalla \/ ObjetivoCumplido \/ RestaVida
             \/ SumaVida \/ QuitaVida \/ CierraSocket \/ recargarEntrenador \/ SeRinde
    BY <2>1 DEF MaestroPokemon, UsaLiberado, VuelveAlMapa, PierdeElJuego,
                SiguientePokemon, obtenerMedalla, ObjetivoCumplido, RestaVida, SumaVida,
                QuitaVida, Escribe, CierraSocket, recargarEntrenador, SeRinde
  <2>2. CASE iniciarMapa \/ Recv
    BY <2>2 DEF iniciarMapa, Recv
  <2>3. CASE \/ RecibeNulo \/ RecibeUbicacion \/ RecibeCapturar \/ RecibePokemon
             \/ RecibeBatalla \/ RecibeMuerte
    BY <2>3, MensajesAssumption
    DEF RecibeNulo, RecibeUbicacion, RecibeCapturar, RecibePokemon, RecibeBatalla,
        RecibeMuerte
  <2> QED
    BY <1>1, <2>1, <2>2, <2>3 DEF Entrenador
<1>2. CASE MapaResponde
  BY <1>2, MensajesAssumption
  DEF MapaResponde, DaUbicacion, DaCapturar, DaPokemon, DaBatalla, DaMuerte, Contesta
<1>3. CASE Teclea \/ NoConecta \/ SIGUSR1 \/ SIGTERM \/ \E p \in copias : TerminaCopia(p)
  BY <1>3 DEF Teclea, NoConecta, SIGUSR1, SIGTERM, TerminaCopia
<1>4. CASE CaeMapa
  BY <1>4 DEF CaeMapa
<1>5. CASE UNCHANGED vars
  BY <1>5 DEF vars
<1> QED
  BY <1>1, <1>2, <1>3, <1>4, <1>5 DEF Next

\* Over all its journey, with its signals, restarts and the falls of the maps, the
\* trainer's connection is a channel of whole messages while a size arrives whole.
THEOREM ViajeCumpleCanal ==
    ASSUME CabeceraEntera
    PROVE  Spec => CumpleCanal
<1>1. Init => InitTramas
  BY DEF Init
<1>2. [Next]_vars => [NextTramas]_conexion
  BY PasoDeViaje
<1>3. SpecTramas => CumpleCanal
  BY TramasImplementaCanal
<1> QED
  BY <1>1, <1>2, <1>3, PTL DEF Spec, SpecTramas

-----------------------------------------------------------------------------
FasesDeJuego == {"viaje", "recibe", "pokemon", "guarda", "medalla", "resta", "perdido",
                 "pregunta"}

FasesDeSenal == {"suma", "quita", "cierra", "pregunta"}

MarcoTipo == [tipo : {"juego", "usr1", "term"}, fase : Fases, v : Int, var : Nat \ {0},
              resta : Nat, msj : {"vivo", "liberado"}]

\* A game past "viaje" is in a map of the hojaDeViaje; one about to start a map has
\* a pokemon to catch in it.
Coherente(f) ==
    /\ f.tipo # "juego" => f.fase \in FasesDeSenal
    /\ f.tipo = "juego" =>
          /\ f.fase \in FasesDeJuego
          /\ f.fase # "viaje" => f.var <= Len(HojaDeViaje)
          /\ f.fase = "viaje" /\ f.var <= Len(HojaDeViaje) => f.resta > 0

\* At the bottom of the stack is the game that main started.
PilaVale(p) ==
    /\ p \in Seq(MarcoTipo) /\ p # <<>> /\ p[1].tipo = "juego"
    /\ \A i \in 1 .. Len(p) : Coherente(p[i])

\* A game left behind only maps of M.
Visitados(f, M) ==
    f.tipo = "juego" =>
        /\ \A j \in 1 .. Len(HojaDeViaje) : j < f.var => HojaDeViaje[j] \in M
        /\ f.fase = "medalla" => HojaDeViaje[f.var] \in M

Recorrido(p, M) == \A i \in 1 .. Len(p) : Visitados(p[i], M)

LEMMA MasMapas ==
    ASSUME NEW p, NEW M, NEW N, M \subseteq N, Recorrido(p, M)
    PROVE  Recorrido(p, N)
BY DEF Recorrido, Visitados

LEMMA CimaVale ==
    ASSUME PilaVale(pila)
    PROVE  /\ Len(pila) \in Nat \ {0} /\ Cima \in MarcoTipo /\ Coherente(Cima)
           /\ \A M : Recorrido(pila, M) => Visitados(Cima, M)
<1>1. Len(pila) \in Nat \ {0}
  BY EmptySeq, LenProperties DEF PilaVale
<1>2. Len(pila) \in 1 .. Len(pila)
  BY <1>1
<1> QED
  BY <1>1, <1>2, ElementOfSeq DEF PilaVale, Cima, Recorrido

LEMMA CambiaVale ==
    ASSUME PilaVale(pila), NEW f \in MarcoTipo, Coherente(f), f.tipo = Cima.tipo, Cambia(f)
    PROVE  /\ PilaVale(pila')
           /\ \A M : Recorrido(pila, M) /\ Visitados(f, M) => Recorrido(pila', M)
<1>1. Len(pila) \in Nat \ {0} /\ Len(pila) \in 1 .. Len(pila)
  BY CimaVale
<1>2. pila' = [pila EXCEPT ![Len(pila)] = f]
  BY DEF Cambia
<1>3. /\ pila' \in Seq(MarcoTipo) /\ Len(pila') = Len(pila)
      /\ \A j \in 1 .. Len(pila) : pila'[j] = IF j = Len(pila) THEN f ELSE pila[j]
  BY <1>1, <1>2, ExceptSeq DEF PilaVale
<1>4. pila' # <<>>
  BY <1>1, <1>3, EmptySeq
<1>5. 1 \in 1 .. Len(pila)
  BY <1>1
<1>6. pila'[1].tipo = "juego"
  BY <1>3, <1>5 DEF PilaVale, Cima
<1>7. \A i \in 1 .. Len(pila') : Coherente(pila'[i])
  BY <1>3 DEF PilaVale
<1>8. \A M : Recorrido(pila, M) /\ Visitados(f, M) => Recorrido(pila', M)
  BY <1>3 DEF Recorrido
<1> QED
  BY <1>3, <1>4, <1>6, <1>7, <1>8 DEF PilaVale

LEMMA LlamaVale ==
    ASSUME PilaVale(pila), NEW f \in MarcoTipo, Coherente(f), Llama(f)
    PROVE  /\ PilaVale(pila')
           /\ \A M : Recorrido(pila, M) /\ Visitados(f, M) => Recorrido(pila', M)
<1>1. Len(pila) \in Nat \ {0} /\ 1 \in 1 .. Len(pila)
  BY CimaVale
<1>2. pila' = Append(pila, f)
  BY DEF Llama
<1>3. /\ pila' \in Seq(MarcoTipo) /\ pila' # <<>> /\ Len(pila') = Len(pila) + 1
      /\ \A i \in 1 .. Len(pila) : pila'[i] = pila[i]
      /\ pila'[Len(pila) + 1] = f
  BY <1>2, AppendProperties DEF PilaVale
<1>4. \A i \in 1 .. Len(pila') : i \in 1 .. Len(pila) \/ i = Len(pila) + 1
  BY <1>1, <1>3
<1>5. pila'[1].tipo = "juego"
  BY <1>1, <1>3 DEF PilaVale
<1>6. \A i \in 1 .. Len(pila') : Coherente(pila'[i])
  BY <1>3, <1>4 DEF PilaVale
<1>7. \A M : Recorrido(pila, M) /\ Visitados(f, M) => Recorrido(pila', M)
  BY <1>3, <1>4 DEF Recorrido
<1> QED
  BY <1>3, <1>5, <1>6, <1>7 DEF PilaVale

LEMMA RetornaVale ==
    ASSUME PilaVale(pila), Cima.tipo # "juego", Retorna
    PROVE  /\ PilaVale(pila')
           /\ \A M : Recorrido(pila, M) => Recorrido(pila', M)
<1> DEFINE n == Len(pila) - 1
<1>1. n \in Nat \ {0} /\ 1 \in 1 .. n
  BY CimaVale DEF PilaVale, Cima
<1>2. \A i \in 1 .. n : i \in 1 .. Len(pila)
  BY <1>1
<1>3. \A i \in 1 .. n : pila[i] \in MarcoTipo
  BY <1>2, ElementOfSeq DEF PilaVale
<1>4. /\ pila' \in Seq(MarcoTipo) /\ Len(pila') = n
      /\ \A i \in 1 .. n : pila'[i] = pila[i]
  <2>1. pila' = SubSeq(pila, 1, n)
    BY DEF Retorna
  <2> HIDE DEF n
  <2>2. /\ pila' \in Seq(MarcoTipo) /\ Len(pila') = IF 1 <= n THEN n - 1 + 1 ELSE 0
        /\ \A i \in 1 .. n - 1 + 1 : pila'[i] = pila[1 + i - 1]
    BY <1>1, <1>3, <2>1, SubSeqProperties
  <2>3. n - 1 + 1 = n /\ \A i \in 1 .. n : 1 + i - 1 = i
    BY <1>1
  <2> QED
    BY <1>1, <2>2, <2>3
<1> HIDE DEF n
<1>5. pila' # <<>>
  BY <1>1, <1>4, EmptySeq
<1> QED
  BY <1>1, <1>2, <1>4, <1>5 DEF PilaVale, Recorrido

-----------------------------------------------------------------------------
\* The loop of initEntrenador at a map: a frame with something to catch there.
LEMMA EnMapaVale ==
    ASSUME NEW f \in MarcoTipo, f.tipo = "juego", NEW v \in Nat \ {0}
    PROVE  /\ EnMapa(f, v) \in MarcoTipo /\ Coherente(EnMapa(f, v))
           /\ EnMapa(f, v).tipo = "juego"
           /\ \A M : (\A j \in 1 .. Len(HojaDeViaje) : j < v => HojaDeViaje[j] \in M)
                      => Visitados(EnMapa(f, v), M)
<1> DEFINE r == IF v <= Len(HojaDeViaje) THEN Cuantos[HojaDeViaje[v]] ELSE 0
           g == EnMapa(f, v)
<1>1. r \in Nat /\ (v <= Len(HojaDeViaje) => r > 0)
  BY ViajeAssumption
<1>2. g = [f EXCEPT !.fase = "viaje", !.var = v, !.resta = r]
  BY DEF EnMapa
<1> HIDE DEF r, g
<1>3. g = [tipo |-> "juego", fase |-> "viaje", v |-> f.v, var |-> v, resta |-> r,
           msj |-> f.msj]
  BY <1>2 DEF MarcoTipo
<1>4. g \in MarcoTipo
  BY <1>1, <1>3 DEF MarcoTipo, Fases
<1> QED
  BY <1>1, <1>3, <1>4 DEF Coherente, FasesDeJuego, Visitados, g

-----------------------------------------------------------------------------
Nombres == {HojaDeViaje[i] : i \in 1 .. Len(HojaDeViaje)}

Vistos == medallas \cup sinConexion

Tipos == /\ PilaVale(pila) /\ vidas \in Int /\ Vistos \subseteq Nombres
         /\ cliente \in {"nulo", "abierto", "cerrado"}
         /\ fin \in {"no", "maestro", "rendido", "nulo"}

InvViaje == Tipos /\ (rendido \/ Recorrido(pila, Vistos)) /\ MaestroConMedallas

LEMMA Empieza ==
    /\ initEntrenador \in MarcoTipo /\ Coherente(initEntrenador)
    /\ initEntrenador.tipo = "juego" /\ \A M : Visitados(initEntrenador, M)
<1>1. Marco("juego", "viaje", 0) \in MarcoTipo /\ Marco("juego", "viaje", 0).tipo = "juego"
  BY DEF Marco, MarcoTipo, Fases
<1>2. \A j \in 1 .. Len(HojaDeViaje) : ~(j < 1)
  BY ViajeAssumption
<1> QED
  BY <1>1, <1>2, EnMapaVale DEF initEntrenador

LEMMA InitInvViaje == Init => InvViaje
<1> SUFFICES ASSUME Init PROVE InvViaje
  OBVIOUS
<1> DEFINE f == initEntrenador
<1>1. /\ f \in MarcoTipo /\ Coherente(f) /\ f.tipo = "juego"
      /\ \A M : Visitados(f, M)
  BY Empieza
<1>2. pila = <<f>>
  BY DEF Init
<1> HIDE DEF f
<1>3. /\ pila \in Seq(MarcoTipo) /\ pila # <<>> /\ Len(pila) = 1 /\ pila[1] = f
      /\ \A i \in 1 .. Len(pila) : i = 1
  BY <1>1, <1>2
<1>4. PilaVale(pila)
  BY <1>1, <1>3 DEF PilaVale
<1>5. Recorrido(pila, Vistos)
  BY <1>1, <1>3 DEF Recorrido
<1>6. vidas \in Int /\ Vistos = {} /\ cliente = "nulo" /\ fin = "no"
  BY ViajeAssumption DEF Init, Vistos
<1> QED
  BY <1>4, <1>5, <1>6 DEF InvViaje, Tipos, MaestroConMedallas

\* The top frame goes to another phase of the same game, in the same map.
LEMMA PasaVale ==
    ASSUME PilaVale(pila), Cima.tipo = "juego", Cima.fase # "viaje",
           NEW fase \in FasesDeJuego \ {"viaje"}, Pasa(fase)
    PROVE  /\ PilaVale(pila')
           /\ \A M : Recorrido(pila, M) /\ (fase = "medalla" => HojaDeViaje[Cima.var] \in M)
                      => Recorrido(pila', M)
           /\ fase # "medalla" => \A M : Recorrido(pila, M) => Recorrido(pila', M)
<1> DEFINE f == [Cima EXCEPT !.fase = fase]
<1>1. Cima \in MarcoTipo /\ Coherente(Cima) /\ \A M : Recorrido(pila, M) => Visitados(Cima, M)
  BY CimaVale
<1>2. f \in MarcoTipo /\ f.tipo = Cima.tipo /\ f.fase = fase /\ f.var = Cima.var
  BY <1>1 DEF MarcoTipo, Fases, FasesDeJuego
<1>3. Cambia(f)
  BY DEF Pasa
<1> HIDE DEF f
<1>4. Coherente(f)
  BY <1>1, <1>2 DEF Coherente
<1>5. \A M : Recorrido(pila, M) /\ (fase = "medalla" => HojaDeViaje[Cima.var] \in M)
              => Visitados(f, M)
  BY <1>1, <1>2 DEF Visitados
<1> QED
  BY <1>2, <1>3, <1>4, <1>5, CambiaVale

LEMMA MarcoConectado ==
    ASSUME NEW f \in MarcoTipo, f.tipo = "juego", NEW r, NEW g,
           g = [f EXCEPT !.fase = "recibe", !.resta = r, !.msj = "liberado"]
    PROVE  g = [tipo |-> "juego", fase |-> "recibe", v |-> f.v, var |-> f.var,
                resta |-> r, msj |-> "liberado"]
BY DEF MarcoTipo

LEMMA MarcoSiguiente ==
    ASSUME NEW f \in MarcoTipo, f.tipo = "juego", NEW r, NEW g,
           g = [f EXCEPT !.fase = "recibe", !.resta = r]
    PROVE  g = [tipo |-> "juego", fase |-> "recibe", v |-> f.v, var |-> f.var,
                resta |-> r, msj |-> f.msj]
BY DEF MarcoTipo

LEMMA MarcoMuerte ==
    ASSUME NEW f \in MarcoTipo, f.tipo = "juego", NEW v, NEW g,
           g = [f EXCEPT !.fase = "resta", !.v = v]
    PROVE  g = [tipo |-> "juego", fase |-> "resta", v |-> v, var |-> f.var,
                resta |-> f.resta, msj |-> f.msj]
BY DEF MarcoTipo

\* A frame that keeps the game in its map with resta - 1 pokemons to ask for.
LEMMA RecibeVale ==
    ASSUME PilaVale(pila), Cima.tipo = "juego", Cima.var <= Len(HojaDeViaje), Cima.resta > 0,
           NEW f \in MarcoTipo, f.tipo = "juego", f.fase = "recibe", f.var = Cima.var,
           Cambia(f)
    PROVE  /\ PilaVale(pila')
           /\ \A M : Recorrido(pila, M) => Recorrido(pila', M)
<1>1. Cima \in MarcoTipo /\ Coherente(Cima) /\ \A M : Recorrido(pila, M) => Visitados(Cima, M)
  BY CimaVale
<1>2. Coherente(f)
  BY DEF Coherente, FasesDeJuego
<1>3. \A M : Recorrido(pila, M) => Visitados(f, M)
  BY <1>1 DEF Visitados
<1> QED
  BY <1>2, <1>3, CambiaVale

\* A step that keeps what was seen of the stack and the end.
LEMMA SigueIgual ==
    ASSUME InvViaje, Tipos', medallas \subseteq medallas', sinConexion \subseteq sinConexion',
           rendido => rendido', fin' = fin \/ fin' # "maestro",
           rendido \/ rendido' \/ Recorrido(pila', Vistos')
    PROVE  InvViaje'
<1>1. rendido' \/ Recorrido(pila', Vistos')
  OBVIOUS
<1>2. MaestroConMedallas'
  BY DEF InvViaje, MaestroConMedallas
<1> QED
  BY <1>1, <1>2 DEF InvViaje

\* The return of a nested game to the loop of the game below.
LEMMA VuelveAlBucle ==
    ASSUME PilaVale(pila), Continua,
           LET abajo == Len(pila) - 1
           IN  pila' = Append(SubSeq(pila, 1, abajo - 1),
                              EnMapa(pila[abajo], pila[abajo].var + 1))
    PROVE  PilaVale(pila')
<1> DEFINE n == Len(pila) - 1
           s == SubSeq(pila, 1, n - 1)
           f == EnMapa(pila[n], pila[n].var + 1)
<1>1. n \in Nat \ {0} /\ n \in 1 .. Len(pila) /\ \A i \in 1 .. n - 1 : i \in 1 .. Len(pila)
  <2>1. Len(pila) \in Nat \ {0}
    BY CimaVale
  <2>2. Len(pila) > 1
    BY DEF Continua
  <2> QED
    BY <2>1, <2>2
<1>2. pila[n] \in MarcoTipo /\ pila[n].tipo = "juego" /\ pila[n].var + 1 \in Nat \ {0}
  <2>1. pila[n] \in MarcoTipo
    BY <1>1, ElementOfSeq DEF PilaVale
  <2> QED
    BY <2>1 DEF Continua, MarcoTipo
<1>3. pila' = Append(s, f)
  OBVIOUS
<1>4. f \in MarcoTipo /\ Coherente(f) /\ f.tipo = "juego"
  BY <1>2, EnMapaVale
<1>5. \A i \in 1 .. n - 1 : pila[i] \in MarcoTipo
  BY <1>1, ElementOfSeq DEF PilaVale
<1> HIDE DEF n, f
<1>6. /\ s \in Seq(MarcoTipo) /\ Len(s) = n - 1
      /\ \A i \in 1 .. n - 1 : s[i] = pila[i]
  <2> DEFINE k == n - 1
  <2>1. k \in Nat
    BY <1>1
  <2>2. \A i \in 1 .. k : pila[i] \in MarcoTipo
    BY <1>5
  <2>3. s = SubSeq(pila, 1, k)
    OBVIOUS
  <2> HIDE DEF k, s
  <2>4. /\ s \in Seq(MarcoTipo) /\ Len(s) = IF 1 <= k THEN k - 1 + 1 ELSE 0
        /\ \A i \in 1 .. k - 1 + 1 : s[i] = pila[1 + i - 1]
    BY <2>1, <2>2, <2>3, SubSeqProperties
  <2>5. k - 1 + 1 = k /\ \A i \in 1 .. k : 1 + i - 1 = i
    BY <2>1
  <2> QED
    BY <2>1, <2>4, <2>5 DEF k
<1> HIDE DEF s
<1>7. /\ pila' \in Seq(MarcoTipo) /\ pila' # <<>> /\ Len(pila') = n
      /\ \A i \in 1 .. n - 1 : pila'[i] = pila[i]
      /\ pila'[n] = f
  <2>1. /\ pila' \in Seq(MarcoTipo) /\ pila' # <<>> /\ Len(pila') = Len(s) + 1
        /\ \A i \in 1 .. Len(s) : pila'[i] = s[i]
        /\ pila'[Len(s) + 1] = f
    <3>1. s \in Seq(MarcoTipo) /\ f \in MarcoTipo
      BY <1>4, <1>6
    <3>2. /\ Append(s, f) \in Seq(MarcoTipo) /\ Append(s, f) # <<>>
          /\ Len(Append(s, f)) = Len(s) + 1
          /\ \A i \in 1 .. Len(s) : Append(s, f)[i] = s[i]
          /\ Append(s, f)[Len(s) + 1] = f
      BY <3>1, AppendProperties
    <3> QED
      BY <1>3, <3>2
  <2> QED
    BY <1>1, <1>6, <2>1
<1>8. \A i \in 1 .. n : i \in 1 .. n - 1 \/ i = n
  BY <1>1
<1>9. pila'[1].tipo = "juego"
  <2>1. 1 \in 1 .. n
    BY <1>1
  <2> QED
    BY <1>4, <1>7, <1>8, <2>1 DEF PilaVale
<1>10. \A i \in 1 .. Len(pila') : Coherente(pila'[i])
  BY <1>1, <1>4, <1>7, <1>8 DEF PilaVale
<1> QED
  BY <1>7, <1>9, <1>10 DEF PilaVale

LEMMA InvViajePaso == InvViaje /\ [Next]_vars => InvViaje'
<1> SUFFICES ASSUME InvViaje, [Next]_vars PROVE InvViaje'
  OBVIOUS
<1>0. /\ PilaVale(pila) /\ Tipos /\ Cima \in MarcoTipo /\ Coherente(Cima)
      /\ \A M : Recorrido(pila, M) => Visitados(Cima, M)
      /\ Cima.var \in Nat \ {0} /\ Cima.resta \in Nat /\ Cima.v \in Int
      /\ Len(HojaDeViaje) \in Nat
  <2>1. PilaVale(pila) /\ Tipos
    BY DEF InvViaje, Tipos
  <2>2. Cima \in MarcoTipo /\ Coherente(Cima)
        /\ \A M : Recorrido(pila, M) => Visitados(Cima, M)
    BY <2>1, CimaVale
  <2> QED
    BY <2>1, <2>2, ViajeAssumption DEF MarcoTipo
\* The steps that leave the stack as it is.
<1>1. ASSUME UNCHANGED <<pila, medallas, sinConexion, rendido>>, vidas' \in Int,
             cliente' \in {"nulo", "abierto", "cerrado"},
             fin' = fin \/ fin' \in {"rendido", "nulo"}
      PROVE  InvViaje'
  <2>1. Tipos' /\ Vistos' = Vistos
    BY <1>0, <1>1 DEF Tipos, Vistos
  <2> QED
    BY <1>1, <2>1, SigueIgual DEF InvViaje
\* The steps that change the stack and add to what was seen.
<1>2. ASSUME PilaVale(pila'), vidas' \in Int, cliente' \in {"nulo", "abierto", "cerrado"},
             fin' = fin \/ fin' \in {"rendido", "nulo"},
             medallas \subseteq medallas', sinConexion \subseteq sinConexion',
             Vistos' \subseteq Nombres, rendido => rendido',
             rendido' \/ (Recorrido(pila, Vistos) => Recorrido(pila', Vistos'))
      PROVE  InvViaje'
  <2>1. Tipos'
    BY <1>0, <1>2 DEF Tipos
  <2>2. fin' = fin \/ fin' # "maestro"
    BY <1>2
  <2>3. rendido \/ rendido' \/ Recorrido(pila', Vistos')
    BY <1>2 DEF InvViaje
  <2> QED
    BY <1>2, <2>1, <2>2, <2>3, SigueIgual
<1>3. CASE MaestroPokemon
  <2>1. /\ UNCHANGED <<pila, vidas, medallas, cliente, sinConexion, rendido>>
        /\ fin' = "maestro" /\ Cima.tipo = "juego" /\ Cima.var > Len(HojaDeViaje)
    BY <1>3 DEF MaestroPokemon, Termina, Juego, partida, historia
  <2>2. Tipos' /\ Vistos' = Vistos
    BY <1>0, <2>1 DEF Tipos, Vistos
  <2>3. ASSUME ~rendido, NEW j \in 1 .. Len(HojaDeViaje)
        PROVE  HojaDeViaje[j] \in Vistos
    <3>1. j < Cima.var
      BY <1>0, <2>1
    <3> QED
      BY <1>0, <2>1, <2>3, <3>1 DEF InvViaje, Visitados
  <2>4. MaestroConMedallas'
    BY <2>1, <2>3 DEF MaestroConMedallas, Vistos
  <2> QED
    BY <2>1, <2>2, <2>4 DEF InvViaje
<1>4. CASE iniciarMapa
  <2> DEFINE f == [Cima EXCEPT !.fase = "recibe", !.resta = @ - 1, !.msj = "liberado"]
  <2>1. /\ UNCHANGED <<vidas, medallas, sinConexion, rendido, fin>>
        /\ cliente' = "abierto" /\ Cambia(f)
        /\ Cima.tipo = "juego" /\ Cima.fase = "viaje" /\ Cima.var <= Len(HojaDeViaje)
    BY <1>4 DEF iniciarMapa, Juego, partida, historia
  <2>2. Cima.resta > 0
    BY <1>0, <2>1 DEF Coherente
  <2>3. f = [tipo |-> "juego", fase |-> "recibe", v |-> Cima.v, var |-> Cima.var,
             resta |-> Cima.resta - 1, msj |-> "liberado"]
    BY <1>0, <2>1, MarcoConectado
  <2> HIDE DEF f
  <2>4. f \in MarcoTipo /\ f.tipo = "juego" /\ f.fase = "recibe" /\ f.var = Cima.var
    BY <1>0, <2>2, <2>3 DEF MarcoTipo, Fases
  <2>5. PilaVale(pila') /\ \A M : Recorrido(pila, M) => Recorrido(pila', M)
    BY <1>0, <2>1, <2>2, <2>4, RecibeVale
  <2> QED
    BY <1>0, <1>2, <2>1, <2>5 DEF Tipos, Vistos
<1>5. CASE UsaLiberado \/ RecibeNulo \/ RecibeBatalla
  BY <1>0, <1>1, <1>5
  DEF UsaLiberado, RecibeNulo, RecibeBatalla, Termina, partida, historia, Tipos
<1>6. CASE VuelveAlMapa
  <2> DEFINE f == EnMapa(Cima, Cima.var)
  <2>1. /\ UNCHANGED <<vidas, medallas, sinConexion, rendido, fin, cliente>>
        /\ Cambia(f) /\ Cima.tipo = "juego"
    BY <1>6 DEF VuelveAlMapa, Juego, partida, historia
  <2>2. /\ f \in MarcoTipo /\ Coherente(f) /\ f.tipo = "juego"
        /\ \A M : (\A j \in 1 .. Len(HojaDeViaje) : j < Cima.var => HojaDeViaje[j] \in M)
                  => Visitados(f, M)
    BY <1>0, <2>1, EnMapaVale
  <2> HIDE DEF f
  <2>3. \A M : Recorrido(pila, M) => Visitados(f, M)
    BY <1>0, <2>1, <2>2 DEF Visitados
  <2>4. PilaVale(pila') /\ \A M : Recorrido(pila, M) => Recorrido(pila', M)
    BY <1>0, <2>1, <2>2, <2>3, CambiaVale
  <2> QED
    BY <1>0, <1>2, <2>1, <2>4 DEF Tipos, Vistos
<1>7. CASE PierdeElJuego \/ RecibeCapturar \/ RecibePokemon
  <2>1. PICK fase \in {"pregunta", "pokemon", "guarda"} : Pasa(fase)
    BY <1>7 DEF PierdeElJuego, RecibeCapturar, RecibePokemon
  <2>2. /\ UNCHANGED <<vidas, medallas, sinConexion, rendido, fin, cliente>>
        /\ Cima.tipo = "juego" /\ Cima.fase # "viaje"
    BY <1>7
    DEF PierdeElJuego, RecibeCapturar, RecibePokemon, Juego, partida, historia
  <2>3. PilaVale(pila') /\ \A M : Recorrido(pila, M) => Recorrido(pila', M)
    <3>1. fase \in FasesDeJuego \ {"viaje"} /\ fase # "medalla"
      BY DEF FasesDeJuego
    <3> QED
      BY <1>0, <2>1, <2>2, <3>1, PasaVale
  <2> QED
    BY <1>0, <1>2, <2>2, <2>3 DEF Tipos, Vistos
<1>8. CASE \/ Recv \/ RecibeUbicacion \/ Teclea \/ MapaResponde \/ CaeMapa
           \/ \E p \in copias : TerminaCopia(p)
  <2>1. UNCHANGED <<pila, vidas, medallas, sinConexion, rendido, fin, cliente>>
    <3>1. CASE Recv \/ RecibeUbicacion \/ Teclea \/ \E p \in copias : TerminaCopia(p)
      BY <3>1 DEF Recv, RecibeUbicacion, Teclea, TerminaCopia, partida, historia
    <3>2. CASE MapaResponde \/ CaeMapa
      BY <3>2
      DEF MapaResponde, DaUbicacion, DaCapturar, DaPokemon, DaBatalla, DaMuerte,
          Contesta, CaeMapa, delEntrenador, partida, historia
    <3> QED
      BY <1>8, <3>1, <3>2
  <2> QED
    BY <1>0, <1>1, <2>1 DEF Tipos
<1>9. CASE SiguientePokemon
  <2> DEFINE f == [Cima EXCEPT !.fase = "recibe", !.resta = @ - 1]
  <2>1. /\ UNCHANGED <<vidas, medallas, sinConexion, rendido, fin, cliente>>
        /\ Cambia(f) /\ Cima.tipo = "juego" /\ Cima.fase = "guarda" /\ Cima.resta > 0
    BY <1>9 DEF SiguientePokemon, Guardado, Juego, partida, historia
  <2>2. Cima.var <= Len(HojaDeViaje)
    BY <1>0, <2>1 DEF Coherente
  <2>3. f = [tipo |-> "juego", fase |-> "recibe", v |-> Cima.v, var |-> Cima.var,
             resta |-> Cima.resta - 1, msj |-> Cima.msj]
    BY <1>0, <2>1, MarcoSiguiente
  <2> HIDE DEF f
  <2>4. f \in MarcoTipo /\ f.tipo = "juego" /\ f.fase = "recibe" /\ f.var = Cima.var
    BY <1>0, <2>1, <2>3 DEF MarcoTipo, Fases
  <2>5. PilaVale(pila') /\ \A M : Recorrido(pila, M) => Recorrido(pila', M)
    BY <1>0, <2>1, <2>2, <2>4, RecibeVale
  <2> QED
    BY <1>0, <1>2, <2>1, <2>5 DEF Tipos, Vistos
<1>10. CASE obtenerMedalla
  <2>1. /\ UNCHANGED <<vidas, sinConexion, rendido, fin, cliente>>
        /\ medallas' = medallas \cup {HojaDeViaje[Cima.var]}
        /\ Pasa("medalla") /\ Cima.tipo = "juego" /\ Cima.fase = "guarda"
    BY <1>10 DEF obtenerMedalla, Guardado, Juego, Mapa, historia
  <2>2. Cima.var \in 1 .. Len(HojaDeViaje)
    BY <1>0, <2>1 DEF Coherente
  <2>3. /\ Vistos \subseteq Vistos' /\ HojaDeViaje[Cima.var] \in Vistos'
        /\ Vistos' \subseteq Nombres
    BY <1>0, <2>1, <2>2 DEF Tipos, Vistos, Nombres
  <2>4. /\ PilaVale(pila')
        /\ \A M : Recorrido(pila, M) /\ HojaDeViaje[Cima.var] \in M => Recorrido(pila', M)
    BY <1>0, <2>1, PasaVale DEF FasesDeJuego
  <2>5. Recorrido(pila, Vistos) => Recorrido(pila, Vistos')
    BY <2>3, MasMapas
  <2>6. Recorrido(pila, Vistos) => Recorrido(pila', Vistos')
    BY <2>3, <2>4, <2>5
  <2> QED
    BY <1>0, <1>2, <2>1, <2>3, <2>4, <2>6 DEF Tipos
<1>11. CASE ObjetivoCumplido
  <2> DEFINE f == EnMapa(Cima, Cima.var + 1)
  <2>1. /\ UNCHANGED <<vidas, medallas, sinConexion, rendido, fin>> /\ cliente' = "cerrado"
        /\ Cambia(f) /\ Cima.tipo = "juego" /\ Cima.fase = "medalla"
    BY <1>11 DEF ObjetivoCumplido, Juego, historia
  <2>2. /\ f \in MarcoTipo /\ Coherente(f) /\ f.tipo = "juego"
        /\ \A M : (\A j \in 1 .. Len(HojaDeViaje) :
                        j < Cima.var + 1 => HojaDeViaje[j] \in M)
                  => Visitados(f, M)
    BY <1>0, <2>1, EnMapaVale
  <2> HIDE DEF f
  <2>3. ASSUME NEW M, Recorrido(pila, M) PROVE Visitados(f, M)
    <3>1. /\ \A j \in 1 .. Len(HojaDeViaje) : j < Cima.var => HojaDeViaje[j] \in M
          /\ HojaDeViaje[Cima.var] \in M
      BY <1>0, <2>1, <2>3 DEF Visitados
    <3>2. \A j \in 1 .. Len(HojaDeViaje) : j < Cima.var + 1 => j < Cima.var \/ j = Cima.var
      BY <1>0
    <3> QED
      BY <2>2, <3>1, <3>2
  <2>4. PilaVale(pila') /\ \A M : Recorrido(pila, M) => Recorrido(pila', M)
    BY <1>0, <2>1, <2>2, <2>3, CambiaVale
  <2> QED
    BY <1>0, <1>2, <2>1, <2>4 DEF Tipos, Vistos
<1>12. CASE RecibeMuerte
  <2> DEFINE f == [Cima EXCEPT !.fase = "resta", !.v = vidas]
  <2>1. /\ UNCHANGED <<vidas, medallas, sinConexion, rendido, fin, cliente>>
        /\ Cambia(f) /\ Cima.tipo = "juego" /\ Cima.fase = "recibe"
    BY <1>12 DEF RecibeMuerte, Juego, partida, historia
  <2>2. f = [tipo |-> "juego", fase |-> "resta", v |-> vidas, var |-> Cima.var,
             resta |-> Cima.resta, msj |-> Cima.msj]
    BY <1>0, <2>1, MarcoMuerte
  <2> HIDE DEF f
  <2>3. f \in MarcoTipo /\ f.tipo = "juego" /\ f.fase = "resta" /\ f.var = Cima.var
    BY <1>0, <2>2 DEF MarcoTipo, Fases, Tipos
  <2>4. Coherente(f)
    BY <1>0, <2>1, <2>3 DEF Coherente, FasesDeJuego
  <2>5. \A M : Recorrido(pila, M) => Visitados(f, M)
    BY <1>0, <2>1, <2>3 DEF Visitados
  <2>6. PilaVale(pila') /\ \A M : Recorrido(pila, M) => Recorrido(pila', M)
    BY <1>0, <2>1, <2>3, <2>4, <2>5, CambiaVale
  <2> QED
    BY <1>0, <1>2, <2>1, <2>6 DEF Tipos, Vistos
<1>13. CASE RestaVida
  <2>1. /\ UNCHANGED <<medallas, sinConexion, rendido, fin>> /\ cliente' = "cerrado"
        /\ vidas' = Cima.v - 1 /\ Pasa("perdido")
        /\ Cima.tipo = "juego" /\ Cima.fase = "resta"
    BY <1>13 DEF RestaVida, Juego, historia
  <2>2. PilaVale(pila') /\ \A M : Recorrido(pila, M) => Recorrido(pila', M)
    <3>1. "perdido" \in FasesDeJuego \ {"viaje"} /\ Cima.fase # "viaje"
      BY <2>1 DEF FasesDeJuego
    <3> QED
      BY <1>0, <2>1, <3>1, PasaVale
  <2> QED
    BY <1>0, <1>2, <2>1, <2>2 DEF Tipos, Vistos
<1>14. CASE SumaVida \/ QuitaVida
  <2>1. /\ UNCHANGED <<medallas, sinConexion, rendido, fin, cliente>>
        /\ vidas' = Cima.v + 1 \/ vidas' = Cima.v - 1
        /\ Retorna /\ Cima.fase \in {"suma", "quita"}
    BY <1>14 DEF SumaVida, QuitaVida, Escribe, historia
  <2>2. Cima.tipo # "juego"
    BY <1>0, <2>1 DEF Coherente, FasesDeJuego
  <2>3. PilaVale(pila') /\ \A M : Recorrido(pila, M) => Recorrido(pila', M)
    BY <1>0, <2>1, <2>2, RetornaVale
  <2> QED
    BY <1>0, <1>2, <2>1, <2>3 DEF Tipos, Vistos
<1>15. CASE SIGUSR1 \/ SIGTERM
  <2>1. UNCHANGED <<vidas, medallas, sinConexion, rendido, fin, cliente>>
    BY <1>15 DEF SIGUSR1, SIGTERM, partida, historia
  <2>2. PICK tipo \in {"usr1", "term"}, fase \in {"suma", "quita", "cierra"} :
          Llama(Marco(tipo, fase, vidas))
    BY <1>15 DEF SIGUSR1, SIGTERM
  <2> DEFINE f == Marco(tipo, fase, vidas)
  <2>3. f \in MarcoTipo /\ Coherente(f) /\ f.tipo # "juego"
    BY <1>0 DEF Marco, MarcoTipo, Fases, Coherente, FasesDeSenal, Tipos
  <2> HIDE DEF f
  <2>4. \A M : Visitados(f, M)
    BY <2>3 DEF Visitados
  <2>5. PilaVale(pila') /\ \A M : Recorrido(pila, M) => Recorrido(pila', M)
    BY <1>0, <2>2, <2>3, <2>4, LlamaVale DEF f
  <2> QED
    BY <1>0, <1>2, <2>1, <2>5 DEF Tipos, Vistos
<1>16. CASE CierraSocket
  <2>1. UNCHANGED <<vidas, medallas, sinConexion, rendido>> /\ Cima.fase = "cierra"
    BY <1>16 DEF CierraSocket, partida, historia
  <2>2. CASE cliente = "nulo"
    BY <1>0, <1>1, <1>16, <2>1, <2>2 DEF CierraSocket, Termina, Tipos
  <2>3. CASE cliente # "nulo"
    <3> DEFINE f == [Cima EXCEPT !.fase = "pregunta"]
    <3>1. cliente' = "cerrado" /\ Cambia(f) /\ fin' = fin
      BY <1>16, <2>3 DEF CierraSocket, Pasa
    <3>2. Cima.tipo # "juego"
      BY <1>0, <2>1 DEF Coherente, FasesDeJuego
    <3>3. f \in MarcoTipo /\ f.tipo = Cima.tipo /\ f.fase = "pregunta"
      BY <1>0 DEF MarcoTipo, Fases
    <3> HIDE DEF f
    <3>4. Coherente(f) /\ \A M : Visitados(f, M)
      BY <3>2, <3>3 DEF Coherente, FasesDeSenal, Visitados
    <3>5. PilaVale(pila') /\ \A M : Recorrido(pila, M) => Recorrido(pila', M)
      BY <1>0, <3>1, <3>3, <3>4, CambiaVale
    <3> QED
      BY <1>0, <1>2, <2>1, <3>1, <3>5 DEF Tipos, Vistos
  <2> QED
    BY <2>2, <2>3
<1>17. CASE recargarEntrenador
  <2>1. /\ UNCHANGED <<medallas, sinConexion, rendido, fin, cliente>>
        /\ vidas' = VidasIniciales /\ Llama(initEntrenador)
    BY <1>17 DEF recargarEntrenador, historia
  <2>2. PilaVale(pila') /\ \A M : Recorrido(pila, M) => Recorrido(pila', M)
    BY <1>0, <2>1, Empieza, LlamaVale
  <2>3. vidas' \in Int
    BY <2>1, ViajeAssumption
  <2> QED
    BY <1>0, <1>2, <2>1, <2>2, <2>3 DEF Tipos, Vistos
<1>18. CASE SeRinde
  <2>1. /\ UNCHANGED <<vidas, medallas, sinConexion, cliente>> /\ rendido'
        /\ fin = "no" /\ fin' \in {"no", "rendido", "nulo"}
    BY <1>18 DEF SeRinde, Responde, Pregunta
  <2>2. CASE ~Continua
    <3>1. pila' = pila
      BY <1>18, <2>2 DEF SeRinde
    <3> QED
      BY <1>0, <1>2, <2>1, <3>1 DEF Tipos, Vistos
  <2>3. CASE Continua
    <3>1. PilaVale(pila')
      BY <1>0, <1>18, <2>3, VuelveAlBucle DEF SeRinde
    <3> QED
      BY <1>0, <1>2, <2>1, <3>1 DEF Tipos, Vistos
  <2> QED
    BY <2>2, <2>3
<1>19. CASE NoConecta
  <2> DEFINE f == EnMapa(Cima, Cima.var + 1)
  <2>1. /\ UNCHANGED <<vidas, medallas, rendido, fin>> /\ cliente' = "nulo"
        /\ sinConexion' = sinConexion \cup {HojaDeViaje[Cima.var]}
        /\ Cambia(f) /\ Cima.tipo = "juego" /\ Cima.var <= Len(HojaDeViaje)
    BY <1>19 DEF NoConecta, Juego, Mapa, partida
  <2>2. /\ f \in MarcoTipo /\ Coherente(f) /\ f.tipo = "juego"
        /\ \A M : (\A j \in 1 .. Len(HojaDeViaje) :
                        j < Cima.var + 1 => HojaDeViaje[j] \in M)
                  => Visitados(f, M)
    BY <1>0, <2>1, EnMapaVale
  <2> HIDE DEF f
  <2>3. Cima.var \in 1 .. Len(HojaDeViaje)
    BY <1>0, <2>1
  <2>4. /\ Vistos \subseteq Vistos' /\ HojaDeViaje[Cima.var] \in Vistos'
        /\ Vistos' \subseteq Nombres
    BY <1>0, <2>1, <2>3 DEF Tipos, Vistos, Nombres
  <2>5. ASSUME Recorrido(pila, Vistos) PROVE Recorrido(pila, Vistos') /\ Visitados(f, Vistos')
    <3>1. Recorrido(pila, Vistos')
      BY <2>4, <2>5, MasMapas
    <3>2. \A j \in 1 .. Len(HojaDeViaje) : j < Cima.var => HojaDeViaje[j] \in Vistos'
      BY <1>0, <2>1, <3>1 DEF Visitados
    <3>3. \A j \in 1 .. Len(HojaDeViaje) : j < Cima.var + 1 => j < Cima.var \/ j = Cima.var
      BY <1>0
    <3> QED
      BY <2>2, <2>4, <3>1, <3>2, <3>3
  <2>6. PilaVale(pila') /\ (Recorrido(pila, Vistos) => Recorrido(pila', Vistos'))
    BY <1>0, <2>1, <2>2, <2>5, CambiaVale
  <2> QED
    BY <1>0, <1>2, <2>1, <2>4, <2>6 DEF Tipos
<1>20. CASE UNCHANGED vars
  BY <1>0, <1>1, <1>20 DEF vars, partida, historia, Tipos
<1> QED
  BY <1>3, <1>4, <1>5, <1>6, <1>7, <1>8, <1>9, <1>10, <1>11, <1>12, <1>13, <1>14, <1>15,
     <1>16, <1>17, <1>18, <1>19, <1>20
  DEF Next, Entrenador

\* What initEntrenador, its handlers and its restarts keep of the stack and the medals.
THEOREM ViajeInv == Spec => []InvViaje
BY InitInvViaje, InvViajePaso, PTL DEF Spec

\* TypeOK holds for every journey, however deep the questions and the signals nest.
THEOREM ViajeTypeOK == Spec => []TypeOK
<1>1. InvViaje => TypeOK
  <2> SUFFICES ASSUME InvViaje PROVE TypeOK
    OBVIOUS
  <2>1. Tipos /\ \A i \in 1 .. Len(pila) : pila[i] \in MarcoTipo
    BY ElementOfSeq DEF InvViaje, Tipos, PilaVale
  <2> QED
    BY <2>1 DEF Tipos, TypeOK, PilaVale, MarcoTipo, Vistos, Nombres
<1> QED
  BY <1>1, ViajeInv, PTL

\* Over any hojaDeViaje, with any number of restarts, lost lives, signals and
\* connections that fail, whoever becomes a maestro pokemon without giving up got the
\* medal of every map it could connect to.
THEOREM ViajeMaestro == Spec => []MaestroConMedallas
<1>1. InvViaje => MaestroConMedallas
  BY DEF InvViaje
<1> QED
  BY <1>1, ViajeInv, PTL

-----------------------------------------------------------------------------
(***************************************************************************)
(* JuegaConVida.                                                           *)
(***************************************************************************)
Jugando == {"viaje", "recibe", "pokemon", "guarda", "medalla"}

\* What a handler read and has not written leaves a life.
DejaVida(f) == (f.fase = "suma" => f.v > 0) /\ (f.fase = "quita" => f.v > 1)

EsUltimo(p, u) ==
    /\ u \in 1 .. Len(p) /\ p[u].tipo = "juego"
    /\ \A k \in u + 1 .. Len(p) : p[k].tipo # "juego"

\* The last game called, if it is in a map, has a life, and so it will when each of the
\* handlers that interrupted it writes the vidas it had read.
ConVida(p, v) ==
    \E u \in 1 .. Len(p) :
        /\ EsUltimo(p, u)
        /\ p[u].fase \in Jugando =>
              v > 0 /\ \A k \in u + 1 .. Len(p) : DejaVida(p[k])

InvVida == liberado \/ ConVida(pila, vidas)

\* The game is at the top.
LEMMA EnLaCima ==
    ASSUME PilaVale(pila), ConVida(pila, vidas), Cima.tipo = "juego"
    PROVE  Cima.fase \in Jugando => vidas > 0
<1>1. Len(pila) \in Nat \ {0}
  BY CimaVale
<1>2. PICK u \in 1 .. Len(pila) :
        EsUltimo(pila, u) /\ (pila[u].fase \in Jugando => vidas > 0)
  BY DEF ConVida
<1>3. u = Len(pila)
  <2> SUFFICES ASSUME u # Len(pila) PROVE FALSE
    OBVIOUS
  <2>1. Len(pila) \in u + 1 .. Len(pila)
    BY <1>1
  <2> QED
    BY <1>2, <2>1 DEF EsUltimo, Cima
<1> QED
  BY <1>2, <1>3 DEF Cima

LEMMA CambiaVida ==
    ASSUME PilaVale(pila), Cima.tipo = "juego", NEW f \in MarcoTipo, f.tipo = "juego",
           Cambia(f), NEW v, f.fase \in Jugando => v > 0
    PROVE  ConVida(pila', v)
<1>1. Len(pila) \in Nat \ {0} /\ Len(pila) \in 1 .. Len(pila)
  BY CimaVale
<1>2. pila' = [pila EXCEPT ![Len(pila)] = f]
  BY DEF Cambia
<1>3. Len(pila') = Len(pila) /\ pila'[Len(pila)] = f
  BY <1>1, <1>2, ExceptSeq DEF PilaVale
<1>4. \A k : k \notin Len(pila) + 1 .. Len(pila)
  BY <1>1
<1>5. EsUltimo(pila', Len(pila))
  BY <1>1, <1>3, <1>4 DEF EsUltimo
<1> QED
  BY <1>1, <1>3, <1>4, <1>5 DEF ConVida

LEMMA LlamaVida ==
    ASSUME PilaVale(pila), NEW f \in MarcoTipo, Llama(f), NEW v,
           \/ f.tipo = "juego" /\ v > 0
           \/ /\ f.tipo # "juego" /\ ConVida(pila, v)
              /\ v > 0 => DejaVida(f)
    PROVE  ConVida(pila', v)
<1>1. Len(pila) \in Nat \ {0}
  BY CimaVale
<1>2. pila' = Append(pila, f)
  BY DEF Llama
<1>3. /\ Len(pila') = Len(pila) + 1
      /\ \A i \in 1 .. Len(pila) : pila'[i] = pila[i]
      /\ pila'[Len(pila) + 1] = f
  BY <1>2, AppendProperties DEF PilaVale
<1>4. CASE f.tipo = "juego" /\ v > 0
  <2> DEFINE n == Len(pila) + 1
  <2>1. n \in 1 .. Len(pila') /\ \A k : k \notin n + 1 .. Len(pila')
    BY <1>1, <1>3
  <2>2. EsUltimo(pila', n)
    BY <1>3, <1>4, <2>1 DEF EsUltimo
  <2> QED
    BY <1>4, <2>1, <2>2 DEF ConVida
<1>5. CASE f.tipo # "juego" /\ ConVida(pila, v) /\ (v > 0 => DejaVida(f))
  <2>1. PICK u \in 1 .. Len(pila) :
          /\ EsUltimo(pila, u)
          /\ pila[u].fase \in Jugando =>
                v > 0 /\ \A k \in u + 1 .. Len(pila) : DejaVida(pila[k])
    BY <1>5 DEF ConVida
  <2>2. u \in 1 .. Len(pila') /\ pila'[u] = pila[u]
    BY <1>1, <1>3
  <2>3. \A k \in u + 1 .. Len(pila') :
           \/ k \in u + 1 .. Len(pila) /\ pila'[k] = pila[k]
           \/ pila'[k] = f
    BY <1>1, <1>3
  <2>4. EsUltimo(pila', u)
    BY <1>5, <2>1, <2>2, <2>3 DEF EsUltimo
  <2> QED
    BY <1>5, <2>1, <2>2, <2>3, <2>4 DEF ConVida
<1> QED
  BY <1>4, <1>5

\* A handler that closes the socket instead of writing.
LEMMA CierraVida ==
    ASSUME PilaVale(pila), Cima.tipo # "juego", NEW f \in MarcoTipo, f.tipo = Cima.tipo,
           DejaVida(f), Cambia(f), ConVida(pila, vidas)
    PROVE  ConVida(pila', vidas)
<1>1. Len(pila) \in Nat \ {0} /\ Len(pila) \in 1 .. Len(pila)
  BY CimaVale
<1>2. pila' = [pila EXCEPT ![Len(pila)] = f]
  BY DEF Cambia
<1>3. /\ Len(pila') = Len(pila)
      /\ \A j \in 1 .. Len(pila) : pila'[j] = IF j = Len(pila) THEN f ELSE pila[j]
  BY <1>1, <1>2, ExceptSeq DEF PilaVale
<1>4. PICK u \in 1 .. Len(pila) :
        /\ EsUltimo(pila, u)
        /\ pila[u].fase \in Jugando =>
              vidas > 0 /\ \A k \in u + 1 .. Len(pila) : DejaVida(pila[k])
  BY DEF ConVida
<1>5. u # Len(pila) /\ pila'[u] = pila[u]
  BY <1>3, <1>4 DEF EsUltimo, Cima
<1>6. \A k \in u + 1 .. Len(pila) : k \in 1 .. Len(pila)
  BY <1>1
<1>7. EsUltimo(pila', u)
  BY <1>3, <1>4, <1>5, <1>6 DEF EsUltimo, Cima
<1> QED
  BY <1>3, <1>4, <1>5, <1>6, <1>7 DEF ConVida

LEMMA EscribeVida ==
    ASSUME PilaVale(pila), Cima.tipo # "juego", Retorna, ConVida(pila, vidas), NEW v,
           DejaVida(Cima) => v > 0
    PROVE  ConVida(pila', v)
<1> DEFINE n == Len(pila) - 1
<1>1. n \in Nat \ {0} /\ \A i \in 1 .. n : i \in 1 .. Len(pila)
  BY CimaVale DEF PilaVale, Cima
<1>2. Len(pila') = n /\ \A i \in 1 .. n : pila'[i] = pila[i]
  <2>1. pila' = SubSeq(pila, 1, n)
    BY DEF Retorna
  <2>2. \A i \in 1 .. n : pila[i] \in MarcoTipo
    BY <1>1, ElementOfSeq DEF PilaVale
  <2> HIDE DEF n
  <2>3. /\ Len(pila') = IF 1 <= n THEN n - 1 + 1 ELSE 0
        /\ \A i \in 1 .. n - 1 + 1 : pila'[i] = pila[1 + i - 1]
    BY <1>1, <2>1, <2>2, SubSeqProperties
  <2>4. n - 1 + 1 = n /\ \A i \in 1 .. n : 1 + i - 1 = i
    BY <1>1
  <2> QED
    BY <1>1, <2>3, <2>4
<1>3. PICK u \in 1 .. Len(pila) :
        /\ EsUltimo(pila, u)
        /\ pila[u].fase \in Jugando =>
              vidas > 0 /\ \A k \in u + 1 .. Len(pila) : DejaVida(pila[k])
  BY DEF ConVida
<1>4. u # Len(pila)
  BY <1>3 DEF EsUltimo, Cima
<1>5. u \in 1 .. n /\ Len(pila) \in u + 1 .. Len(pila)
  BY <1>1, <1>4
<1>6. \A k \in u + 1 .. n : k \in u + 1 .. Len(pila) /\ k \in 1 .. n
  BY <1>1, <1>5
<1> HIDE DEF n
<1>7. EsUltimo(pila', u)
  BY <1>2, <1>3, <1>5, <1>6 DEF EsUltimo
<1>8. pila[u].fase \in Jugando => v > 0
  BY <1>3, <1>5 DEF Cima
<1> QED
  BY <1>2, <1>3, <1>5, <1>6, <1>7, <1>8 DEF ConVida

LEMMA InvVidaPaso == InvViaje /\ InvVida /\ [Next]_vars => InvVida'
<1> SUFFICES ASSUME InvViaje, InvVida, [Next]_vars PROVE InvVida'
  OBVIOUS
<1>0. PilaVale(pila) /\ Cima \in MarcoTipo /\ Coherente(Cima) /\ vidas \in Int
  BY CimaVale DEF InvViaje, Tipos
<1>1. CASE SeRinde
  BY <1>1 DEF SeRinde, InvVida
<1> SUFFICES ASSUME ~liberado, ~SeRinde PROVE liberado' \/ ConVida(pila', vidas')
  <2>1. liberado => liberado' \/ SeRinde
    <3>1. CASE liberado' = liberado
      BY <3>1
    <3>2. CASE SeRinde
      BY <3>2
    <3>3. liberado' = liberado \/ SeRinde
      BY DEF Next, Entrenador, vars, MaestroPokemon, iniciarMapa, UsaLiberado,
             VuelveAlMapa, PierdeElJuego, Recv, RecibeNulo, RecibeUbicacion,
             RecibeCapturar, RecibePokemon, SiguientePokemon, obtenerMedalla,
             ObjetivoCumplido, RecibeBatalla, RecibeMuerte, RestaVida, SumaVida,
             QuitaVida, Escribe, CierraSocket, recargarEntrenador, MapaResponde,
             DaUbicacion, DaCapturar, DaPokemon, DaBatalla, DaMuerte, Contesta,
             delEntrenador, CaeMapa, Teclea, TerminaCopia, NoConecta, SIGUSR1, SIGTERM,
             Termina
    <3> QED
      BY <3>1, <3>2, <3>3
  <2> QED
    BY <1>1, <2>1 DEF InvVida
<1>2. ConVida(pila, vidas)
  BY DEF InvVida
\* A step of the game at the top that starts or leaves a map, or goes on in it.
<1>3. ASSUME NEW f, Cambia(f), Cima.tipo = "juego", f \in MarcoTipo, f.tipo = "juego",
             f.fase \in Jugando => vidas' > 0
      PROVE  ConVida(pila', vidas')
  BY <1>0, <1>3, CambiaVida
<1>4. ASSUME NEW v \in Nat \ {0}, Cambia(EnMapa(Cima, v)), Cima.tipo = "juego", vidas' > 0
      PROVE  ConVida(pila', vidas')
  BY <1>0, <1>3, <1>4, EnMapaVale
<1>5. Cima.tipo = "juego" /\ Cima.fase \in Jugando => vidas > 0
  BY <1>0, <1>2, EnLaCima
<1>6. Cima.var \in Nat \ {0} /\ Cima.var + 1 \in Nat \ {0} /\ Cima.v \in Int
  BY <1>0 DEF MarcoTipo
<1>7. ASSUME UNCHANGED <<pila, vidas>> PROVE ConVida(pila', vidas')
  BY <1>2, <1>7
<1>8. CASE \/ MaestroPokemon \/ UsaLiberado \/ Recv \/ RecibeNulo \/ RecibeUbicacion
           \/ RecibeBatalla \/ Teclea \/ MapaResponde \/ CaeMapa
           \/ \E p \in copias : TerminaCopia(p)
  <2>1. CASE \/ MaestroPokemon \/ UsaLiberado \/ Recv \/ RecibeNulo \/ RecibeUbicacion
             \/ RecibeBatalla \/ Teclea \/ \E p \in copias : TerminaCopia(p)
    BY <1>7, <2>1
    DEF MaestroPokemon, UsaLiberado, Recv, RecibeNulo, RecibeUbicacion, RecibeBatalla,
        Teclea, TerminaCopia, Termina, partida
  <2>2. CASE MapaResponde \/ CaeMapa
    BY <1>7, <2>2
    DEF MapaResponde, DaUbicacion, DaCapturar, DaPokemon, DaBatalla, DaMuerte, Contesta,
        CaeMapa, delEntrenador, partida
  <2> QED
    BY <1>8, <2>1, <2>2
<1>9. CASE NoConecta \/ VuelveAlMapa \/ ObjetivoCumplido
  <2>1. vidas' = vidas /\ Cima.tipo = "juego"
    BY <1>9 DEF NoConecta, VuelveAlMapa, ObjetivoCumplido, Juego, partida
  <2>2. vidas > 0
    BY <1>5, <1>9 DEF NoConecta, VuelveAlMapa, ObjetivoCumplido, Juego, Jugando
  <2>3. \E v \in {Cima.var, Cima.var + 1} : Cambia(EnMapa(Cima, v))
    BY <1>9 DEF NoConecta, VuelveAlMapa, ObjetivoCumplido
  <2> QED
    BY <1>4, <1>6, <2>1, <2>2, <2>3
<1>10. CASE iniciarMapa
  <2> DEFINE f == [Cima EXCEPT !.fase = "recibe", !.resta = @ - 1, !.msj = "liberado"]
  <2>1. /\ vidas' = vidas /\ Cima.tipo = "juego" /\ Cima.fase = "viaje" /\ Cambia(f)
        /\ Cima.var <= Len(HojaDeViaje)
    BY <1>10 DEF iniciarMapa, Juego, partida
  <2>2. f = [tipo |-> "juego", fase |-> "recibe", v |-> Cima.v, var |-> Cima.var,
             resta |-> Cima.resta - 1, msj |-> "liberado"]
    BY <1>0, <2>1, MarcoConectado
  <2>3. Cima.resta - 1 \in Nat
    BY <1>0, <2>1 DEF Coherente, MarcoTipo
  <2> HIDE DEF f
  <2>4. f \in MarcoTipo /\ f.tipo = "juego" /\ f.fase = "recibe"
    BY <1>6, <2>2, <2>3 DEF MarcoTipo, Fases
  <2> QED
    BY <1>3, <1>5, <2>1, <2>4 DEF Jugando
<1>11. CASE SiguientePokemon
  <2> DEFINE f == [Cima EXCEPT !.fase = "recibe", !.resta = @ - 1]
  <2>1. /\ vidas' = vidas /\ Cima.tipo = "juego" /\ Cima.fase = "guarda" /\ Cambia(f)
        /\ Cima.resta > 0
    BY <1>11 DEF SiguientePokemon, Guardado, Juego, partida
  <2>2. f = [tipo |-> "juego", fase |-> "recibe", v |-> Cima.v, var |-> Cima.var,
             resta |-> Cima.resta - 1, msj |-> Cima.msj]
    BY <1>0, <2>1, MarcoSiguiente
  <2>3. Cima.resta - 1 \in Nat /\ Cima.msj \in {"vivo", "liberado"}
    BY <1>0, <2>1 DEF MarcoTipo
  <2> HIDE DEF f
  <2>4. f \in MarcoTipo /\ f.tipo = "juego" /\ f.fase = "recibe"
    BY <1>6, <2>2, <2>3 DEF MarcoTipo, Fases
  <2> QED
    BY <1>3, <1>5, <2>1, <2>4 DEF Jugando
<1>12. ASSUME NEW fase \in FasesDeJuego, Pasa(fase), Cima.tipo = "juego",
              fase \in Jugando => vidas' > 0
       PROVE  ConVida(pila', vidas')
  <2> DEFINE f == [Cima EXCEPT !.fase = fase]
  <2>1. f \in MarcoTipo /\ f.tipo = "juego" /\ f.fase = fase
    BY <1>0, <1>12 DEF MarcoTipo, Fases, FasesDeJuego
  <2>2. Cambia(f)
    BY <1>12 DEF Pasa
  <2> HIDE DEF f
  <2> QED
    BY <1>3, <1>12, <2>1, <2>2
<1>13. CASE RecibeCapturar \/ RecibePokemon \/ obtenerMedalla
  <2>1. PICK fase \in {"pokemon", "guarda", "medalla"} : Pasa(fase)
    BY <1>13 DEF RecibeCapturar, RecibePokemon, obtenerMedalla
  <2>2. vidas' = vidas /\ Cima.tipo = "juego" /\ Cima.fase \in Jugando
    BY <1>13
    DEF RecibeCapturar, RecibePokemon, obtenerMedalla, Juego, Guardado, partida, Jugando
  <2>3. fase \in FasesDeJuego
    BY DEF FasesDeJuego
  <2> QED
    BY <1>5, <1>12, <2>1, <2>2, <2>3
<1>14. CASE PierdeElJuego \/ RestaVida
  <2>1. PICK fase \in {"pregunta", "perdido"} : Pasa(fase)
    BY <1>14 DEF PierdeElJuego, RestaVida
  <2>2. Cima.tipo = "juego"
    BY <1>14 DEF PierdeElJuego, RestaVida, Juego
  <2>3. fase \in FasesDeJuego /\ fase \notin Jugando
    BY DEF FasesDeJuego, Jugando
  <2> QED
    BY <1>12, <2>1, <2>2, <2>3
<1>15. CASE RecibeMuerte
  <2> DEFINE f == [Cima EXCEPT !.fase = "resta", !.v = vidas]
  <2>1. Cima.tipo = "juego" /\ Cambia(f)
    BY <1>15 DEF RecibeMuerte, Juego
  <2>2. f = [tipo |-> "juego", fase |-> "resta", v |-> vidas, var |-> Cima.var,
             resta |-> Cima.resta, msj |-> Cima.msj]
    BY <1>0, <2>1, MarcoMuerte
  <2>3. Cima.resta \in Nat /\ Cima.msj \in {"vivo", "liberado"}
    BY <1>0 DEF MarcoTipo
  <2> HIDE DEF f
  <2>4. f \in MarcoTipo /\ f.tipo = "juego" /\ f.fase = "resta"
    BY <1>0, <1>6, <2>2, <2>3 DEF MarcoTipo, Fases
  <2> QED
    BY <1>3, <2>1, <2>4 DEF Jugando
<1>16. CASE SumaVida \/ QuitaVida
  <2>1. /\ Retorna /\ Cima.fase \in {"suma", "quita"}
        /\ vidas' = IF Cima.fase = "suma" THEN Cima.v + 1 ELSE Cima.v - 1
    BY <1>16 DEF SumaVida, QuitaVida, Escribe
  <2>2. Cima.tipo # "juego"
    BY <1>0, <2>1 DEF Coherente, FasesDeJuego
  <2>3. DejaVida(Cima) => vidas' > 0
    BY <1>6, <2>1 DEF DejaVida
  <2> QED
    BY <1>0, <1>2, <2>1, <2>2, <2>3, EscribeVida
<1>17. CASE SIGUSR1 \/ SIGTERM
  <2>1. vidas' = vidas
    BY <1>17 DEF SIGUSR1, SIGTERM, partida
  <2>2. PICK tipo \in {"usr1", "term"}, fase \in {"suma", "quita", "cierra"} :
          Llama(Marco(tipo, fase, vidas)) /\ (fase = "quita" => vidas > 1)
    BY <1>17 DEF SIGUSR1, SIGTERM
  <2> DEFINE f == Marco(tipo, fase, vidas)
  <2>3. /\ f \in MarcoTipo /\ f.tipo # "juego" /\ f.fase = fase /\ f.v = vidas
    BY <1>0 DEF Marco, MarcoTipo, Fases
  <2> HIDE DEF f
  <2>4. vidas > 0 => DejaVida(f)
    BY <2>2, <2>3 DEF DejaVida
  <2>5. Llama(f)
    BY <2>2 DEF f
  <2> QED
    BY <1>0, <1>2, <2>1, <2>3, <2>4, <2>5, LlamaVida
<1>18. CASE CierraSocket
  <2>1. vidas' = vidas /\ Cima.fase = "cierra"
    BY <1>18 DEF CierraSocket, partida
  <2>2. CASE cliente = "nulo"
    BY <1>7, <1>18, <2>1, <2>2 DEF CierraSocket, Termina
  <2>3. CASE cliente # "nulo"
    <3> DEFINE f == [Cima EXCEPT !.fase = "pregunta"]
    <3>1. Cambia(f)
      BY <1>18, <2>3 DEF CierraSocket, Pasa
    <3>2. Cima.tipo # "juego"
      BY <1>0, <2>1 DEF Coherente, FasesDeJuego
    <3>3. f \in MarcoTipo /\ f.tipo = Cima.tipo /\ f.fase = "pregunta"
      BY <1>0 DEF MarcoTipo, Fases
    <3> HIDE DEF f
    <3>4. DejaVida(f)
      BY <3>3 DEF DejaVida
    <3> QED
      BY <1>0, <1>2, <2>1, <3>1, <3>2, <3>3, <3>4, CierraVida
  <2> QED
    BY <2>2, <2>3
<1>19. CASE recargarEntrenador
  <2>1. vidas' = VidasIniciales /\ Llama(initEntrenador)
    BY <1>19 DEF recargarEntrenador
  <2>2. vidas' > 0
    BY <2>1, ViajeAssumption
  <2> QED
    BY <1>0, <2>1, <2>2, Empieza, LlamaVida
<1>20. CASE UNCHANGED vars
  BY <1>7, <1>20 DEF vars, partida
<1> QED
  BY <1>8, <1>9, <1>10, <1>11, <1>13, <1>14, <1>15, <1>16, <1>17, <1>18, <1>19, <1>20
  DEF Next, Entrenador

\* While the player does not give up, no game goes on in a map without lives, whatever
\* SIGUSR1 and SIGTERM interrupt, each other included, and whatever they had read.
THEOREM ViajeConVida == Spec => []JuegaConVida
<1>1. Init => InvVida
  <2> SUFFICES ASSUME Init PROVE ConVida(pila, vidas)
    BY DEF InvVida
  <2> DEFINE f == initEntrenador
  <2>1. pila = <<f>> /\ f.tipo = "juego" /\ vidas > 0
    BY Empieza, ViajeAssumption DEF Init
  <2> HIDE DEF f
  <2>2. Len(pila) = 1 /\ pila[1] = f
    BY <2>1
  <2>3. EsUltimo(pila, 1) /\ \A k : k \notin 2 .. 1
    BY <2>1, <2>2 DEF EsUltimo
  <2> QED
    BY <2>1, <2>2, <2>3 DEF ConVida
<1>2. InvViaje /\ InvVida => JuegaConVida
  <2> SUFFICES ASSUME InvViaje, ~liberado, ConVida(pila, vidas) PROVE JuegaConVida
    BY DEF InvVida, JuegaConVida
  <2>1. PICK u \in 1 .. Len(pila) :
          EsUltimo(pila, u) /\ (pila[u].fase \in Jugando => vidas > 0)
    BY DEF ConVida
  <2>2. Ultimo = u
    <3> DEFINE Es(i) == /\ pila[i].tipo = "juego"
                        /\ \A k \in i + 1 .. Len(pila) : pila[k].tipo # "juego"
    <3>1. Es(u)
      BY <2>1 DEF EsUltimo
    <3>2. ASSUME NEW i \in 1 .. Len(pila), Es(i) PROVE i = u
      <4>1. Len(pila) \in Nat
        BY CimaVale DEF InvViaje, Tipos
      <4>2. i < u => u \in i + 1 .. Len(pila)
        BY <4>1
      <4>3. u < i => i \in u + 1 .. Len(pila)
        BY <4>1
      <4> QED
        BY <3>1, <3>2, <4>1, <4>2, <4>3
    <3> QED
      BY <3>1, <3>2 DEF Ultimo
  <2> QED
    BY <2>1, <2>2 DEF JuegaConVida, Jugando
<1> QED
  BY <1>1, <1>2, ViajeInv, InvVidaPaso, PTL DEF Spec

-----------------------------------------------------------------------------
(***************************************************************************)
(* BillAlDia.                                                              *)
(***************************************************************************)
\* A SIGTERM without lives asks its question: the stack below never runs again, and what
\* it was copying ends when it ends.
PreguntaTerm(p) ==
    \E i \in 1 .. Len(p) : p[i].tipo = "term" /\ p[i].fase = "pregunta"

SoloSuma(p) == \A i \in 1 .. Len(p) : p[i].tipo = "usr1" => p[i].fase = "suma"

\* The last game called waits for the cp of the pokemon it got, and for no other.
Copiando(p, C) ==
    \E u \in 1 .. Len(p) :
        /\ EsUltimo(p, u) /\ p[u].fase = "guarda"
        /\ C \subseteq {<<HojaDeViaje[p[u].var], Tiene(p[u]) + 1>>}

\* Every file of Dir de Bill and every copy under way is of a pokemon in the list, and
\* only the last game called has one.
CopiasAlDia(p, l, b, C) ==
    PreguntaTerm(p) \/ (b \cup C \subseteq l /\ (C = {} \/ Copiando(p, C)))

InvBill ==
    /\ lista \subseteq bill \cup copias
    /\ SoloSuma(pila) /\ CopiasAlDia(pila, lista, bill, copias)

\* A game at the top that is not saving a pokemon has no copy under way.
LEMMA SinCopias ==
    ASSUME PilaVale(pila), Cima.tipo = "juego", ~PreguntaTerm(pila), InvBill
    PROVE  /\ bill \subseteq lista /\ copias \subseteq {Capturado}
           /\ Cima.fase # "guarda" => copias = {}
<1>1. Len(pila) \in Nat \ {0}
  BY CimaVale
<1>2. CASE Copiando(pila, copias)
  <2>1. PICK u \in 1 .. Len(pila) :
          /\ EsUltimo(pila, u) /\ pila[u].fase = "guarda"
          /\ copias \subseteq {<<HojaDeViaje[pila[u].var], Tiene(pila[u]) + 1>>}
    BY <1>2 DEF Copiando
  <2>2. u = Len(pila)
    <3> SUFFICES ASSUME u # Len(pila) PROVE FALSE
      OBVIOUS
    <3>1. Len(pila) \in u + 1 .. Len(pila)
      BY <1>1
    <3> QED
      BY <2>1, <3>1 DEF EsUltimo, Cima
  <2> QED
    BY <2>1, <2>2 DEF Cima, Capturado, Mapa, InvBill, CopiasAlDia
<1> QED
  BY <1>2 DEF InvBill, CopiasAlDia

\* The top frame changes: a term that asks is still below.
LEMMA CambiaBill ==
    ASSUME PilaVale(pila), NEW f \in MarcoTipo, f.tipo = Cima.tipo, Cambia(f),
           ~(Cima.tipo = "term" /\ Cima.fase = "pregunta"),
           f.tipo = "usr1" => f.fase = "suma", SoloSuma(pila)
    PROVE  /\ SoloSuma(pila') /\ (PreguntaTerm(pila) => PreguntaTerm(pila'))
           /\ f.tipo = "term" /\ f.fase = "pregunta" => PreguntaTerm(pila')
           /\ f.tipo = "juego" /\ f.fase = "guarda" =>
                 Copiando(pila', {<<HojaDeViaje[f.var], Tiene(f) + 1>>})
<1>1. Len(pila) \in Nat \ {0} /\ Len(pila) \in 1 .. Len(pila)
  BY CimaVale
<1>2. pila' = [pila EXCEPT ![Len(pila)] = f]
  BY DEF Cambia
<1>3. /\ Len(pila') = Len(pila)
      /\ \A j \in 1 .. Len(pila) : pila'[j] = IF j = Len(pila) THEN f ELSE pila[j]
  BY <1>1, <1>2, ExceptSeq DEF PilaVale
<1>4. SoloSuma(pila')
  BY <1>3 DEF SoloSuma
<1>5. PreguntaTerm(pila) => PreguntaTerm(pila')
  BY <1>3 DEF PreguntaTerm, Cima
<1>6. f.tipo = "term" /\ f.fase = "pregunta" => PreguntaTerm(pila')
  BY <1>1, <1>3 DEF PreguntaTerm
<1>7. ASSUME f.tipo = "juego", f.fase = "guarda"
      PROVE  Copiando(pila', {<<HojaDeViaje[f.var], Tiene(f) + 1>>})
  <2>1. \A k : k \notin Len(pila) + 1 .. Len(pila)
    BY <1>1
  <2>2. EsUltimo(pila', Len(pila)) /\ pila'[Len(pila)] = f
    BY <1>1, <1>3, <1>7, <2>1 DEF EsUltimo
  <2> QED
    BY <1>1, <1>3, <1>7, <2>2 DEF Copiando
<1> QED
  BY <1>4, <1>5, <1>6, <1>7

LEMMA LlamaBill ==
    ASSUME PilaVale(pila), NEW f \in MarcoTipo, Llama(f),
           f.tipo = "usr1" => f.fase = "suma", SoloSuma(pila)
    PROVE  /\ SoloSuma(pila') /\ (PreguntaTerm(pila) => PreguntaTerm(pila'))
           /\ f.tipo # "juego" => \A C : Copiando(pila, C) => Copiando(pila', C)
<1>1. Len(pila) \in Nat \ {0}
  BY CimaVale
<1>2. pila' = Append(pila, f)
  BY DEF Llama
<1>3. /\ Len(pila') = Len(pila) + 1
      /\ \A i \in 1 .. Len(pila) : pila'[i] = pila[i]
      /\ pila'[Len(pila) + 1] = f
  BY <1>2, AppendProperties DEF PilaVale
<1>4. \A i \in 1 .. Len(pila') : i \in 1 .. Len(pila) \/ i = Len(pila) + 1
  BY <1>1, <1>3
<1>5. \A i \in 1 .. Len(pila) : i \in 1 .. Len(pila')
  BY <1>1, <1>3
<1>6. SoloSuma(pila')
  BY <1>3, <1>4 DEF SoloSuma
<1>7. PreguntaTerm(pila) => PreguntaTerm(pila')
  BY <1>3, <1>5 DEF PreguntaTerm
<1>8. ASSUME f.tipo # "juego", NEW C, Copiando(pila, C) PROVE Copiando(pila', C)
  <2>1. PICK u \in 1 .. Len(pila) :
          /\ EsUltimo(pila, u) /\ pila[u].fase = "guarda"
          /\ C \subseteq {<<HojaDeViaje[pila[u].var], Tiene(pila[u]) + 1>>}
    BY <1>8 DEF Copiando
  <2>2. \A k \in u + 1 .. Len(pila') :
           \/ k \in u + 1 .. Len(pila) /\ pila'[k] = pila[k]
           \/ pila'[k] = f
    BY <1>1, <1>3
  <2>3. EsUltimo(pila', u)
    BY <1>3, <1>5, <1>8, <2>1, <2>2 DEF EsUltimo
  <2> QED
    BY <1>3, <1>5, <2>1, <2>3 DEF Copiando
<1> QED
  BY <1>6, <1>7, <1>8

\* A handler that wrote the vidas returns.
LEMMA RetornaBill ==
    ASSUME PilaVale(pila), Cima.tipo # "juego", Cima.fase # "pregunta", Retorna,
           SoloSuma(pila)
    PROVE  /\ SoloSuma(pila') /\ (PreguntaTerm(pila) => PreguntaTerm(pila'))
           /\ \A C : Copiando(pila, C) => Copiando(pila', C)
<1> DEFINE n == Len(pila) - 1
<1>1. /\ n \in Nat \ {0} /\ \A i \in 1 .. n : i \in 1 .. Len(pila)
      /\ \A i \in 1 .. Len(pila) : i \in 1 .. n \/ i = Len(pila)
  BY CimaVale DEF PilaVale, Cima
<1>2. Len(pila') = n /\ \A i \in 1 .. n : pila'[i] = pila[i]
  <2>1. pila' = SubSeq(pila, 1, n)
    BY DEF Retorna
  <2>2. \A i \in 1 .. n : pila[i] \in MarcoTipo
    BY <1>1, ElementOfSeq DEF PilaVale
  <2> HIDE DEF n
  <2>3. /\ Len(pila') = IF 1 <= n THEN n - 1 + 1 ELSE 0
        /\ \A i \in 1 .. n - 1 + 1 : pila'[i] = pila[1 + i - 1]
    BY <1>1, <2>1, <2>2, SubSeqProperties
  <2>4. n - 1 + 1 = n /\ \A i \in 1 .. n : 1 + i - 1 = i
    BY <1>1
  <2> QED
    BY <1>1, <2>3, <2>4
<1>3. ASSUME NEW C, Copiando(pila, C) PROVE Copiando(pila', C)
  <2>1. PICK u \in 1 .. Len(pila) :
          /\ EsUltimo(pila, u) /\ pila[u].fase = "guarda"
          /\ C \subseteq {<<HojaDeViaje[pila[u].var], Tiene(pila[u]) + 1>>}
    BY <1>3 DEF Copiando
  <2>2. u # Len(pila)
    BY <2>1 DEF EsUltimo, Cima
  <2>3. u \in 1 .. n /\ \A k \in u + 1 .. n : k \in u + 1 .. Len(pila) /\ k \in 1 .. n
    BY <1>1, <2>2
  <2> HIDE DEF n
  <2>4. EsUltimo(pila', u)
    BY <1>2, <2>1, <2>3 DEF EsUltimo
  <2> QED
    BY <1>2, <2>1, <2>3, <2>4 DEF Copiando
<1> HIDE DEF n
<1>4. SoloSuma(pila')
  BY <1>1, <1>2 DEF SoloSuma
<1>5. PreguntaTerm(pila) => PreguntaTerm(pila')
  BY <1>1, <1>2 DEF PreguntaTerm, Cima
<1> QED
  BY <1>3, <1>4, <1>5

\* A nested game that is given up takes no handler off the stack.
LEMMA RindeBill ==
    ASSUME PilaVale(pila), Continua, SoloSuma(pila),
           LET abajo == Len(pila) - 1
           IN  pila' = Append(SubSeq(pila, 1, abajo - 1),
                              EnMapa(pila[abajo], pila[abajo].var + 1))
    PROVE  SoloSuma(pila') /\ (PreguntaTerm(pila) => PreguntaTerm(pila'))
<1> DEFINE k == Len(pila) - 2
           s == SubSeq(pila, 1, k)
           f == EnMapa(pila[k + 1], pila[k + 1].var + 1)
<1>1. /\ k \in Nat /\ k + 1 \in 1 .. Len(pila) /\ \A i \in 1 .. k : i \in 1 .. Len(pila)
      /\ \A i \in 1 .. Len(pila) : i \in 1 .. k \/ i = Len(pila) - 1 \/ i = Len(pila)
  BY CimaVale DEF Continua
<1>2. f.tipo = "juego" /\ f \in MarcoTipo
  <2>1. pila[k + 1] \in MarcoTipo
    BY <1>1, ElementOfSeq DEF PilaVale
  <2>2. k + 1 = Len(pila) - 1
    BY <1>1, CimaVale
  <2>3. pila[k + 1].tipo = "juego" /\ pila[k + 1].var + 1 \in Nat \ {0}
    BY <2>1, <2>2 DEF Continua, MarcoTipo
  <2> QED
    BY <2>1, <2>3, EnMapaVale
<1>3. pila' = Append(s, f)
  <2>1. Len(pila) - 1 - 1 = k /\ Len(pila) - 1 = k + 1
    BY <1>1, CimaVale
  <2> QED
    BY <2>1
<1>4. \A i \in 1 .. k : pila[i] \in MarcoTipo
  BY <1>1, ElementOfSeq DEF PilaVale
<1> HIDE DEF k, f
<1>5. s \in Seq(MarcoTipo) /\ Len(s) = k /\ \A i \in 1 .. k : s[i] = pila[i]
  <2> HIDE DEF s
  <2>1. /\ s \in Seq(MarcoTipo) /\ Len(s) = IF 1 <= k THEN k - 1 + 1 ELSE 0
        /\ \A i \in 1 .. k - 1 + 1 : s[i] = pila[1 + i - 1]
    BY <1>1, <1>4, SubSeqProperties DEF s
  <2>2. k - 1 + 1 = k /\ \A i \in 1 .. k : 1 + i - 1 = i
    BY <1>1
  <2> QED
    BY <1>1, <2>1, <2>2
<1> HIDE DEF s
<1>6. /\ Len(pila') = k + 1 /\ pila'[k + 1] = f
      /\ \A i \in 1 .. k : pila'[i] = pila[i]
  BY <1>2, <1>3, <1>5, AppendProperties
<1>7. \A i \in 1 .. k + 1 : i \in 1 .. k \/ i = k + 1
  BY <1>1
<1>8. SoloSuma(pila')
  BY <1>1, <1>2, <1>6, <1>7 DEF SoloSuma
<1>9. ASSUME PreguntaTerm(pila) PROVE PreguntaTerm(pila')
  <2>1. PICK i \in 1 .. Len(pila) : pila[i].tipo = "term" /\ pila[i].fase = "pregunta"
    BY <1>9 DEF PreguntaTerm
  <2>2. i # Len(pila) /\ i # Len(pila) - 1
    BY <2>1 DEF Continua, Cima
  <2>3. i \in 1 .. k /\ i \in 1 .. k + 1
    BY <1>1, <2>2
  <2> QED
    BY <1>6, <2>1, <2>3 DEF PreguntaTerm
<1> QED
  BY <1>8, <1>9

LEMMA InvBillPaso == InvViaje /\ InvBill /\ [Next]_vars => InvBill'
<1> SUFFICES ASSUME InvViaje, InvBill, [Next]_vars PROVE InvBill'
  OBVIOUS
<1>0. PilaVale(pila) /\ Cima \in MarcoTipo /\ Coherente(Cima) /\ SoloSuma(pila)
  BY CimaVale DEF InvViaje, Tipos, InvBill
<1>1. ASSUME UNCHANGED <<pila, lista, bill, copias>> PROVE InvBill'
  BY <1>1 DEF InvBill, CopiasAlDia, SoloSuma, PreguntaTerm, Copiando, EsUltimo, Tiene
<1>2. \/ PreguntaTerm(pila) \/ Cima.tipo # "juego"
      \/ /\ bill \subseteq lista /\ copias \subseteq {Capturado}
         /\ Cima.fase # "guarda" => copias = {}
  BY <1>0, SinCopias
\* What is kept when the list and the files are as they were, or all empty.
<1>3. ASSUME SoloSuma(pila'), PreguntaTerm(pila) => PreguntaTerm(pila'),
             UNCHANGED copias, UNCHANGED <<lista, bill>> \/ (lista' = {} /\ bill' = {}),
             \/ PreguntaTerm(pila) \/ PreguntaTerm(pila') \/ copias = {}
             \/ UNCHANGED <<lista, bill>> /\ (Copiando(pila, copias) => Copiando(pila', copias))
      PROVE  InvBill'
  <2>1. lista' \subseteq bill' \cup copias'
    BY <1>3 DEF InvBill
  <2>2. CopiasAlDia(pila', lista', bill', copias')
    BY <1>3 DEF InvBill, CopiasAlDia
  <2> QED
    BY <1>3, <2>1, <2>2 DEF InvBill
\* A game at the top with nothing under way goes on.
<1>4. ASSUME NEW f \in MarcoTipo, f.tipo = "juego", Cima.tipo = "juego", Cambia(f),
             UNCHANGED copias, UNCHANGED <<lista, bill>> \/ (lista' = {} /\ bill' = {}),
             Cima.fase = "guarda" => Capturado \notin copias
      PROVE  InvBill'
  <2>1. SoloSuma(pila') /\ (PreguntaTerm(pila) => PreguntaTerm(pila'))
    BY <1>0, <1>4, CambiaBill
  <2>2. PreguntaTerm(pila) \/ copias = {}
    BY <1>2, <1>4
  <2> QED
    BY <1>3, <1>4, <2>1, <2>2
<1>5. Cima.var \in Nat \ {0} /\ Cima.var + 1 \in Nat \ {0} /\ Cima.v \in Int /\ vidas \in Int
  BY <1>0 DEF MarcoTipo, InvViaje, Tipos
<1>6. CASE \/ MaestroPokemon \/ UsaLiberado \/ Recv \/ RecibeNulo \/ RecibeUbicacion
           \/ RecibeBatalla \/ Teclea
  BY <1>1, <1>6
  DEF MaestroPokemon, UsaLiberado, Recv, RecibeNulo, RecibeUbicacion, RecibeBatalla,
      Teclea, Termina, partida
<1>7. CASE MapaResponde \/ CaeMapa
  BY <1>1, <1>7
  DEF MapaResponde, DaUbicacion, DaCapturar, DaPokemon, DaBatalla, DaMuerte, Contesta,
      CaeMapa, delEntrenador, partida
<1>8. ASSUME NEW p \in copias, TerminaCopia(p) PROVE InvBill'
  <2>1. /\ UNCHANGED <<pila, lista>> /\ copias' \subseteq copias
        /\ bill' \cup copias' = bill \cup copias
    BY <1>8 DEF TerminaCopia
  <2>2. Copiando(pila, copias) => Copiando(pila', copias')
    BY <2>1 DEF Copiando, EsUltimo, Tiene
  <2>3. copias = {} => copias' = {}
    BY <2>1
  <2>4. SoloSuma(pila') /\ (PreguntaTerm(pila) <=> PreguntaTerm(pila'))
    BY <1>0, <2>1 DEF SoloSuma, PreguntaTerm
  <2> QED
    BY <2>1, <2>2, <2>3, <2>4 DEF InvBill, CopiasAlDia
<1>9. CASE NoConecta \/ VuelveAlMapa \/ ObjetivoCumplido
  <2>1. PICK v \in Nat \ {0} : Cambia(EnMapa(Cima, v))
    BY <1>5, <1>9 DEF NoConecta, VuelveAlMapa, ObjetivoCumplido
  <2>2. /\ Cima.tipo = "juego" /\ Cima.fase # "guarda" /\ UNCHANGED copias
        /\ UNCHANGED <<lista, bill>> \/ (lista' = {} /\ bill' = {})
    BY <1>9 DEF NoConecta, VuelveAlMapa, ObjetivoCumplido, borrarPokemons, Juego, partida
  <2>3. EnMapa(Cima, v) \in MarcoTipo /\ EnMapa(Cima, v).tipo = "juego"
    BY <1>0, <2>2, EnMapaVale
  <2> QED
    BY <1>4, <2>1, <2>2, <2>3
<1>10. CASE iniciarMapa
  <2> DEFINE f == [Cima EXCEPT !.fase = "recibe", !.resta = @ - 1, !.msj = "liberado"]
  <2>1. /\ UNCHANGED <<lista, bill, copias>> /\ Cima.tipo = "juego" /\ Cima.fase = "viaje"
        /\ Cambia(f) /\ Cima.var <= Len(HojaDeViaje)
    BY <1>10 DEF iniciarMapa, Juego, partida
  <2>2. f = [tipo |-> "juego", fase |-> "recibe", v |-> Cima.v, var |-> Cima.var,
             resta |-> Cima.resta - 1, msj |-> "liberado"]
    BY <1>0, <2>1, MarcoConectado
  <2>3. Cima.resta - 1 \in Nat
    BY <1>0, <2>1 DEF Coherente, MarcoTipo
  <2> HIDE DEF f
  <2>4. f \in MarcoTipo /\ f.tipo = "juego"
    BY <1>5, <2>2, <2>3 DEF MarcoTipo, Fases
  <2> QED
    BY <1>4, <2>1, <2>4
<1>11. CASE SiguientePokemon
  <2> DEFINE f == [Cima EXCEPT !.fase = "recibe", !.resta = @ - 1]
  <2>1. /\ UNCHANGED <<lista, bill, copias>> /\ Cima.tipo = "juego" /\ Cima.fase = "guarda"
        /\ Capturado \notin copias /\ Cambia(f) /\ Cima.resta > 0
    BY <1>11 DEF SiguientePokemon, Guardado, Juego, partida
  <2>2. f = [tipo |-> "juego", fase |-> "recibe", v |-> Cima.v, var |-> Cima.var,
             resta |-> Cima.resta - 1, msj |-> Cima.msj]
    BY <1>0, <2>1, MarcoSiguiente
  <2>3. Cima.resta - 1 \in Nat /\ Cima.msj \in {"vivo", "liberado"}
    BY <1>0, <2>1 DEF MarcoTipo
  <2> HIDE DEF f
  <2>4. f \in MarcoTipo /\ f.tipo = "juego"
    BY <1>5, <2>2, <2>3 DEF MarcoTipo, Fases
  <2> QED
    BY <1>4, <2>1, <2>4
<1>12. CASE RecibeMuerte
  <2> DEFINE f == [Cima EXCEPT !.fase = "resta", !.v = vidas]
  <2>1. /\ UNCHANGED <<lista, bill, copias>> /\ Cima.tipo = "juego" /\ Cima.fase = "recibe"
        /\ Cambia(f)
    BY <1>12 DEF RecibeMuerte, Juego, partida
  <2>2. f = [tipo |-> "juego", fase |-> "resta", v |-> vidas, var |-> Cima.var,
             resta |-> Cima.resta, msj |-> Cima.msj]
    BY <1>0, <2>1, MarcoMuerte
  <2>3. Cima.resta \in Nat /\ Cima.msj \in {"vivo", "liberado"}
    BY <1>0 DEF MarcoTipo
  <2> HIDE DEF f
  <2>4. f \in MarcoTipo /\ f.tipo = "juego"
    BY <1>5, <2>2, <2>3 DEF MarcoTipo, Fases
  <2> QED
    BY <1>4, <2>1, <2>4
<1>13. CASE RecibeCapturar \/ obtenerMedalla \/ PierdeElJuego \/ RestaVida
  <2>1. PICK fase \in FasesDeJuego : Pasa(fase)
    BY <1>13 DEF RecibeCapturar, obtenerMedalla, PierdeElJuego, RestaVida, FasesDeJuego
  <2>2. /\ Cima.tipo = "juego" /\ UNCHANGED <<lista, bill, copias>>
        /\ Cima.fase = "guarda" => Capturado \notin copias
    BY <1>13
    DEF RecibeCapturar, obtenerMedalla, PierdeElJuego, RestaVida, Juego, Guardado, partida
  <2> DEFINE f == [Cima EXCEPT !.fase = fase]
  <2>3. f \in MarcoTipo /\ f.tipo = "juego"
    BY <1>0, <2>2 DEF MarcoTipo, Fases, FasesDeJuego
  <2>4. Cambia(f)
    BY <2>1 DEF Pasa
  <2> HIDE DEF f
  <2> QED
    BY <1>4, <2>2, <2>3, <2>4
\* The pokemon goes to the list and its cp starts; no other one was under way.
<1>14. CASE RecibePokemon
  <2> DEFINE f == [Cima EXCEPT !.fase = "guarda"]
  <2>1. /\ Cima.tipo = "juego" /\ Cima.fase = "pokemon" /\ Cambia(f) /\ UNCHANGED bill
        /\ lista' = lista \cup {Capturado} /\ copias' = copias \cup {Capturado}
    BY <1>14 DEF RecibePokemon, Juego, Pasa
  <2>2. /\ f \in MarcoTipo /\ f.tipo = "juego" /\ f.fase = "guarda"
        /\ <<HojaDeViaje[f.var], Tiene(f) + 1>> = Capturado
    BY <1>0, <2>1 DEF MarcoTipo, Fases, Tiene, Capturado, Mapa
  <2> HIDE DEF f
  <2>3. /\ SoloSuma(pila') /\ (PreguntaTerm(pila) => PreguntaTerm(pila'))
        /\ Copiando(pila', {Capturado})
    BY <1>0, <2>1, <2>2, CambiaBill
  <2>4. lista' \subseteq bill' \cup copias'
    BY <2>1 DEF InvBill
  <2>5. CopiasAlDia(pila', lista', bill', copias')
    <3>1. CASE PreguntaTerm(pila)
      BY <2>3, <3>1 DEF CopiasAlDia
    <3>2. CASE bill \subseteq lista /\ copias = {}
      <4>1. copias' = {Capturado} /\ bill' \cup copias' \subseteq lista'
        BY <2>1, <3>2
      <4> QED
        BY <2>3, <4>1 DEF CopiasAlDia
    <3> QED
      BY <1>2, <2>1, <3>1, <3>2
  <2> QED
    BY <2>3, <2>4, <2>5 DEF InvBill
<1>15. CASE SumaVida \/ QuitaVida
  <2>1. /\ Retorna /\ Cima.fase \in {"suma", "quita"} /\ UNCHANGED <<lista, bill, copias>>
    BY <1>15 DEF SumaVida, QuitaVida, Escribe
  <2>2. Cima.tipo # "juego"
    BY <1>0, <2>1 DEF Coherente, FasesDeJuego
  <2>3. /\ SoloSuma(pila') /\ (PreguntaTerm(pila) => PreguntaTerm(pila'))
        /\ Copiando(pila, copias) => Copiando(pila', copias)
    BY <1>0, <2>1, <2>2, RetornaBill
  <2> QED
    BY <1>3, <2>1, <2>3
<1>16. CASE SIGUSR1 \/ SIGTERM
  <2>1. UNCHANGED <<lista, bill, copias>>
    BY <1>16 DEF SIGUSR1, SIGTERM, partida
  <2>2. PICK tipo \in {"usr1", "term"}, fase \in {"suma", "quita", "cierra"} :
          Llama(Marco(tipo, fase, vidas)) /\ (tipo = "usr1" => fase = "suma")
    BY <1>16 DEF SIGUSR1, SIGTERM
  <2> DEFINE f == Marco(tipo, fase, vidas)
  <2>3. f \in MarcoTipo /\ f.tipo = tipo /\ f.tipo # "juego" /\ f.fase = fase
    BY <1>5 DEF Marco, MarcoTipo, Fases
  <2>4. Llama(f)
    BY <2>2
  <2> HIDE DEF f
  <2>5. /\ SoloSuma(pila') /\ (PreguntaTerm(pila) => PreguntaTerm(pila'))
        /\ Copiando(pila, copias) => Copiando(pila', copias)
    BY <1>0, <2>2, <2>3, <2>4, LlamaBill
  <2> QED
    BY <1>3, <2>1, <2>5
<1>17. CASE CierraSocket
  <2>1. UNCHANGED <<lista, bill, copias>> /\ Cima.fase = "cierra"
    BY <1>17 DEF CierraSocket, partida
  <2>2. CASE cliente = "nulo"
    BY <1>1, <1>17, <2>1, <2>2 DEF CierraSocket, Termina
  <2>3. CASE cliente # "nulo"
    <3> DEFINE f == [Cima EXCEPT !.fase = "pregunta"]
    <3>1. Cambia(f)
      BY <1>17, <2>3 DEF CierraSocket, Pasa
    <3>2. Cima.tipo = "term"
      <4>1. Cima.tipo \in {"usr1", "term"}
        BY <1>0, <2>1 DEF Coherente, FasesDeJuego, MarcoTipo
      <4>2. Cima.tipo = "usr1" => Cima.fase = "suma"
        BY <1>0, CimaVale DEF SoloSuma, Cima
      <4> QED
        BY <2>1, <4>1, <4>2
    <3>3. f \in MarcoTipo /\ f.tipo = "term" /\ f.fase = "pregunta"
      BY <1>0, <3>2 DEF MarcoTipo, Fases
    <3> HIDE DEF f
    <3>4. SoloSuma(pila') /\ PreguntaTerm(pila')
      BY <1>0, <2>1, <3>1, <3>2, <3>3, CambiaBill
    <3> QED
      BY <1>3, <2>1, <3>4
  <2> QED
    BY <2>2, <2>3
\* The answers to a question empty the list and Dir de Bill.
<1>18. ASSUME \E si \in BOOLEAN : Responde(si), UNCHANGED copias
       PROVE  /\ UNCHANGED copias /\ lista' = {} /\ bill' = {}
              /\ PreguntaTerm(pila) \/ copias = {}
  <2>1. Cima.fase = "pregunta" /\ lista' = {} /\ bill' = {}
    BY <1>18 DEF Responde, Pregunta, borrarPokemons
  <2>2. PreguntaTerm(pila) \/ copias = {}
    <3>1. CASE Cima.tipo = "juego"
      BY <1>2, <2>1, <3>1
    <3>2. CASE Cima.tipo = "usr1"
      BY <1>0, <2>1, <3>2, CimaVale DEF SoloSuma, Cima
    <3>3. CASE Cima.tipo = "term"
      BY <1>0, <2>1, <3>3, CimaVale DEF PreguntaTerm, Cima
    <3> QED
      BY <1>0, <3>1, <3>2, <3>3 DEF MarcoTipo
  <2> QED
    BY <1>18, <2>1, <2>2
<1>19. CASE recargarEntrenador
  <2> DEFINE f == initEntrenador
  <2>1. Responde(TRUE) /\ UNCHANGED copias /\ Llama(f)
    BY <1>19 DEF recargarEntrenador
  <2>2. f \in MarcoTipo /\ f.tipo = "juego"
    BY Empieza
  <2> HIDE DEF f
  <2>3. SoloSuma(pila') /\ (PreguntaTerm(pila) => PreguntaTerm(pila'))
    BY <1>0, <2>1, <2>2, LlamaBill
  <2> QED
    BY <1>3, <1>18, <2>1, <2>3
<1>20. CASE SeRinde
  <2>1. Responde(FALSE) /\ UNCHANGED copias
    BY <1>20 DEF SeRinde
  <2>2. SoloSuma(pila') /\ (PreguntaTerm(pila) => PreguntaTerm(pila'))
    <3>1. CASE Continua
      BY <1>0, <1>20, <3>1, RindeBill DEF SeRinde
    <3>2. CASE ~Continua
      BY <1>0, <1>20, <3>2 DEF SeRinde, SoloSuma, PreguntaTerm
    <3> QED
      BY <3>1, <3>2
  <2> QED
    BY <1>3, <1>18, <2>1, <2>2
<1>21. CASE UNCHANGED vars
  BY <1>1, <1>21 DEF vars, partida
<1> QED
  BY <1>6, <1>7, <1>8, <1>9, <1>10, <1>11, <1>12, <1>13, <1>14, <1>15, <1>16, <1>17, <1>19,
     <1>20, <1>21
  DEF Next, Entrenador

\* Dir de Bill and the list of the trainer agree but for the copies under way, whatever
\* handler, question or restart runs between list_add and the end of its cp, and until
\* a SIGTERM without lives asks its question over a copy.
THEOREM ViajeBill == Spec => []BillAlDia
<1>1. Init => InvBill
  <2> SUFFICES ASSUME Init PROVE InvBill
    OBVIOUS
  <2> DEFINE f == initEntrenador
  <2>1. pila = <<f>> /\ f.tipo = "juego" /\ lista = {} /\ bill = {} /\ copias = {}
    BY Empieza DEF Init
  <2> HIDE DEF f
  <2>2. Len(pila) = 1 /\ pila[1] = f
    BY <2>1
  <2> QED
    BY <2>1, <2>2 DEF InvBill, SoloSuma, CopiasAlDia
<1>2. InvBill => BillAlDia
  BY DEF InvBill, CopiasAlDia, PreguntaTerm, BillAlDia
<1> QED
  BY <1>1, <1>2, ViajeInv, InvBillPaso, PTL DEF Spec
=============================================================================
