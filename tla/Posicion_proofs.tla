-------------------------- MODULE Posicion_proofs ---------------------------
(***************************************************************************)
(* Where the sprite of each trainer is in its first life, for any map:     *)
(* whoever waits for a pokemon stands on its pokenest.  The invariant      *)
(* follows the sprite along the way, for which a way is given in closed    *)
(* form: where k of its steps lead, and that one more step leads to the    *)
(* next point.                                                             *)
(***************************************************************************)
EXTENDS Cuentas_proofs
-----------------------------------------------------------------------------
(***************************************************************************)
(* A way: the steps of calcularColaMovimientos, one by one.                *)
(***************************************************************************)
\* Half of the steps that take turns: those of the shorter distance.
Menor(a, b) == IF a < b THEN a ELSE b

\* After k steps of a way of dx and dy, those that were along y: every other one, from
\* the first, while both last; and then all or none.
PasosY(dx, dy, k) ==
    IF k <= 2 * Menor(Abs(dx), Abs(dy)) THEN (k + 1) \div 2
    ELSE IF Abs(dy) > Abs(dx) THEN k - Abs(dx) ELSE Abs(dy)

Signo(n) == IF n > 0 THEN 1 ELSE -1

Largo(desde, hasta) == Abs(hasta[1] - desde[1]) + Abs(hasta[2] - desde[2])

\* Where k steps lead.
Punto(desde, hasta, k) ==
    LET dx == hasta[1] - desde[1]
        dy == hasta[2] - desde[2]
    IN  <<desde[1] + Signo(dx) * (k - PasosY(dx, dy, k)),
          desde[2] + Signo(dy) * PasosY(dx, dy, k)>>

\* The sprite at p has, with the steps of mv, what is left of the way.
Andando(p, mv, desde, hasta) ==
    \E k \in 0 .. Largo(desde, hasta) :
        /\ p = Punto(desde, hasta, k)
        /\ Len(mv) = Largo(desde, hasta) - k
        /\ \A i \in 1 .. Len(mv) : mv[i] = CalcularColaMovimientos(desde, hasta)[k + i]

\* One more step is along y, or it is not, as esY says of it.
LEMMA PasosDeUno ==
    ASSUME NEW dx \in Int, NEW dy \in Int, NEW k \in Nat, k < Abs(dx) + Abs(dy)
    PROVE  LET comun == 2 * Menor(Abs(dx), Abs(dy))
               enY == IF k + 1 <= comun THEN (k + 1) % 2 = 1 ELSE Abs(dy) > Abs(dx)
           IN  PasosY(dx, dy, k + 1) = PasosY(dx, dy, k) + (IF enY THEN 1 ELSE 0)
<1> DEFINE a == Abs(dx)
           b == Abs(dy)
<1>1. a \in Nat /\ b \in Nat
  BY DEF Abs
<1>2. (k + 2) \div 2 = (k + 1) \div 2 + (IF (k + 1) % 2 = 1 THEN 1 ELSE 0)
  OBVIOUS
<1>3. \A m \in Nat : (2 * m + 1) \div 2 = m
  OBVIOUS
<1> HIDE DEF a, b
<1> QED
  BY <1>1, <1>2, <1>3 DEF PasosY, Menor, a, b

\* A way begins where it should...
LEMMA PuntoInicial ==
    ASSUME NEW desde \in Posicion, NEW hasta \in Posicion
    PROVE  Punto(desde, hasta, 0) = desde
<1> DEFINE dx == hasta[1] - desde[1]
           dy == hasta[2] - desde[2]
<1>1. /\ dx \in Int /\ dy \in Int /\ desde = <<desde[1], desde[2]>>
      /\ desde[1] \in Int /\ desde[2] \in Int
  BY DEF Posicion
<1>2. PasosY(dx, dy, 0) = 0
  <2>1. Abs(dx) \in Nat /\ Abs(dy) \in Nat
    BY <1>1 DEF Abs
  <2> QED
    BY <2>1 DEF PasosY, Menor
<1>3. Punto(desde, hasta, 0)
        = <<desde[1] + Signo(dx) * (0 - PasosY(dx, dy, 0)),
            desde[2] + Signo(dy) * PasosY(dx, dy, 0)>>
  BY DEF Punto
<1>4. Signo(dx) \in Int /\ Signo(dy) \in Int
  BY DEF Signo
<1> HIDE DEF dx, dy
<1> QED
  BY <1>1, <1>2, <1>3, <1>4

\* ...ends where it should...
LEMMA PuntoFinal ==
    ASSUME NEW desde \in Posicion, NEW hasta \in Posicion
    PROVE  Punto(desde, hasta, Largo(desde, hasta)) = hasta
<1> DEFINE dx == hasta[1] - desde[1]
           dy == hasta[2] - desde[2]
           k == Largo(desde, hasta)
<1>1. /\ dx \in Int /\ dy \in Int /\ hasta = <<desde[1] + dx, desde[2] + dy>>
      /\ desde[1] \in Int /\ desde[2] \in Int
  BY DEF Posicion
<1>2. k = Abs(dx) + Abs(dy) /\ Abs(dx) \in Nat /\ Abs(dy) \in Nat
  BY <1>1 DEF Largo, Abs
<1>3. \A m \in Nat : (2 * m + 1) \div 2 = m
  OBVIOUS
<1>4. Punto(desde, hasta, k) = <<desde[1] + Signo(dx) * (k - PasosY(dx, dy, k)),
                                 desde[2] + Signo(dy) * PasosY(dx, dy, k)>>
  BY DEF Punto
<1> HIDE DEF dx, dy, k
<1>5. PasosY(dx, dy, k) = Abs(dy)
  <2> DEFINE a == Abs(dx)
             b == Abs(dy)
  <2>1. a \in Nat /\ b \in Nat /\ k = a + b
    BY <1>2
  <2>2. PasosY(dx, dy, k) = IF k <= 2 * (IF a < b THEN a ELSE b) THEN (k + 1) \div 2
                            ELSE IF b > a THEN k - a ELSE b
    BY DEF PasosY, Menor
  <2> SUFFICES PasosY(dx, dy, k) = b
    OBVIOUS
  <2> HIDE DEF a, b
  <2>3. CASE a = b
    <3>1. k = 2 * b /\ (2 * b + 1) \div 2 = b
      BY <1>3, <2>1, <2>3
    <3> QED
      BY <2>1, <2>2, <2>3, <3>1
  <2>4. CASE a # b
    BY <2>1, <2>2, <2>4
  <2> QED
    BY <2>3, <2>4
<1>6. Signo(dx) * Abs(dx) = dx /\ Signo(dy) * Abs(dy) = dy
  BY <1>1 DEF Signo, Abs
<1>7. Punto(desde, hasta, k) = <<desde[1] + dx, desde[2] + dy>>
  <2>1. k - PasosY(dx, dy, k) = Abs(dx)
    BY <1>2, <1>5
  <2> QED
    BY <1>4, <1>5, <1>6, <2>1
<1> QED
  BY <1>1, <1>7 DEF k

\* ...and each step of the map leads from one of its points to the next.
LEMMA PuntoSigue ==
    ASSUME NEW desde \in Posicion, NEW hasta \in Posicion, NEW k \in Nat,
           k < Largo(desde, hasta)
    PROVE  Punto(desde, hasta, k + 1)
             = Mover(Punto(desde, hasta, k), CalcularColaMovimientos(desde, hasta)[k + 1])
<1> DEFINE dx == hasta[1] - desde[1]
           dy == hasta[2] - desde[2]
           comun == 2 * Menor(Abs(dx), Abs(dy))
           enY == IF k + 1 <= comun THEN (k + 1) % 2 = 1 ELSE Abs(dy) > Abs(dx)
           y == PasosY(dx, dy, k)
           z == PasosY(dx, dy, k + 1)
           paso == CalcularColaMovimientos(desde, hasta)[k + 1]
<1>1. dx \in Int /\ dy \in Int /\ desde[1] \in Int /\ desde[2] \in Int
  BY DEF Posicion
<1>2. k < Abs(dx) + Abs(dy) /\ Abs(dx) \in Nat /\ Abs(dy) \in Nat
  BY <1>1 DEF Largo, Abs
<1>3. z = y + (IF enY THEN 1 ELSE 0)
  BY <1>1, <1>2, PasosDeUno
<1>4. y \in Int
  BY <1>1, <1>2 DEF PasosY, Menor
<1>5. /\ Punto(desde, hasta, k) = <<desde[1] + Signo(dx) * (k - y), desde[2] + Signo(dy) * y>>
      /\ Punto(desde, hasta, k + 1)
           = <<desde[1] + Signo(dx) * ((k + 1) - z), desde[2] + Signo(dy) * z>>
  <2>1. Punto(desde, hasta, k)
          = <<desde[1] + Signo(dx) * (k - y), desde[2] + Signo(dy) * y>>
    BY Zenon DEF Punto
  <2>2. Punto(desde, hasta, k + 1)
          = <<desde[1] + Signo(dx) * ((k + 1) - z), desde[2] + Signo(dy) * z>>
    BY Zenon DEF Punto
  <2> QED
    BY <2>1, <2>2
<1>6. paso = IF enY THEN (IF dy > 0 THEN "UP" ELSE "DOWN")
                    ELSE (IF dx > 0 THEN "RIGHT" ELSE "LEFT")
  BY <1>2 DEF CalcularColaMovimientos, Menor
<1>7. ASSUME NEW n \in Int, NEW s \in {1, -1} PROVE s * (n + 1) = s * n + s
  OBVIOUS
<1>8. Signo(dx) = (IF dx > 0 THEN 1 ELSE -1) /\ Signo(dy) = (IF dy > 0 THEN 1 ELSE -1)
  BY DEF Signo
<1> SUFFICES Punto(desde, hasta, k + 1) = Mover(Punto(desde, hasta, k), paso)
  OBVIOUS
<1> HIDE DEF dx, dy, comun, enY, y, z, paso
<1>9. CASE enY
  <2>1. z = y + 1 /\ k + 1 - z = k - y
    BY <1>3, <1>4, <1>9
  <2>2. Signo(dy) * z = Signo(dy) * y + Signo(dy)
    BY <1>4, <1>7, <1>8, <2>1
  <2>3. CASE dy > 0
    <3>1. paso = "UP" /\ Signo(dy) = 1
      BY <1>6, <1>8, <1>9, <2>3
    <3> QED
      BY <1>1, <1>4, <1>5, <2>1, <2>2, <3>1 DEF Mover
  <2>4. CASE ~(dy > 0)
    <3>1. paso = "DOWN" /\ Signo(dy) = -1
      BY <1>6, <1>8, <1>9, <2>4
    <3> QED
      BY <1>1, <1>4, <1>5, <2>1, <2>2, <3>1 DEF Mover
  <2> QED
    BY <2>3, <2>4
<1>10. CASE ~enY
  <2>1. z = y /\ k + 1 - z = (k - y) + 1
    BY <1>3, <1>4, <1>10
  <2>2. Signo(dx) * (k + 1 - z) = Signo(dx) * (k - y) + Signo(dx)
    BY <1>4, <1>7, <1>8, <2>1
  <2>3. CASE dx > 0
    <3>1. paso = "RIGHT" /\ Signo(dx) = 1
      BY <1>6, <1>8, <1>10, <2>3
    <3> QED
      BY <1>1, <1>4, <1>5, <2>1, <2>2, <3>1 DEF Mover
  <2>4. CASE ~(dx > 0)
    <3>1. paso = "LEFT" /\ Signo(dx) = -1
      BY <1>6, <1>8, <1>10, <2>4
    <3> QED
      BY <1>1, <1>4, <1>5, <2>1, <2>2, <3>1 DEF Mover
  <2> QED
    BY <2>3, <2>4
<1> QED
  BY <1>9, <1>10

\* At the beginning of a way all of it is left.
LEMMA AndaDesde ==
    ASSUME NEW desde \in Posicion, NEW hasta \in Posicion
    PROVE  /\ Andando(desde, CalcularColaMovimientos(desde, hasta), desde, hasta)
           /\ CalcularColaMovimientos(desde, hasta) \in Seq(Sentidos)
<1> DEFINE mv == CalcularColaMovimientos(desde, hasta)
           n == Largo(desde, hasta)
<1>1. n \in Nat /\ mv \in [1 .. n -> Sentidos]
  BY DEF Posicion, Largo, Abs, CalcularColaMovimientos, Sentidos
<1>2. mv \in Seq(Sentidos) /\ Len(mv) = n
  BY <1>1
<1> HIDE DEF mv, n
<1>3. \A i \in 1 .. Len(mv) : mv[i] = mv[0 + i]
  BY <1>2
<1>4. Len(mv) = n - 0 /\ 0 \in 0 .. n /\ desde = Punto(desde, hasta, 0)
  BY <1>1, <1>2, PuntoInicial
<1> QED
  BY <1>2, <1>3, <1>4 DEF Andando, mv, n

\* One step of the sprite is one step of the way.
LEMMA AndaUno ==
    ASSUME NEW desde \in Posicion, NEW hasta \in Posicion, NEW mv \in Seq(Sentidos),
           NEW p, Andando(p, mv, desde, hasta), mv # <<>>
    PROVE  Andando(Mover(p, Head(mv)), Tail(mv), desde, hasta)
<1> DEFINE n == Largo(desde, hasta)
           way == CalcularColaMovimientos(desde, hasta)
<1>1. PICK k \in 0 .. n :
          /\ p = Punto(desde, hasta, k) /\ Len(mv) = n - k
          /\ \A i \in 1 .. Len(mv) : mv[i] = way[k + i]
  BY DEF Andando
<1>2. n \in Nat
  BY DEF Posicion, Largo, Abs
<1>3. Len(mv) >= 1 /\ Head(mv) = mv[1] /\ Len(Tail(mv)) = Len(mv) - 1
      /\ \A i \in 1 .. Len(Tail(mv)) : Tail(mv)[i] = mv[i + 1]
  OBVIOUS
<1>4. k + 1 \in 0 .. n /\ k < n /\ Len(Tail(mv)) = n - (k + 1)
  BY <1>1, <1>2, <1>3
<1>5. Mover(p, Head(mv)) = Punto(desde, hasta, k + 1)
  BY <1>1, <1>2, <1>3, <1>4, PuntoSigue
<1> HIDE DEF n, way
<1>6. ASSUME NEW i \in 1 .. Len(Tail(mv)) PROVE Tail(mv)[i] = way[(k + 1) + i]
  <2>1. i + 1 \in 1 .. Len(mv) /\ Tail(mv)[i] = mv[i + 1] /\ k + (i + 1) = (k + 1) + i
    BY <1>2, <1>3
  <2> QED
    BY <1>1, <2>1
<1> QED
  BY <1>4, <1>5, <1>6 DEF Andando, n, way

\* With no steps left it has arrived.
LEMMA AndaHasta ==
    ASSUME NEW desde \in Posicion, NEW hasta \in Posicion, NEW p,
           Andando(p, <<>>, desde, hasta)
    PROVE  p = hasta
<1>1. Largo(desde, hasta) \in Nat
  BY DEF Posicion, Largo, Abs
<1>2. PICK k \in 0 .. Largo(desde, hasta) :
          p = Punto(desde, hasta, k) /\ 0 = Largo(desde, hasta) - k
  BY DEF Andando
<1>3. k = Largo(desde, hasta)
  BY <1>1, <1>2
<1> QED
  BY <1>2, <1>3, PuntoFinal
-----------------------------------------------------------------------------
(***************************************************************************)
(* Where the sprite of each trainer is, by the place where the trainer is. *)
(***************************************************************************)
Sprite(c) == gui[Simbolo(c)][1]

\* It has arrived, and the trainer knows.
Llego(c, n) == Sprite(c) = posE[c] /\ posE[c] = Ubicacion[n]

\* It will be on its way when the sprite is at p.
Camina(c, p, n) == Andando(p, movimientos[c], posE[c], Ubicacion[n])

\* A first life that no other one has followed.
DePrimera(c) == Vida(c) = 1 /\ pcE[c] # "muerto"

\* In its first life, still in the map, or gone with its last words to be read.
Presente(c) ==
    /\ Vida(c) = 1
    /\ pcE[c] = "mensaje" \/ (pcE[c] = "cumplido" /\ aMapa[c] # <<>>)

\* Blocked, it has arrived; between two pokenests, the sprite is where the last way
\* ended; on a way, the steps that the trainer still has lead from the sprite to the
\* pokenest, once the one that is on the wire is drawn.
Posicionado(c) ==
    /\ Bloqueado(c) => Llego(c, msj[c].pokemon)
    /\ EnCola(colaReady, c) /\ msj[c].accion = "UBICACION_POKENEST" => Sprite(c) = posE[c]
    /\ EnCola(colaReady, c) /\ msj[c].accion = "MOVERSE" =>
          Camina(c, Sprite(c), msj[c].pokemon)
    /\ EnTurno(c) /\ aEntrenador[c] # <<>> =>
          LET m == aEntrenador[c][1]
          IN  IF m.accion = "MOVERSE" THEN Camina(c, Sprite(c), m.pokemon)
                                      ELSE Sprite(c) = posE[c]
    /\ EnTurno(c) /\ aMapa[c] # <<>> =>
          LET m == aMapa[c][1]
          IN  IF m.accion = "MOVERSE"
                THEN Camina(c, Mover(Sprite(c), m.movimiento), m.pokemon)
                ELSE Llego(c, m.pokemon)

Retirado(c) ==
    ~EnCola(colaReady, c) /\ ~Bloqueado(c) /\ entP # c /\ ~EnCola(pendientes, c)

Sitio(c) ==
    /\ pcE[c] \in {"fuera", "conectado"} \/ EnCola(pendientes, c) =>
          /\ posE[c] = Origen /\ ~EnCola(clientes, c)
          /\ DePrimera(c) => gui[Simbolo(c)] = <<>>
    /\ pcE[c] = "cumplido" =>
          \/ Retirado(c)
          \/ EnPremio(c) /\ aMapa[c] # <<>> /\ aMapa[c][1].accion = "OBJETIVO_CUMPLIDO"
    /\ pcE[c] = "muerto" => entD # c
    /\ Presente(c) /\ ~EnCola(pendientes, c) => gui[Simbolo(c)] # <<>> /\ Posicionado(c)

Sitios == \A c \in Conexiones : Sitio(c)
-----------------------------------------------------------------------------
(***************************************************************************)
(* A step that does not move a trainer, nor the trainer's sprite: it may   *)
(* leave some place, and not come to one.                                  *)
(***************************************************************************)
Aparte(c) ==
    /\ DePrimera(c) => gui'[Simbolo(c)] = gui[Simbolo(c)]
    /\ posE'[c] = posE[c] /\ movimientos'[c] = movimientos[c] /\ pcE'[c] = pcE[c]
    /\ EnCola(clientes', c) => EnCola(clientes, c)
    /\ EnCola(pendientes', c) <=> EnCola(pendientes, c)
    /\ EnCola(colaReady', c) => EnCola(colaReady, c) /\ msj'[c] = msj[c]
    /\ Bloqueado(c)' => Bloqueado(c) /\ msj'[c].pokemon = msj[c].pokemon
    /\ EnTurno(c)' => EnTurno(c) /\ aMapa'[c] = aMapa[c] /\ aEntrenador'[c] = aEntrenador[c]
    /\ entD' = c => entD = c \/ pcE[c] # "muerto"
    /\ pcE[c] = "cumplido" => aMapa'[c] = aMapa[c] /\ (EnPremio(c) => EnPremio(c)')

\* Such a step keeps what is known of the trainer.
LEMMA AparteVale ==
    ASSUME NEW c \in Conexiones, Sitio(c), Aparte(c)
    PROVE  Sitio(c)'
<1>1. /\ DePrimera(c) => Sprite(c)' = Sprite(c)
      /\ posE'[c] = posE[c] /\ movimientos'[c] = movimientos[c]
  BY DEF Aparte, Sprite
<1>2. (Presente(c)' => Presente(c)) /\ (DePrimera(c)' <=> DePrimera(c))
  BY DEF Aparte, Presente, DePrimera
<1>3. Retirado(c) => Retirado(c)'
  BY DEF Aparte, Retirado, EnTurno
<1>4. DePrimera(c) /\ Posicionado(c) => Posicionado(c)'
  <2> SUFFICES ASSUME DePrimera(c), Posicionado(c) PROVE Posicionado(c)'
    OBVIOUS
  <2>1. Bloqueado(c)' => Llego(c, msj'[c].pokemon)
    BY DEF Aparte, Posicionado
  <2>2. EnCola(colaReady', c) =>
           /\ msj'[c].accion = "UBICACION_POKENEST" => Sprite(c) = posE[c]
           /\ msj'[c].accion = "MOVERSE" => Camina(c, Sprite(c), msj'[c].pokemon)
    BY DEF Aparte, Posicionado
  <2>3. EnTurno(c)' /\ aEntrenador'[c] # <<>> =>
           LET m == aEntrenador'[c][1]
           IN  IF m.accion = "MOVERSE" THEN Camina(c, Sprite(c), m.pokemon)
                                       ELSE Sprite(c) = posE[c]
    BY DEF Aparte, Posicionado
  <2>4. EnTurno(c)' /\ aMapa'[c] # <<>> =>
           LET m == aMapa'[c][1]
           IN  IF m.accion = "MOVERSE"
                 THEN Camina(c, Mover(Sprite(c), m.movimiento), m.pokemon)
                 ELSE Llego(c, m.pokemon)
    BY DEF Aparte, Posicionado
  <2> QED
    BY <1>1, <2>1, <2>2, <2>3, <2>4 DEF Posicionado, Llego, Camina
<1>5. Presente(c) => DePrimera(c)
  BY DEF Presente, DePrimera
<1> QED
  BY <1>2, <1>3, <1>4, <1>5 DEF Aparte, Sitio

\* One step moves one trainer at most.
LEMMA SoloUno ==
    ASSUME Sitios, NEW h \in Conexiones, Sitio(h)', \A c \in Conexiones \ {h} : Aparte(c)
    PROVE  Sitios'
  BY AparteVale DEF Sitios

LEMMA TodosAparte ==
    ASSUME Sitios, \A c \in Conexiones : Aparte(c)
    PROVE  Sitios'
  BY AparteVale DEF Sitios

\* What a step that draws nothing leaves as it was.
sprites == <<gui, posE, movimientos, pcE>>

\* What a step that says nothing leaves as it was.
LEMMA CalladoAparte ==
    ASSUME Sitios, UNCHANGED callados, UNCHANGED sprites,
           \A c \in Conexiones : EnCola(clientes', c) => EnCola(clientes, c),
           pcB' = "recibe" <=> pcB = "recibe",
           pcD' \in {"saca", "espera"} <=> pcD \in {"saca", "espera"}
    PROVE  Sitios'
<1>1. ASSUME NEW c \in Conexiones PROVE Aparte(c)
  BY DEF Aparte, callados, lugares, sprites, EnTurno, EnPremio, Bloqueado, EnManos
<1> QED
  BY <1>1, TodosAparte
-----------------------------------------------------------------------------
\* What is known of a trainer by its place.
LEMMA Ubicado ==
    ASSUME Sabido, Sitios, NEW c \in Conexiones
    PROVE  /\ EnTurno(c) \/ EnCola(colaReady, c) \/ EnDesafio(c) =>
                 pcE[c] \notin {"fuera", "conectado", "cumplido"} /\ ~EnCola(pendientes, c)
           /\ Bloqueado(c) =>
                 pcE[c] \notin {"fuera", "conectado"} /\ ~EnCola(pendientes, c)
           /\ Bloqueado(c) /\ ~EnPremio(c) => pcE[c] # "cumplido"
           /\ Presente(c) /\ ~EnCola(pendientes, c) => gui[Simbolo(c)] # <<>> /\ Posicionado(c)
<1>1. Sitio(c) /\ UnPapel(c) /\ Charla(c)
  BY DEF Sabido, Sitios, Papeles, Conversacion
<1>2. EnTurno(c) \/ EnCola(colaReady, c) \/ EnDesafio(c) =>
         pcE[c] \notin {"fuera", "conectado", "cumplido"} /\ ~EnCola(pendientes, c)
  <2>1. EnTurno(c) => EnCola(colaReady, c) \/ entP = c
    BY DEF EnTurno
  <2>2. CASE EnDesafio(c)
    BY <1>1, <2>2 DEF UnPapel, Charla, Sitio, Retirado
  <2>3. CASE EnCola(colaReady, c)
    BY <1>1, <2>3 DEF UnPapel, Charla, Sitio, Retirado
  <2>4. CASE EnTurno(c) /\ entP = c
    BY <1>1, <2>4 DEF UnPapel, Charla, Sitio, Retirado
  <2> QED
    BY <2>1, <2>2, <2>3, <2>4
<1>3. Bloqueado(c) => pcE[c] \notin {"fuera", "conectado"} /\ ~EnCola(pendientes, c)
  BY <1>1 DEF UnPapel, Charla
<1>4. Bloqueado(c) /\ ~EnPremio(c) => pcE[c] # "cumplido"
  BY <1>1 DEF Sitio, Retirado
<1> QED
  BY <1>1, <1>2, <1>3, <1>4 DEF Sitio
-----------------------------------------------------------------------------
(***************************************************************************)
(* hiloPlanificador.                                                       *)
(***************************************************************************)
\* A visit that began is the only one of its symbol that may be in its first life.
LEMMA UnaVisita ==
    ASSUME Visitas, NEW c \in Conexiones, NEW d \in Conexiones, Simbolo(c) = Simbolo(d),
           DePrimera(c), pcE[d] # "fuera"
    PROVE  c = d
<1>1. /\ c = <<Simbolo(c), Vida(c)>> /\ d = <<Simbolo(d), Vida(d)>>
      /\ Vida(c) \in 1 .. Vidas /\ Vida(d) \in 1 .. Vidas
  BY DEF Conexiones, Simbolo, Vida
<1>2. ~(Vida(c) < Vida(d))
  BY DEF Visitas, DePrimera
<1>3. Vida(c) = Vida(d)
  BY <1>1, <1>2, ConstantesAssumption DEF DePrimera
<1> QED
  BY <1>1, <1>3

\* It blocks the trainer that has arrived, and draws the steps of the others.
LEMMA PlanificarSitios ==
    ASSUME Sabido, Sitios, Papeles', Planificar
    PROVE  Sitios'
<1> USE DEF Sabido, Tipos, TypeOK
<1> Nadie \notin Conexiones
  BY ConstantesAssumption
<1> DEFINE otros == <<pendientes, colaBlock, entB, entD, bloqueados, pelea, peleadores,
                      pcD, pcB, clientes, pcE, posE, movimientos>>
<1>1. CASE \/ P_Chequea \/ P_Duerme \/ P_AvisaVacio \/ P_SenalVacio \/ P_SenalBlock
           \/ (P_Atiende /\ UNCHANGED <<msj, aEntrenador, colaReady>>)
           \/ (P_Cercano /\ UNCHANGED <<colaReady, entP, pcP>>)
  <2>1. /\ UNCHANGED <<callados, sprites, clientes, pcD>>
        /\ pcB' = "recibe" <=> pcB = "recibe"
    BY <1>1 DEF P_Chequea, P_Duerme, P_AvisaVacio, P_SenalVacio, P_SenalBlock, P_Atiende,
       P_Cercano, EnP, SenalBlockEmpty, SenalBlock, callados, sprites, lugares, recursos,
       colas, red, block, deadlock, procesos, info, config, principal
  <2> QED
    BY <2>1, CalladoAparte
\* The one whose turn begins is given its position, or the answer withheld.
<1>2. CASE P_Otorga
  <2>1. PICK h \in Conexiones :
          /\ pcP = "otorga" /\ entP' = h /\ UNCHANGED <<otros, gui, aMapa>>
          /\ msj' = IF msj[h].accion = "UBICACION_POKENEST"
                      THEN [msj EXCEPT ![h].accion = "UBICACION_POKENEST_OTORGADA"]
                      ELSE msj
          /\ Enviar(h, <<msj[h]>>)
          /\ EnCola(colaReady, h) /\ ~EnCola(colaReady', h)
          /\ \A c : EnCola(colaReady, c) <=> EnCola(colaReady', c) \/ c = h
    <3>1. colaReady # <<>> /\ colaReady' = Tail(colaReady)
      BY <1>2 DEF P_Otorga, EnP, Punteros, PunteroPlanificador
    <3>2. /\ Head(colaReady) \in Conexiones /\ EnCola(colaReady, Head(colaReady))
          /\ ~EnCola(colaReady', Head(colaReady))
          /\ \A c : EnCola(colaReady, c) <=> EnCola(colaReady', c) \/ c = Head(colaReady)
      BY <3>1, ColaTail DEF TipoColas, Lugares, UnaVez
    <3> QED
      BY <1>2, <3>1, <3>2 DEF P_Otorga, EnP, block, deadlock, procesos, principal
  <2>2. entP = Nadie
    BY <2>1 DEF Lugares, Manos
  <2>3. msj[h].accion \in {"UBICACION_POKENEST", "MOVERSE"}
    BY <2>1 DEF Algoritmo, Conversacion, Guardado
  <2>4. Nada(h)
    BY <2>1, <2>2, <2>3 DEF Papeles, UnPapel, Conversacion, Charla, EnTurno
  <2>5. /\ aEntrenador'[h] # <<>> => aEntrenador'[h][1] = msj[h]
        /\ \A d \in Conexiones \ {h} : aEntrenador'[d] = aEntrenador[d]
    BY <2>1, <2>4, EnviarUno DEF TipoInfo, Nada
  <2>6. /\ pcE[h] \notin {"fuera", "conectado", "cumplido"} /\ ~EnCola(pendientes, h)
        /\ Presente(h) => gui[Simbolo(h)] # <<>> /\ Posicionado(h)
    BY <2>1, Ubicado
  <2>7. Posicionado(h) => Posicionado(h)'
    <3>1. ~Bloqueado(h)' /\ ~EnCola(colaReady', h) /\ aMapa'[h] = <<>>
      BY <2>1, <2>4 DEF Papeles, UnPapel, EnTurno, Nada
    <3> QED
      BY <2>1, <2>3, <2>5, <3>1 DEF Posicionado, Camina, Sprite
  <2>8. Sitio(h)'
    BY <2>1, <2>6, <2>7 DEF Sitios, Sitio, Presente
  <2>9. ASSUME NEW c \in Conexiones \ {h} PROVE Aparte(c)
    BY <2>1, <2>2, <2>5 DEF Aparte, EnTurno, EnPremio, Bloqueado, EnManos, TipoInfo
  <2> QED
    BY <2>8, <2>9, SoloUno
<1>3. CASE P_Atiende /\ ~UNCHANGED <<msj, aEntrenador, colaReady>>
  <2>1. pcP = "atiende" /\ UNCHANGED <<otros, gui, aMapa, entP>>
    BY <1>3 DEF P_Atiende, EnP, block, deadlock, procesos, principal
  <2>2. PICK i \in PidenUbicacion :
          /\ Enviar(colaReady[i], <<msj[colaReady[i]]>>)
          /\ msj' = [msj EXCEPT ![colaReady[i]].accion = "UBICACION_POKENEST_OTORGADA"]
          /\ \E q \in SinEntrenador(colaReady, Simbolo(colaReady[i])) :
                colaReady' = Append(q, colaReady[i])
    BY <1>3 DEF P_Atiende, Primero
  <2>3. PICK h \in Conexiones :
          /\ Enviar(h, <<msj[h]>>) /\ EnCola(colaReady, h)
          /\ msj[h].accion = "UBICACION_POKENEST"
          /\ msj' = [msj EXCEPT ![h].accion = "UBICACION_POKENEST_OTORGADA"]
          /\ \A c \in Conexiones : EnCola(colaReady', c) <=> EnCola(colaReady, c)
    <3>1. i \in 1 .. Len(colaReady) /\ msj[colaReady[i]].accion = "UBICACION_POKENEST"
      BY <2>2 DEF PidenUbicacion
    <3>2. PICK q \in SinEntrenador(colaReady, Simbolo(colaReady[i])) :
             colaReady' = Append(q, colaReady[i])
      BY <2>2
    <3>3. /\ q \in Seq(Conexiones) /\ colaReady[i] \in Conexiones
          /\ \A c \in Conexiones : EnCola(q, c) <=> EnCola(colaReady, c) /\ c # colaReady[i]
      BY <3>1, SinTocayos
    <3>4. EnCola(colaReady, colaReady[i])
      BY <3>1 DEF EnCola
    <3>5. \A c \in Conexiones : EnCola(colaReady', c) <=> EnCola(colaReady, c)
      BY <3>2, <3>3, <3>4, ColaAppend
    <3> QED
      BY <2>2, <3>1, <3>3, <3>4, <3>5
  <2>4. entP = Nadie
    BY <2>1 DEF Lugares, Manos
  <2>5. Nada(h)
    BY <2>3, <2>4 DEF Papeles, UnPapel, Conversacion, Charla, EnTurno
  <2>6. /\ aEntrenador'[h] # <<>> => aEntrenador'[h][1] = msj[h]
        /\ \A d \in Conexiones \ {h} : aEntrenador'[d] = aEntrenador[d]
    BY <2>3, <2>5, EnviarUno DEF TipoInfo, Nada
  <2>7. /\ pcE[h] \notin {"fuera", "conectado", "cumplido"} /\ ~EnCola(pendientes, h)
        /\ Presente(h) => gui[Simbolo(h)] # <<>> /\ Posicionado(h)
    BY <2>3, Ubicado
  <2>8. Posicionado(h) => Posicionado(h)'
    <3>1. /\ ~Bloqueado(h)' /\ aMapa'[h] = <<>>
          /\ msj'[h].accion = "UBICACION_POKENEST_OTORGADA"
      BY <2>1, <2>3, <2>5 DEF Papeles, UnPapel, Nada, TipoInfo, MsjGuardado
    <3> QED
      BY <2>1, <2>3, <2>6, <3>1 DEF Posicionado, Sprite
  <2>9. Sitio(h)'
    BY <2>1, <2>7, <2>8 DEF Sitios, Sitio, Presente
  <2>10. ASSUME NEW c \in Conexiones \ {h} PROVE Aparte(c)
    BY <2>1, <2>3, <2>6 DEF Aparte, EnTurno, EnPremio, Bloqueado, EnManos, TipoInfo
  <2> QED
    BY <2>9, <2>10, SoloUno
<1>4. CASE P_Cercano /\ ~UNCHANGED <<colaReady, entP, pcP>>
  <2>1. /\ pcP = "cercano" /\ UNCHANGED <<otros, gui, aMapa, aEntrenador, msj>>
    BY <1>4 DEF P_Cercano, EnP, red, info, block, deadlock, procesos, principal
  <2>2. PICK i \in Candidatos :
          /\ colaReady' \in SinEntrenador(colaReady, Simbolo(colaReady[i]))
          /\ entP' = colaReady[i]
    BY <1>4 DEF P_Cercano, Primero, MasCercanos
  <2>3. PICK h \in Conexiones :
          /\ entP' = h /\ EnCola(colaReady, h) /\ msj[h].accion # "UBICACION_POKENEST"
          /\ \A c \in Conexiones : EnCola(colaReady', c) <=> EnCola(colaReady, c) /\ c # h
    <3>1. i \in 1 .. Len(colaReady) /\ msj[colaReady[i]].accion # "UBICACION_POKENEST"
      BY <2>2 DEF Candidatos, PidenUbicacion
    <3>2. EnCola(colaReady, colaReady[i])
      BY <3>1 DEF EnCola
    <3> QED
      BY <2>2, <3>1, <3>2, SinTocayos
  <2>4. EnTurno(h)
    BY <2>1, <2>3 DEF Algoritmo, Conversacion, Guardado, EnTurno
  <2>5. ASSUME NEW c \in Conexiones PROVE Aparte(c)
    BY <2>1, <2>3, <2>4 DEF Aparte, EnTurno, EnPremio, Bloqueado, EnManos
  <2> QED
    BY <2>5, TodosAparte
\* The step that its sprite takes is the one it sent.
<1>5. CASE P_RecibeMoverse
  <2>1. PICK h \in Conexiones, m \in Proximo(entP) :
          /\ pcP = "recibe" /\ entP = h /\ Tomar(h) /\ UNCHANGED otros
          /\ m.accion \notin {"CAPTURAR_POKEMON", "OBJETIVO_CUMPLIDO"}
          /\ gui' = IF m.accion = "MOVERSE" /\ gui[Simbolo(h)] # <<>>
                      THEN [gui EXCEPT ![Simbolo(h)][1] = Mover(@, m.movimiento)]
                      ELSE gui
          /\ IF SigueTurno(h)
               THEN /\ Enviar(h, <<m>>) /\ UNCHANGED <<colaReady, entP>>
                    /\ msj' = [msj EXCEPT ![h] = Con(m, "LIBERADO")]
               ELSE /\ msj' = [msj EXCEPT ![h] = m] /\ colaReady' = Append(colaReady, h)
                    /\ entP' = Nadie /\ UNCHANGED aEntrenador
    BY <1>5 DEF P_RecibeMoverse, EnP, Punteros, PunteroPlanificador, block, deadlock,
       procesos, principal
  <2>2. m \in Proximo(h) /\ m \in MsjGuardado /\ aMapa[h] # <<>>
    BY <2>1, ProximoTipo
  <2>3. Vuelta(h, {"MOVERSE", "CAPTURAR_POKEMON"})
    BY <2>1, <2>2 DEF Conversacion, Charla, EnTurno, Turno, Ida, SeFue, Nada
  <2>4. /\ m = aMapa[h][1] /\ aMapa'[h] = <<>>
        /\ \A d \in Conexiones \ {h} : aMapa'[d] = aMapa[d]
    BY <2>1, <2>2, <2>3, TomarUno DEF Vuelta
  <2>5. m.accion = "MOVERSE" /\ aEntrenador[h] = <<>>
    BY <2>1, <2>3, <2>4 DEF Vuelta
  <2>6. EnTurno(h) /\ ~EnCola(colaReady, h)
    BY <2>1 DEF EnTurno, Lugares, Separado
  <2>7. /\ pcE[h] \notin {"fuera", "conectado", "cumplido"} /\ ~EnCola(pendientes, h)
        /\ Presente(h) => gui[Simbolo(h)] # <<>> /\ Posicionado(h)
    BY <2>6, Ubicado
  <2>8. Presente(h) => /\ gui'[Simbolo(h)] # <<>>
                       /\ Camina(h, Sprite(h)', m.pokemon)
    <3> SUFFICES ASSUME Presente(h)
                 PROVE  gui'[Simbolo(h)] # <<>> /\ Camina(h, Sprite(h)', m.pokemon)
      OBVIOUS
    <3>1. Camina(h, Mover(Sprite(h), m.movimiento), m.pokemon)
      BY <2>2, <2>4, <2>5, <2>6, <2>7 DEF Posicionado
    <3>2. gui[Simbolo(h)] \in Seq(Posicion) /\ gui[Simbolo(h)] # <<>>
      BY <2>7, SimboloTipo DEF TipoInfo
    <3>3. gui'[Simbolo(h)] = [gui[Simbolo(h)] EXCEPT ![1] = Mover(@, m.movimiento)]
      BY <2>1, <2>5, <3>2, SimboloTipo DEF TipoInfo
    <3>4. gui'[Simbolo(h)] # <<>> /\ Sprite(h)' = Mover(Sprite(h), m.movimiento)
      <4> DEFINE s == gui[Simbolo(h)]
                 p == Mover(s[1], m.movimiento)
      <4>1. Len(s) \in Nat \ {0} /\ DOMAIN s = 1 .. Len(s)
        BY <3>2, EmptySeq
      <4>2. gui'[Simbolo(h)] = [s EXCEPT ![1] = p]
        BY <3>3
      <4> HIDE DEF s, p
      <4>3. [s EXCEPT ![1] = p][1] = p /\ [s EXCEPT ![1] = p] # <<>>
        BY <4>1
      <4> QED
        BY <4>2, <4>3 DEF s, p, Sprite
    <3> QED
      BY <3>1, <3>4
  <2>9. \A c \in Conexiones \ {h} : DePrimera(c) => gui'[Simbolo(c)] = gui[Simbolo(c)]
    BY <2>1, <2>7, SimboloTipo, UnaVisita DEF TipoInfo
  <2>10. CASE SigueTurno(h)
    <3>1. /\ aEntrenador'[h] # <<>> => aEntrenador'[h][1] = m
          /\ \A d \in Conexiones \ {h} : aEntrenador'[d] = aEntrenador[d]
      BY <2>1, <2>2, <2>5, <2>10, EnviarUno
    <3>2. ~Bloqueado(h)' /\ ~EnCola(colaReady', h)
      BY <2>1, <2>6, <2>10 DEF Papeles, UnPapel, EnTurno
    <3>3. Presente(h) => Posicionado(h)'
      BY <2>1, <2>4, <2>5, <2>8, <3>1, <3>2 DEF Posicionado, Camina
    <3>4. Sitio(h)'
      BY <2>1, <2>7, <2>8, <3>3 DEF Sitios, Sitio, Presente
    <3>5. ASSUME NEW c \in Conexiones \ {h} PROVE Aparte(c)
      BY <2>1, <2>4, <2>9, <2>10, <3>1
      DEF Aparte, EnTurno, EnPremio, Bloqueado, EnManos, TipoInfo
    <3> QED
      BY <3>4, <3>5, SoloUno
  <2>11. CASE ~SigueTurno(h)
    <3>1. \A c : EnCola(colaReady', c) <=> EnCola(colaReady, c) \/ c = h
      <4>1. colaReady' = Append(colaReady, h)
        BY <2>1, <2>11
      <4> QED
        BY <4>1, ColaAppend DEF TipoColas
    <3>2. msj'[h] = m /\ entP' = Nadie /\ \A c \in Conexiones \ {h} : msj'[c] = msj[c]
      BY <2>1, <2>11 DEF TipoInfo
    <3>3. ~Bloqueado(h)' /\ ~EnTurno(h)'
      BY <2>5, <3>1, <3>2 DEF Papeles, UnPapel, EnTurno
    <3>4. Presente(h) => Posicionado(h)'
      BY <2>1, <2>5, <2>8, <3>2, <3>3 DEF Posicionado, Camina
    <3>5. Sitio(h)'
      BY <2>1, <2>7, <2>8, <3>4 DEF Sitios, Sitio, Presente
    <3>6. ASSUME NEW c \in Conexiones \ {h} PROVE Aparte(c)
      BY <2>1, <2>4, <2>9, <2>11, <3>1, <3>2
      DEF Aparte, EnTurno, EnPremio, Bloqueado, EnManos
    <3> QED
      BY <3>5, <3>6, SoloUno
  <2> QED
    BY <2>10, <2>11
\* It asks for a pokemon where it stands.
<1>6. CASE P_RecibeCapturar
  <2>1. PICK h \in Conexiones, m \in Proximo(entP) :
          /\ pcP = "recibe" /\ entP = h /\ Tomar(h) /\ entP' = Nadie
          /\ UNCHANGED <<pendientes, colaReady, entB, entD, bloqueados, pelea, peleadores, pcD,
                      pcB, clientes, sprites, aEntrenador>>
          /\ m.accion = "CAPTURAR_POKEMON" /\ msj' = [msj EXCEPT ![h] = m]
          /\ colaBlock' = Append(colaBlock, h)
    BY <1>6 DEF P_RecibeCapturar, EnP, Punteros, PunteroPlanificador, sprites, block, deadlock,
       procesos, principal
  <2>2. m \in Proximo(h) /\ aMapa[h] # <<>>
    BY <2>1, ProximoTipo
  <2>3. Vuelta(h, {"MOVERSE", "CAPTURAR_POKEMON"})
    BY <2>1, <2>2 DEF Conversacion, Charla, EnTurno, Turno, Ida, SeFue, Nada
  <2>4. /\ m = aMapa[h][1] /\ aMapa'[h] = <<>>
        /\ \A d \in Conexiones \ {h} : aMapa'[d] = aMapa[d]
    BY <2>1, <2>2, <2>3, TomarUno DEF Vuelta
  <2>5. \A c : EnCola(colaBlock', c) <=> EnCola(colaBlock, c) \/ c = h
    BY <2>1, ColaAppend DEF TipoColas
  <2>6. EnTurno(h) /\ ~EnCola(colaReady', h) /\ ~EnTurno(h)' /\ msj'[h] = m
    BY <2>1 DEF EnTurno, Lugares, Separado, TipoInfo
  <2>7. /\ pcE[h] \notin {"fuera", "conectado", "cumplido"} /\ ~EnCola(pendientes, h)
        /\ Presente(h) => gui[Simbolo(h)] # <<>> /\ Posicionado(h)
    BY <2>6, Ubicado
  <2>8. Posicionado(h) => Posicionado(h)'
    <3>1. Posicionado(h) => Llego(h, m.pokemon)
      BY <2>1, <2>2, <2>4, <2>6 DEF Posicionado
    <3> QED
      BY <2>1, <2>6, <3>1 DEF Posicionado, Llego, Sprite, sprites
  <2>9. Sitio(h)'
    BY <2>1, <2>7, <2>8 DEF Sitios, Sitio, Presente, sprites
  <2>10. ASSUME NEW c \in Conexiones \ {h} PROVE Aparte(c)
    BY <2>1, <2>4, <2>5
    DEF Aparte, sprites, EnTurno, EnPremio, Bloqueado, EnManos, TipoInfo
  <2> QED
    BY <2>9, <2>10, SoloUno
\* It left in its turn.
<1>7. CASE P_RecibeFin
  <2>1. PICK h \in Conexiones :
          /\ pcP = "recibe" /\ entP = h /\ entP' = Nadie /\ UNCHANGED <<otros, gui, colaReady>>
          /\ UNCHANGED aEntrenador
          /\ \/ Cerrada(h) /\ GuardarNull(h) /\ UNCHANGED aMapa
             \/ \E m \in Proximo(h) : Tomar(h) /\ msj' = [msj EXCEPT ![h] = m]
    <3>1. entP \in Conexiones
      BY <1>7 DEF P_RecibeFin, EnP, Punteros, PunteroPlanificador
    <3>2. /\ pcP = "recibe" /\ entP' = Nadie
          /\ UNCHANGED <<otros, gui, colaReady, aEntrenador>>
      BY <1>7 DEF P_RecibeFin, EnP, colas, block, deadlock, procesos, principal
    <3> QED
      BY <1>7, <3>1, <3>2 DEF P_RecibeFin
  <2>2. EnTurno(h) /\ ~EnCola(colaReady, h) /\ ~Bloqueado(h)
    BY <2>1 DEF EnTurno, Lugares, Separado, Papeles, UnPapel
  <2>3. pcE[h] # "cumplido"
    BY <2>2, Ubicado
  <2>4. \A c \in Conexiones \ {h} : aMapa'[c] = aMapa[c] /\ msj'[c] = msj[c]
    BY <2>1 DEF Tomar, GuardarNull, TipoRed, TipoInfo
  <2>5. ASSUME NEW c \in Conexiones \ {h} PROVE Aparte(c)
    BY <2>1, <2>4 DEF Aparte, EnTurno, EnPremio, Bloqueado, EnManos
  <2>6. Aparte(h)
    BY <2>1, <2>2, <2>3 DEF Aparte, EnTurno, EnPremio, Bloqueado, EnManos
  <2> QED
    BY <2>5, <2>6, TodosAparte
<1> QED
  BY <1>1, <1>2, <1>3, <1>4, <1>5, <1>6, <1>7 DEF Planificar
-----------------------------------------------------------------------------
(***************************************************************************)
(* A pokemon was given, and its trainer asks for the way to the next       *)
(* pokenest (and is ready for it) or has finished or left.                 *)
(***************************************************************************)
LEMMA SiguePremiado ==
    ASSUME Sabido, Sitios, Papeles', NEW h \in Conexiones, EnPremio(h),
           UNCHANGED sprites, ~EnCola(pendientes', h), entP' # h, ~Bloqueado(h)',
           entD' = entD, aMapa'[h] = <<>>,
           \/ ~EnCola(colaReady', h)
           \/ pcE[h] # "cumplido" /\ msj'[h].accion = "UBICACION_POKENEST"
    PROVE  Sitio(h)'
<1>1. Bloqueado(h) /\ ~EnCola(pendientes, h)
  BY DEF Sabido, Papeles, UnPapel
<1>2. /\ pcE[h] \notin {"fuera", "conectado"}
      /\ Presente(h) => gui[Simbolo(h)] # <<>> /\ Posicionado(h)
  BY <1>1, Ubicado
<1>3. ~EnTurno(h)'
  BY DEF EnTurno
<1>4. Presente(h)' => Presente(h)
  BY DEF Presente, sprites
<1>5. Posicionado(h) => Posicionado(h)'
  BY <1>1, <1>3 DEF Posicionado, Llego, Sprite, sprites
<1>6. pcE[h] = "cumplido" => Retirado(h)'
  BY DEF Retirado
<1> QED
  BY <1>2, <1>4, <1>5, <1>6 DEF Sitios, Sitio, sprites

(***************************************************************************)
(* hiloBlock.                                                              *)
(***************************************************************************)
LEMMA BloquearSitios ==
    ASSUME Sabido, Sitios, Papeles', Bloquear
    PROVE  Sitios'
<1> USE DEF Sabido, Tipos, TypeOK
<1> Nadie \notin Conexiones
  BY ConstantesAssumption
<1> DEFINE otros == <<pendientes, entP, entD, bloqueados, pelea, peleadores, pcD, clientes,
                      gui, pcE, posE, movimientos>>
<1>1. CASE \/ B_Chequea \/ B_DuermeVacio \/ B_Pregunta \/ B_DuermeBlock \/ B_Despierta
           \/ B_AvisaReady \/ B_SenalReady \/ (B_Lock /\ UNCHANGED <<colaBlock, entB, pcB>>)
  <2>1. /\ UNCHANGED <<callados, sprites, clientes, pcD>>
        /\ pcB' = "recibe" <=> pcB = "recibe"
    BY <1>1 DEF B_Chequea, B_DuermeVacio, B_Pregunta, B_DuermeBlock, B_Despierta,
       B_AvisaReady, B_SenalReady, B_Lock, EnB, SenalPlanificador, callados, sprites, lugares,
       recursos, colas, red, planificador, deadlock, procesos, info, config, principal
  <2> QED
    BY <2>1, CalladoAparte
<1>2. CASE B_Lock /\ ~UNCHANGED <<colaBlock, entB, pcB>>
  <2>1. /\ pcB = "lock" /\ colaBlock # <<>>
        /\ entB' = Head(colaBlock) /\ colaBlock' = Tail(colaBlock)
        /\ UNCHANGED <<otros, colaReady, aMapa, aEntrenador, msj>>
    BY <1>2 DEF B_Lock, EnB, red, info, planificador, deadlock, procesos, principal
  <2>2. /\ entB' \in Conexiones
        /\ \A c : EnCola(colaBlock, c) <=> EnCola(colaBlock', c) \/ c = entB'
    BY <2>1, ColaTail DEF TipoColas
  <2>3. ASSUME NEW c \in Conexiones PROVE Aparte(c)
    BY <2>1, <2>2 DEF Aparte, EnTurno, EnPremio, Bloqueado, EnManos
  <2> QED
    BY <2>3, TodosAparte
<1>3. CASE B_Rebloquea
  <2>1. /\ pcB = "pokemon" /\ entB \in Conexiones /\ entB' = Nadie
        /\ colaBlock' = Append(colaBlock, entB)
        /\ UNCHANGED <<otros, colaReady, aMapa, aEntrenador, msj>>
    BY <1>3 DEF B_Rebloquea, EnB, Punteros, PunteroBlock, red, planificador, deadlock,
       procesos, principal
  <2>2. \A c : EnCola(colaBlock', c) <=> EnCola(colaBlock, c) \/ c = entB
    BY <2>1, ColaAppend DEF TipoColas
  <2>3. ASSUME NEW c \in Conexiones PROVE Aparte(c)
    BY <2>1, <2>2 DEF Aparte, EnTurno, EnPremio, Bloqueado, EnManos
  <2> QED
    BY <2>3, TodosAparte
<1>4. CASE B_Entrega
  <2>1. PICK h \in Conexiones :
          /\ pcB = "pokemon" /\ entB = h /\ entB' = h
          /\ aEntrenador' = aEntrenador \/ Enviar(h, <<msj[h], TramaPokemon(msj[h].pokemon)>>)
          /\ UNCHANGED <<otros, colaReady, colaBlock, aMapa, msj>>
    BY <1>4 DEF B_Entrega, EnB, Punteros, PunteroBlock, Entregar, colas, info, planificador,
       deadlock, procesos, principal
  <2>2. ~EnTurno(h)
    <3>1. Bloqueado(h)
      BY <2>1 DEF Bloqueado
    <3> QED
      BY <3>1 DEF Papeles, UnPapel
  <2>3. \A c \in Conexiones \ {h} : aEntrenador'[c] = aEntrenador[c]
    BY <2>1 DEF Enviar, TipoRed
  <2>4. ASSUME NEW c \in Conexiones PROVE Aparte(c)
    BY <2>1, <2>2, <2>3 DEF Aparte, EnTurno, EnPremio, Bloqueado, EnManos
  <2> QED
    BY <2>4, TodosAparte
<1>5. CASE B_Recibe \/ B_RecibeFin
  <2>1. PICK h \in Conexiones :
          /\ pcB = "recibe" /\ entB = h /\ entB' = Nadie
          /\ UNCHANGED <<otros, colaBlock, aEntrenador>>
    BY <1>5 DEF B_Recibe, B_RecibeFin, EnB, Punteros, PunteroBlock, colas, planificador,
       deadlock, procesos, principal
  <2>2. EnPremio(h) /\ Premio(h)
    BY <2>1 DEF EnPremio, Conversacion, Charla
  <2>3. /\ ~EnCola(pendientes, h) /\ entP # h /\ ~EnCola(colaReady, h)
        /\ ~EnCola(colaBlock, h) /\ ~EnManos(h)
    BY <2>1, <2>2 DEF Papeles, UnPapel, Lugares, Separado
  <2>4. ~Bloqueado(h)' /\ UNCHANGED sprites
    BY <2>1, <2>3 DEF Bloqueado, EnManos, sprites
  <2>5. CASE B_Recibe
    <3>1. PICK m \in Proximo(h) :
            /\ Tomar(h) /\ m.accion # "OBJETIVO_CUMPLIDO" /\ msj' = [msj EXCEPT ![h] = m]
            /\ colaReady' = Append(colaReady, h)
      BY <2>1, <2>5 DEF B_Recibe
    <3>2. Vuelta(h, {"UBICACION_POKENEST", "OBJETIVO_CUMPLIDO"})
      BY <2>2, <3>1, ProximoTipo DEF Premio, Entregado, SeFue, Nada
    <3>3. /\ m = aMapa[h][1] /\ aMapa'[h] = <<>>
          /\ \A d \in Conexiones \ {h} : aMapa'[d] = aMapa[d]
      BY <3>1, <3>2, TomarUno DEF Vuelta
    <3>4. msj'[h].accion = "UBICACION_POKENEST"
      BY <3>1, <3>2, <3>3 DEF Vuelta, TipoInfo
    <3>5. pcE[h] # "cumplido"
      BY <2>2, <3>1, <3>3 DEF Sitios, Sitio, Retirado, Papeles, UnPapel
    <3>6. \A c : EnCola(colaReady', c) <=> EnCola(colaReady, c) \/ c = h
      BY <3>1, ColaAppend DEF TipoColas
    <3>7. Sitio(h)'
      BY <2>1, <2>2, <2>3, <2>4, <3>3, <3>4, <3>5, SiguePremiado
    <3>8. ASSUME NEW c \in Conexiones \ {h} PROVE Aparte(c)
      BY <2>1, <3>1, <3>3, <3>6 DEF Aparte, EnTurno, EnPremio, Bloqueado, EnManos, TipoInfo
    <3> QED
      BY <3>7, <3>8, SoloUno
  <2>6. CASE B_RecibeFin
    <3>1. /\ UNCHANGED colaReady /\ \A c \in Conexiones \ {h} : msj'[c] = msj[c]
          /\ \/ Cerrada(h) /\ UNCHANGED aMapa
             \/ \E m \in Proximo(h) : Tomar(h)
      BY <2>1, <2>6 DEF B_RecibeFin, GuardarNull, TipoInfo, colas
    <3>2. aMapa'[h] = <<>> /\ \A d \in Conexiones \ {h} : aMapa'[d] = aMapa[d]
      <4>1. CASE Cerrada(h) /\ UNCHANGED aMapa
        BY <4>1 DEF Cerrada
      <4>2. ASSUME NEW m \in Proximo(h), Tomar(h)
            PROVE  aMapa'[h] = <<>> /\ \A d \in Conexiones \ {h} : aMapa'[d] = aMapa[d]
        <5>1. aMapa[h] # <<>> => Len(aMapa[h]) = 1
          BY <2>2 DEF Premio, Entregado, Vuelta, SeFue, Nada
        <5> QED
          BY <4>2, <5>1, TomarUno
      <4> QED
        BY <3>1, <4>1, <4>2
    <3>3. Sitio(h)'
      BY <2>1, <2>2, <2>3, <2>4, <3>1, <3>2, SiguePremiado
    <3>4. ASSUME NEW c \in Conexiones \ {h} PROVE Aparte(c)
      BY <2>1, <3>1, <3>2 DEF Aparte, EnTurno, EnPremio, Bloqueado, EnManos
    <3> QED
      BY <3>3, <3>4, SoloUno
  <2> QED
    BY <1>5, <2>5, <2>6
<1> QED
  BY <1>1, <1>2, <1>3, <1>4, <1>5 DEF Bloquear
-----------------------------------------------------------------------------
(***************************************************************************)
(* hiloDeadlock.                                                           *)
(***************************************************************************)
LEMMA InterbloqueoSitios ==
    ASSUME Sabido, Sitios, Papeles', Interbloqueo
    PROVE  Sitios'
<1> USE DEF Sabido, Tipos, TypeOK
<1> Nadie \notin Conexiones
  BY ConstantesAssumption
<1> DEFINE otros == <<pendientes, entP, entB, clientes, gui, pcE, posE, movimientos>>
<1>1. CASE \/ D_Chequea \/ D_EligeNull \/ D_EsperaNull \/ D_AvisaReady \/ D_SenalReady
           \/ D_EntregaNull \/ D_AvisaVacio \/ D_SenalVacio \/ D_Suelta \/ D_Despierta
  <2>1. /\ UNCHANGED <<callados, sprites, clientes>>
        /\ pcB' = "recibe" <=> pcB = "recibe"
        /\ pcD' \in {"saca", "espera"} <=> pcD \in {"saca", "espera"}
    BY <1>1 DEF D_Chequea, D_EligeNull, D_EsperaNull, D_AvisaReady, D_SenalReady,
       D_EntregaNull, D_AvisaVacio, D_SenalVacio, D_Suelta, D_Despierta, EnD,
       SenalPlanificador, SenalBlockEmpty, SenalBlock, callados, sprites, lugares, recursos,
       colas, red, planificador, block, deadlock, procesos, info, config, principal
  <2> QED
    BY <2>1, CalladoAparte
<1>2. CASE D_Lock
  <2>1. /\ pcD = "lock" /\ bloqueados' = colaBlock
        /\ UNCHANGED <<otros, colaReady, colaBlock, entD, pelea, peleadores, pcB, aMapa,
                      aEntrenador, msj>>
    BY <1>2 DEF D_Lock, EnD, colas, red, planificador, block, procesos, info, principal
  <2>2. ASSUME NEW c \in Conexiones PROVE Aparte(c)
    BY <2>1 DEF Aparte, EnTurno, EnPremio, Bloqueado, EnManos
  <2> QED
    BY <2>2, TodosAparte
<1>3. CASE D_Calcula
  <2>1. /\ pcD = "calcula" /\ bloqueados' = <<>>
        /\ UNCHANGED <<otros, colaReady, colaBlock, entD, peleadores, pcB, aMapa, aEntrenador,
                      msj>>
    BY <1>3 DEF D_Calcula, EnD, colas, red, planificador, block, procesos, info, principal
  <2>2. PICK S \in SUBSET Miembros(bloqueados) : pelea' \in Ordenes(S)
    BY <1>3 DEF D_Calcula, GetDeadlock
  <2>3. \A c : EnCola(pelea', c) <=> c \in S
    BY <2>2, OrdenesUnaVez DEF TipoDeadlock
  <2>4. \A c : EnCola(pelea', c) => EnCola(bloqueados, c)
    BY <2>3 DEF Miembros, EnCola
  <2>5. ASSUME NEW c \in Conexiones PROVE Aparte(c)
    BY <2>1, <2>4, ColaVacia DEF Aparte, EnTurno, EnPremio, Bloqueado, EnManos
  <2> QED
    BY <2>5, TodosAparte
\* Whoever fights stays where it is.
<1>4. CASE D_Desafia
  <2>1. PICK h \in Conexiones :
          /\ pcD = "desafia" /\ EnCola(pelea, h)
          /\ msj' = [msj EXCEPT ![h].accion = "BATALLA_POKEMON"]
          /\ Enviar(h, <<Con(msj[h], "BATALLA_POKEMON")>>)
          /\ UNCHANGED <<otros, colaReady, colaBlock, entD, bloqueados, pelea, peleadores, pcB,
                        aMapa>>
    <3>1. Head(pelea) \in Conexiones /\ EnCola(pelea, Head(pelea))
      BY <1>4, ColaTail DEF D_Desafia, EnD, TipoDeadlock, Punteros, PunteroDeadlock
    <3> QED
      BY <1>4, <3>1 DEF D_Desafia, EnD, colas, planificador, block, procesos, principal
  <2>2. ~EnTurno(h) /\ ~EnCola(colaReady, h) /\ entP # h
    <3>1. Bloqueado(h)
      BY <2>1 DEF Bloqueado, EnManos
    <3> QED
      BY <3>1 DEF Papeles, UnPapel
  <2>3. /\ msj'[h].pokemon = msj[h].pokemon /\ \A c \in Conexiones \ {h} : msj'[c] = msj[c]
        /\ \A c \in Conexiones \ {h} : aEntrenador'[c] = aEntrenador[c]
    BY <2>1 DEF Enviar, TipoRed, TipoInfo, MsjGuardado
  <2>4. ASSUME NEW c \in Conexiones PROVE Aparte(c)
    BY <2>1, <2>2, <2>3 DEF Aparte, EnTurno, EnPremio, Bloqueado, EnManos
  <2> QED
    BY <2>4, TodosAparte
<1>5. CASE D_Elige
  <2>1. PICK h \in Conexiones :
          /\ pcD = "elige" /\ h = Head(pelea)
          /\ pelea' = Tail(pelea) /\ peleadores' = Append(peleadores, h)
          /\ \A c : EnCola(pelea, c) <=> EnCola(pelea', c) \/ c = h
          /\ \E m \in Proximo(h) : Tomar(h)
          /\ UNCHANGED <<otros, colaReady, colaBlock, entD, bloqueados, pcB, aEntrenador, msj>>
    <3>1. pelea # <<>> /\ pelea' = Tail(pelea)
      BY <1>5 DEF D_Elige, EnD, Punteros, PunteroDeadlock
    <3>2. /\ Head(pelea) \in Conexiones
          /\ \A c : EnCola(pelea, c) <=> EnCola(pelea', c) \/ c = Head(pelea)
      BY <3>1, ColaTail DEF TipoDeadlock, Lugares, UnaVez
    <3> QED
      BY <1>5, <3>1, <3>2 DEF D_Elige, EnD, colas, planificador, block, procesos, info,
         principal
  <2>2. EnDesafio(h) /\ ~EnTurno(h) /\ ~EnCola(colaReady, h) /\ entP # h
    <3>1. EnDesafio(h)
      BY <2>1 DEF EnDesafio
    <3> QED
      BY <3>1 DEF Papeles, UnPapel
  <2>3. pcE[h] # "cumplido"
    BY <2>2, Ubicado
  <2>4. /\ \A c : EnCola(peleadores', c) <=> EnCola(peleadores, c) \/ c = h
        /\ \A c \in Conexiones \ {h} : aMapa'[c] = aMapa[c]
    BY <2>1, ColaAppend DEF TipoDeadlock, TipoRed, Tomar
  <2>5. ASSUME NEW c \in Conexiones PROVE Aparte(c)
    BY <2>1, <2>2, <2>3, <2>4 DEF Aparte, EnTurno, EnPremio, Bloqueado, EnManos
  <2> QED
    BY <2>5, TodosAparte
<1>6. CASE D_SacaCaido
  <2>1. /\ pcD = "sacaCaido" /\ pelea # <<>> /\ pelea' = Tail(pelea)
        /\ colaBlock' \in PopEntrenador(colaBlock, tamD, Simbolo(Head(pelea)))
        /\ UNCHANGED <<otros, colaReady, entD, bloqueados, peleadores, pcB, aMapa, aEntrenador,
                      msj>>
    BY <1>6 DEF D_SacaCaido, SacarDeBlock, EnD, Punteros, PunteroDeadlock, red, planificador,
       block, procesos, info, principal
  <2>2. \A c : EnCola(pelea', c) => EnCola(pelea, c)
    BY <2>1, ColaTail DEF TipoDeadlock, Lugares, UnaVez
  <2>3. \A c : EnCola(colaBlock', c) => EnCola(colaBlock, c)
    BY <2>1, ColaPop DEF TipoColas, TipoDeadlock, Lugares, UnaVez
  <2>4. ASSUME NEW c \in Conexiones PROVE Aparte(c)
    BY <2>1, <2>2, <2>3 DEF Aparte, EnTurno, EnPremio, Bloqueado, EnManos
  <2> QED
    BY <2>4, TodosAparte
\* The loser has not been told yet, and so has not died.
<1>7. CASE D_Libera
  <2>1. /\ pcD = "libera"
        /\ UNCHANGED <<otros, colaReady, colaBlock, bloqueados, pelea, pcB, aMapa, aEntrenador,
                      msj>>
    BY <1>7 DEF D_Libera, EnD, colas, red, planificador, block, procesos, info, principal
  <2>2. PICK i \in 1 .. Len(peleadores) :
          entD' = peleadores[i] /\ peleadores' = Quitar(peleadores, i)
    BY <1>7 DEF D_Libera
  <2>3. /\ entD' \in Conexiones /\ EnCola(peleadores, entD')
        /\ \A c : EnCola(peleadores', c) => EnCola(peleadores, c)
    <3>1. peleadores \in Seq(Conexiones) /\ SinRepetidos(peleadores)
      BY DEF TipoDeadlock, Lugares, UnaVez
    <3>2. peleadores[i] \in Conexiones /\ EnCola(peleadores, peleadores[i])
      BY <3>1, ElementOfSeq DEF EnCola
    <3> QED
      BY <2>2, <3>1, <3>2, ColaQuitar
  <2>4. pcE[entD'] # "muerto"
    BY <2>3 DEF Lugares, Derrotado, Visitas
  <2>5. ASSUME NEW c \in Conexiones PROVE Aparte(c)
    BY <2>1, <2>3, <2>4 DEF Aparte, EnTurno, EnPremio, Bloqueado, EnManos
  <2> QED
    BY <2>5, TodosAparte
<1>8. CASE D_Mata
  <2>1. PICK h \in Conexiones :
          /\ pcD = "mata" /\ entD = h /\ entD' = Nadie
          /\ colaBlock' \in PopEntrenador(colaBlock, tamD, Simbolo(h))
          /\ Enviar(h, <<Con(msj[h], "MUERTE_ENTRENADOR")>>)
          /\ msj' = [msj EXCEPT ![h].accion = "MUERTE_ENTRENADOR"]
          /\ UNCHANGED <<otros, colaReady, bloqueados, pelea, peleadores, pcB, aMapa>>
    BY <1>8 DEF D_Mata, SacarDeBlock, EnD, Punteros, PunteroDeadlock, planificador, block,
       procesos, principal
  <2>2. \A c : EnCola(colaBlock', c) => EnCola(colaBlock, c)
    BY <2>1, ColaPop DEF TipoColas, TipoDeadlock, Lugares, UnaVez
  <2>3. ~EnTurno(h) /\ ~EnCola(colaReady, h) /\ entP # h
    <3>1. Bloqueado(h)
      BY <2>1 DEF Bloqueado, EnManos
    <3> QED
      BY <3>1 DEF Papeles, UnPapel
  <2>4. /\ msj'[h].pokemon = msj[h].pokemon /\ \A c \in Conexiones \ {h} : msj'[c] = msj[c]
        /\ \A c \in Conexiones \ {h} : aEntrenador'[c] = aEntrenador[c]
    BY <2>1 DEF Enviar, TipoRed, TipoInfo, MsjGuardado
  <2>5. ASSUME NEW c \in Conexiones PROVE Aparte(c)
    BY <2>1, <2>2, <2>3, <2>4 DEF Aparte, EnTurno, EnPremio, Bloqueado, EnManos
  <2> QED
    BY <2>5, TodosAparte
<1>9. CASE D_Entrega
  <2>1. PICK h \in Conexiones :
          /\ pcD = "entrega" /\ pcD' = "saca" /\ EnCola(peleadores, h)
          /\ \/ aEntrenador' = aEntrenador
             \/ \E m : Enviar(h, m)
          /\ msj' = [msj EXCEPT ![h] = Con(msj[h], "CAPTURAR_POKEMON")]
          /\ UNCHANGED <<otros, colaReady, colaBlock, entD, bloqueados, pelea, peleadores, pcB,
                        aMapa>>
    <3>1. Head(peleadores) \in Conexiones /\ EnCola(peleadores, Head(peleadores))
      BY <1>9, ColaTail DEF D_Entrega, TipoDeadlock
    <3>2. aEntrenador' = aEntrenador \/ \E m : Enviar(Head(peleadores), m)
      BY <1>9 DEF D_Entrega, Entregar
    <3> QED
      BY <1>9, <3>1, <3>2 DEF D_Entrega, EnD, colas, planificador, block, procesos, principal
  <2>2. ~EnTurno(h) /\ ~EnCola(colaReady, h) /\ entP # h
    <3>1. Bloqueado(h)
      BY <2>1 DEF Bloqueado, EnManos
    <3> QED
      BY <3>1 DEF Papeles, UnPapel
  <2>3. /\ msj'[h].pokemon = msj[h].pokemon /\ \A c \in Conexiones \ {h} : msj'[c] = msj[c]
        /\ \A c \in Conexiones \ {h} : aEntrenador'[c] = aEntrenador[c]
    BY <2>1 DEF Enviar, Con, TipoRed, TipoInfo, MsjGuardado
  <2>4. ASSUME NEW c \in Conexiones PROVE Aparte(c)
    BY <2>1, <2>2, <2>3 DEF Aparte, EnTurno, EnPremio, Bloqueado, EnManos
  <2> QED
    BY <2>4, TodosAparte
<1>10. CASE D_Saca
  <2>1. /\ pcD = "saca" /\ pcD' = "espera"
        /\ colaBlock' \in PopEntrenador(colaBlock, tamD, Simbolo(Head(peleadores)))
        /\ UNCHANGED <<otros, colaReady, entD, bloqueados, pelea, peleadores, pcB, aMapa,
                      aEntrenador, msj>>
    BY <1>10 DEF D_Saca, SacarDeBlock, EnD, red, planificador, block, procesos, info, principal
  <2>2. \A c : EnCola(colaBlock', c) => EnCola(colaBlock, c)
    BY <2>1, ColaPop DEF TipoColas, TipoDeadlock, Lugares, UnaVez
  <2>3. ASSUME NEW c \in Conexiones PROVE Aparte(c)
    BY <2>1, <2>2 DEF Aparte, EnTurno, EnPremio, Bloqueado, EnManos
  <2> QED
    BY <2>3, TodosAparte
<1>11. CASE D_Espera
  <2>1. PICK h \in Conexiones :
          /\ pcD = "espera" /\ h = Head(peleadores) /\ EnCola(peleadores, h)
          /\ ~EnCola(peleadores', h)
          /\ \A c : EnCola(peleadores, c) <=> EnCola(peleadores', c) \/ c = h
          /\ UNCHANGED <<otros, colaBlock, entD, bloqueados, pelea, pcB, aEntrenador>>
    <3>1. peleadores # <<>> /\ peleadores' = Tail(peleadores)
      BY <1>11 DEF D_Espera, EnD, Punteros, PunteroDeadlock
    <3>2. /\ Head(peleadores) \in Conexiones /\ EnCola(peleadores, Head(peleadores))
          /\ ~EnCola(peleadores', Head(peleadores))
          /\ \A c : EnCola(peleadores, c) <=> EnCola(peleadores', c) \/ c = Head(peleadores)
      BY <3>1, ColaTail DEF TipoDeadlock, Lugares, UnaVez
    <3> QED
      BY <1>11, <3>1, <3>2 DEF D_Espera, EnD, planificador, block, procesos, principal
  <2>2. PICK m \in Proximo(h) :
          /\ Tomar(h) /\ msj' = [msj EXCEPT ![h] = m]
          /\ IF m.accion = "OBJETIVO_CUMPLIDO"
               THEN UNCHANGED colaReady
               ELSE colaReady' = Append(colaReady, h)
    BY <1>11, <2>1 DEF D_Espera
  <2>3. EnPremio(h) /\ Premio(h) /\ aMapa[h] # <<>>
    BY <2>1, <2>2, ProximoTipo DEF EnPremio, Conversacion, Charla
  <2>4. Vuelta(h, {"UBICACION_POKENEST", "OBJETIVO_CUMPLIDO"})
    BY <2>3 DEF Premio, Entregado, SeFue, Nada
  <2>5. /\ m = aMapa[h][1] /\ aMapa'[h] = <<>>
        /\ \A d \in Conexiones \ {h} : aMapa'[d] = aMapa[d]
    BY <2>2, <2>4, TomarUno DEF Vuelta
  <2>6. m.accion \in {"UBICACION_POKENEST", "OBJETIVO_CUMPLIDO"} /\ msj'[h] = m
    BY <2>1, <2>2, <2>4, <2>5 DEF Vuelta, TipoInfo
  <2>7. /\ \A c \in Conexiones \ {h} : EnCola(colaReady', c) <=> EnCola(colaReady, c)
        /\ m.accion = "OBJETIVO_CUMPLIDO" => ~EnCola(colaReady', h)
    <3>1. ~EnCola(colaReady, h)
      BY <2>1 DEF Lugares, Separado, EnManos
    <3>2. CASE m.accion = "OBJETIVO_CUMPLIDO"
      BY <2>2, <3>1, <3>2
    <3>3. CASE m.accion # "OBJETIVO_CUMPLIDO"
      <4>1. colaReady' = Append(colaReady, h)
        BY <2>2, <3>3
      <4> QED
        BY <3>3, <4>1, ColaAppend DEF TipoColas
    <3> QED
      BY <3>2, <3>3
  <2>8. ~EnCola(pendientes', h) /\ entP' # h /\ ~Bloqueado(h)' /\ UNCHANGED sprites
    <3>1. /\ ~EnCola(pendientes, h) /\ entP # h /\ entB # h
          /\ ~EnCola(colaBlock, h) /\ ~EnCola(pelea, h) /\ entD # h /\ bloqueados = <<>>
      BY <2>1, <2>3 DEF Papeles, UnPapel, Lugares, Separado, Cuenta, Manos, EnManos
    <3>2. ~EnCola(bloqueados, h)
      BY <3>1, ColaVacia
    <3> QED
      BY <2>1, <3>1, <3>2 DEF Bloqueado, EnManos, sprites
  <2>9. pcE[h] = "cumplido" => m.accion = "OBJETIVO_CUMPLIDO"
    BY <2>3, <2>5 DEF Sitios, Sitio, Retirado, Papeles, UnPapel
  <2>10. Sitio(h)'
    BY <2>1, <2>3, <2>5, <2>6, <2>7, <2>8, <2>9, SiguePremiado
  <2>11. ASSUME NEW c \in Conexiones \ {h} PROVE Aparte(c)
    BY <2>1, <2>2, <2>5, <2>7 DEF Aparte, EnTurno, EnPremio, Bloqueado, EnManos, TipoInfo
  <2> QED
    BY <2>10, <2>11, SoloUno
<1>12. CASE D_Rebloquea
  <2>1. PICK h \in Conexiones,
             q \in PopEntrenador(colaBlock, tamD, Simbolo(Head(peleadores))) :
          /\ pcD = "rebloquea"
          /\ \A c : EnCola(peleadores, c) <=> EnCola(peleadores', c) \/ c = h
          /\ colaBlock' = Append(q, h)
          /\ UNCHANGED <<otros, colaReady, entD, bloqueados, pelea, pcB, aMapa, aEntrenador,
                        msj>>
    <3>1. peleadores # <<>> /\ peleadores' = Tail(peleadores)
      BY <1>12 DEF D_Rebloquea, EnD, Punteros, PunteroDeadlock
    <3>2. /\ Head(peleadores) \in Conexiones
          /\ \A c : EnCola(peleadores, c) <=> EnCola(peleadores', c) \/ c = Head(peleadores)
      BY <3>1, ColaTail DEF TipoDeadlock, Lugares, UnaVez
    <3> QED
      BY <1>12, <3>1, <3>2 DEF D_Rebloquea, EnD, red, planificador, block, procesos, principal
  <2>2. \A c : EnCola(colaBlock', c) => EnCola(colaBlock, c) \/ c = h
    <3>1. q \in Seq(Conexiones) /\ \A c : EnCola(q, c) => EnCola(colaBlock, c)
      BY <2>1, ColaPop, PopEntrenadorTipo DEF TipoColas, TipoDeadlock, Lugares, UnaVez
    <3> QED
      BY <2>1, <3>1, ColaAppend
  <2>3. ASSUME NEW c \in Conexiones PROVE Aparte(c)
    BY <2>1, <2>2 DEF Aparte, EnTurno, EnPremio, Bloqueado, EnManos
  <2> QED
    BY <2>3, TodosAparte
<1> QED
  BY <1>1, <1>2, <1>3, <1>4, <1>5, <1>6, <1>7, <1>8, <1>9, <1>10, <1>11, <1>12
  DEF Interbloqueo
-----------------------------------------------------------------------------
(***************************************************************************)
(* The main thread.                                                        *)
(***************************************************************************)
\* list_remove brings nobody to the list.
LEMMA QuitarQueda ==
    ASSUME NEW S, NEW lista \in Seq(S), NEW i \in 1 .. Len(lista), NEW c,
           EnCola(Quitar(lista, i), c)
    PROVE  EnCola(lista, c)
<1> DEFINE a == SubSeq(lista, 1, i - 1)
           b == SubSeq(lista, i + 1, Len(lista))
<1>1. Len(lista) \in Nat /\ i \in Nat
  BY LenProperties
<1>2. /\ a \in Seq(S) /\ Len(a) = i - 1
      /\ \A j \in 1 .. Len(a) : a[j] = lista[j]
  BY <1>1
<1>3. /\ b \in Seq(S) /\ Len(b) = Len(lista) - i
      /\ \A j \in 1 .. Len(b) : b[j] = lista[i + j]
  BY <1>1
<1>4. PICK j \in 1 .. Len(a \o b) : (a \o b)[j] = c
  BY DEF EnCola, Quitar
<1> HIDE DEF a, b
<1>5. CASE j <= Len(a)
  <2>1. j \in 1 .. Len(a) /\ (a \o b)[j] = a[j] /\ j \in 1 .. Len(lista)
    BY <1>1, <1>2, <1>3, <1>4, <1>5
  <2> QED
    BY <1>2, <1>4, <2>1 DEF EnCola
<1>6. CASE ~(j <= Len(a))
  <2> DEFINE k == j - Len(a)
  <2>1. k \in 1 .. Len(b) /\ (a \o b)[j] = b[k] /\ i + k \in 1 .. Len(lista)
    BY <1>1, <1>2, <1>3, <1>4, <1>6
  <2> HIDE DEF k
  <2> QED
    BY <1>3, <1>4, <2>1 DEF EnCola
<1> QED
  BY <1>5, <1>6

\* It draws whoever comes and removes whoever left.
LEMMA AtenderSitios ==
    ASSUME Sabido, Sitios, Papeles', Atender
    PROVE  Sitios'
<1> USE DEF Sabido, Tipos, TypeOK
<1> Nadie \notin Conexiones
  BY ConstantesAssumption
<1> DEFINE otros == <<entP, entB, entD, bloqueados, pelea, peleadores, pcB, pcD, pcE, posE,
                      movimientos, aEntrenador>>
<1>1. CASE \/ M_Select \/ M_AceptaNull \/ M_AvisaReady \/ M_SenalReady \/ M_Revisa
           \/ M_AvisaBlock \/ M_Termina
  <2>1. /\ UNCHANGED <<callados, sprites, pcD>> /\ (pcB' = "recibe" <=> pcB = "recibe")
    BY <1>1 DEF M_Select, M_AceptaNull, M_AvisaReady, M_SenalReady, M_Revisa,
       M_AvisaBlock, M_Termina, SenalPlanificador, SenalBlock, callados, sprites, lugares,
       recursos, colas, red, planificador, block, deadlock, procesos, info, config
  <2>2. \A c \in Conexiones : EnCola(clientes', c) => EnCola(clientes, c)
    <3>1. CASE M_AvisaBlock
      <4>1. pcM = "avisaBlock" /\ clientes' = Quitar(clientes, iM)
        BY <3>1 DEF M_AvisaBlock, EnM
      <4>2. clientes \in Seq(Conexiones) /\ iM \in 1 .. Len(clientes)
        BY <4>1 DEF TipoPrincipal, Punteros, PunteroPrincipal
      <4> QED
        BY <4>1, <4>2, QuitarQueda
    <3>2. CASE ~M_AvisaBlock
      BY <1>1, <3>2 DEF M_Select, M_AceptaNull, M_AvisaReady, M_SenalReady, M_Revisa,
         M_Termina, principal
    <3> QED
      BY <3>1, <3>2
  <2> QED
    BY <2>1, <2>2, CalladoAparte
\* The sprite of whoever comes in is put where the trainer starts.
<1>2. CASE M_Acepta
  <2>1. PICK h \in Conexiones, m \in Proximo(Head(pendientes)) :
          /\ h = Head(pendientes) /\ EnCola(pendientes, h) /\ ~EnCola(pendientes', h)
          /\ \A c : EnCola(pendientes, c) <=> EnCola(pendientes', c) \/ c = h
          /\ Tomar(h) /\ msj' = [msj EXCEPT ![h] = m] /\ colaReady' = Append(colaReady, h)
          /\ clientes' = Append(clientes, h)
          /\ gui' = [gui EXCEPT ![Simbolo(h)] = Append(@, Origen)]
          /\ UNCHANGED <<otros, colaBlock>>
    <3>1. pendientes # <<>> /\ pendientes' = Tail(pendientes)
      BY <1>2 DEF M_Acepta, EnM, Punteros, PunteroPrincipal
    <3>2. /\ Head(pendientes) \in Conexiones /\ EnCola(pendientes, Head(pendientes))
          /\ ~EnCola(pendientes', Head(pendientes))
          /\ \A c : EnCola(pendientes, c) <=> EnCola(pendientes', c) \/ c = Head(pendientes)
      BY <3>1, ColaTail DEF TipoRed, Lugares, UnaVez
    <3> QED
      BY <1>2, <3>2 DEF M_Acepta, recursos, planificador, block, deadlock, procesos, config
  <2>2. m \in Proximo(h) /\ aMapa[h] # <<>>
    BY <2>1, ProximoTipo
  <2>3. Vuelta(h, {"UBICACION_POKENEST"})
    BY <2>1, <2>2 DEF Conversacion, Charla, Saludo, SeFue, Nada
  <2>4. /\ m = aMapa[h][1] /\ aMapa'[h] = <<>>
        /\ \A d \in Conexiones \ {h} : aMapa'[d] = aMapa[d]
    BY <2>1, <2>2, <2>3, TomarUno DEF Vuelta
  <2>5. msj'[h].accion = "UBICACION_POKENEST" /\ aEntrenador'[h] = <<>>
    BY <2>1, <2>3, <2>4 DEF Vuelta, TipoInfo
  <2>6. /\ \A c : EnCola(colaReady', c) <=> EnCola(colaReady, c) \/ c = h
        /\ \A c : EnCola(clientes', c) <=> EnCola(clientes, c) \/ c = h
    BY <2>1, ColaAppend DEF TipoColas, TipoPrincipal
  <2>7. /\ pcE[h] \notin {"fuera", "conectado", "cumplido"}
        /\ DePrimera(h) => gui[Simbolo(h)] = <<>>
        /\ posE[h] = Origen
        /\ pcE[h] = "muerto" => entD # h
    BY <2>1, <2>3 DEF Vuelta, Lugares, SinEmpezar, Sitios, Sitio, Retirado, Papeles, UnPapel
  <2>8. Presente(h)' => gui'[Simbolo(h)] # <<>> /\ Sprite(h)' = Origen
    <3> SUFFICES ASSUME DePrimera(h) PROVE gui'[Simbolo(h)] # <<>> /\ Sprite(h)' = Origen
      BY <2>1 DEF Presente, DePrimera
    <3>1. gui'[Simbolo(h)] = Append(<<>>, Origen)
      BY <2>1, <2>7, SimboloTipo DEF TipoInfo
    <3>2. gui'[Simbolo(h)] # <<>> /\ gui'[Simbolo(h)][1] = Origen
      BY <3>1
    <3> QED
      BY <3>2 DEF Sprite
  <2>9. Presente(h)' => Posicionado(h)'
    <3>1. ~Bloqueado(h)' /\ ~EnTurno(h)'
      BY <2>1, <2>5, <2>6 DEF Papeles, UnPapel, EnTurno
    <3> QED
      BY <2>1, <2>5, <2>7, <2>8, <3>1 DEF Posicionado
  <2>10. Sitio(h)'
    BY <2>1, <2>7, <2>8, <2>9 DEF Sitio
  <2>11. ASSUME NEW c \in Conexiones \ {h} PROVE Aparte(c)
    <3>1. DePrimera(c) => gui'[Simbolo(c)] = gui[Simbolo(c)]
      BY <2>1, <2>7, SimboloTipo, UnaVisita DEF TipoInfo
    <3> QED
      BY <2>1, <2>4, <2>6, <3>1
      DEF Aparte, EnTurno, EnPremio, Bloqueado, EnManos, TipoInfo
  <2> QED
    BY <2>10, <2>11, SoloUno
\* The sprite of whoever left goes: nothing of what it said is left to be read.
<1>3. CASE M_Borra
  <2>1. PICK h \in Conexiones :
          /\ EnCola(clientes, h) /\ Cerrada(h)
          /\ gui' = IF gui[Simbolo(h)] = <<>> THEN gui
                                              ELSE [gui EXCEPT ![Simbolo(h)] = Tail(@)]
          /\ UNCHANGED <<otros, pendientes, colaReady, colaBlock, aMapa, msj, clientes>>
    <3>1. iM \in 1 .. Len(clientes) /\ clientes[iM] \in Conexiones
      BY <1>3 DEF M_Borra, TipoPrincipal
    <3>2. EnCola(clientes, clientes[iM])
      BY <3>1 DEF EnCola
    <3> QED
      BY <1>3, <3>1, <3>2 DEF M_Borra, colas, red, planificador, block, deadlock, procesos,
         info
  <2>2. /\ pcE[h] \notin {"fuera", "conectado"} /\ ~EnCola(pendientes, h) /\ ~Presente(h)
    BY <2>1 DEF Sitios, Sitio, Cerrada, Abierta, Presente
  <2>3. Retirado(h) => Retirado(h)'
    BY <2>1 DEF Retirado, Bloqueado, EnManos
  <2>4. Sitio(h)'
    BY <2>1, <2>2, <2>3 DEF Sitios, Sitio, Presente, EnPremio
  <2>5. ASSUME NEW c \in Conexiones \ {h} PROVE Aparte(c)
    <3>1. DePrimera(c) => gui'[Simbolo(c)] = gui[Simbolo(c)]
      BY <2>1, <2>2, SimboloTipo, UnaVisita DEF TipoInfo
    <3> QED
      BY <2>1, <3>1 DEF Aparte, EnTurno, EnPremio, Bloqueado, EnManos
  <2> QED
    BY <2>4, <2>5, SoloUno
<1>4. CASE M_Saca
  <2>1. /\ UNCHANGED <<otros, gui, pendientes, colaReady, aMapa, msj, clientes>>
        /\ \A c : EnCola(colaBlock', c) => EnCola(colaBlock, c)
    <3>1. UNCHANGED <<otros, gui, pendientes, colaReady, aMapa, msj, clientes>>
      BY <1>4 DEF M_Saca, recursos, red, planificador, block, deadlock, procesos, info, config
    <3>2. tamM \in Nat /\ colaBlock \in Seq(Conexiones) /\ SinRepetidos(colaBlock)
      BY DEF TipoColas, TipoPrincipal, Lugares, UnaVez
    <3> QED
      BY <1>4, <3>1, <3>2, ColaPop DEF M_Saca
  <2>2. ASSUME NEW c \in Conexiones PROVE Aparte(c)
    BY <2>1 DEF Aparte, EnTurno, EnPremio, Bloqueado, EnManos
  <2> QED
    BY <2>2, TodosAparte
<1> QED
  BY <1>1, <1>2, <1>3, <1>4 DEF Atender
-----------------------------------------------------------------------------
(***************************************************************************)
(* The trainers.                                                           *)
(***************************************************************************)
\* A trainer that moves leaves the others where they are.
LEMMA MueveUno ==
    ASSUME Sitios, NEW h \in Conexiones, Sitio(h)', UNCHANGED <<enMapa, gui, clientes>>,
           \A c \in Conexiones \ {h} :
              /\ aMapa'[c] = aMapa[c] /\ aEntrenador'[c] = aEntrenador[c] /\ pcE'[c] = pcE[c]
              /\ posE'[c] = posE[c] /\ movimientos'[c] = movimientos[c]
    PROVE  Sitios'
<1>1. ASSUME NEW c \in Conexiones \ {h} PROVE Aparte(c)
  BY DEF Aparte, enMapa, lugares, EnTurno, EnPremio, Bloqueado, EnManos
<1> QED
  BY <1>1, SoloUno

\* The next step of its way, or the message that asks for the pokemon at its end.
LEMMA CaminaSitios ==
    ASSUME Sabido, Sitios, NEW h \in Conexiones, E_Camina(h)
    PROVE  Sitios'
<1> USE DEF Sabido, Tipos, TypeOK
<1> DEFINE m == Head(aEntrenador[h])
           destino == Ubicacion[m.pokemon]
           ubica == m.accion = "UBICACION_POKENEST"
           camino == IF ubica THEN CalcularColaMovimientos(posE[h], destino)
                              ELSE movimientos[h]
           pide == Con(m, "CAPTURAR_POKEMON")
           anda == [m EXCEPT !.accion = "MOVERSE", !.movimiento = Head(camino)]
<1>1. aMapa[h] \in Seq(Mensaje) /\ aEntrenador[h] \in Seq(MsjGuardado)
  BY DEF TipoRed
<1>2. /\ pcE[h] = "mensaje" /\ aEntrenador[h] # <<>>
      /\ m.accion \in {"UBICACION_POKENEST", "MOVERSE"}
      /\ aEntrenador' = [aEntrenador EXCEPT ![h] = Tail(@)]
      /\ UNCHANGED <<enMapa, pcE, gui, clientes>>
  BY DEF E_Camina, EnE, Leer, enMapa, lugares, recursos, colas, planificador, block,
     deadlock, info, config, principal
<1>3. IF camino = <<>>
        THEN /\ Responder(h, pide)
             /\ posE' = IF ubica THEN posE ELSE [posE EXCEPT ![h] = destino]
             /\ movimientos' = [movimientos EXCEPT ![h] = <<>>]
        ELSE /\ Responder(h, anda)
             /\ movimientos' = [movimientos EXCEPT ![h] = Tail(camino)]
             /\ UNCHANGED posE
  BY DEF E_Camina
<1>4. /\ ~EnCola(pendientes, h) /\ EnTurno(h) /\ aMapa[h] = <<>> /\ Len(aEntrenador[h]) = 1
  BY <1>2, LoQueLee
<1>5. Vida(h) = 1 => gui[Simbolo(h)] # <<>> /\ Posicionado(h)
  BY <1>2, <1>4, Ubicado DEF Presente
<1>6. m \in MsjGuardado /\ m = aEntrenador[h][1]
  BY <1>1, <1>2
<1>7. /\ pide.accion = "CAPTURAR_POKEMON" /\ pide.pokemon = m.pokemon
      /\ anda.accion = "MOVERSE" /\ anda.pokemon = m.pokemon /\ anda.movimiento = Head(camino)
  <2> DEFINE p == Head(camino)
  <2> HIDE DEF p, camino
  <2>1. [m EXCEPT !.accion = "MOVERSE", !.movimiento = p].movimiento = p
    BY <1>6 DEF MsjGuardado
  <2>2. [m EXCEPT !.accion = "MOVERSE", !.movimiento = p].accion = "MOVERSE"
    BY <1>6 DEF MsjGuardado
  <2>3. [m EXCEPT !.accion = "MOVERSE", !.movimiento = p].pokemon = m.pokemon
    BY <1>6 DEF MsjGuardado
  <2>4. pide.accion = "CAPTURAR_POKEMON" /\ pide.pokemon = m.pokemon
    BY <1>6 DEF MsjGuardado, Con
  <2> QED
    BY <2>1, <2>2, <2>3, <2>4 DEF p
<1>8. /\ destino \in Posicion /\ posE[h] \in Posicion /\ movimientos[h] \in Seq(Sentidos)
  BY <1>6, ConstantesAssumption DEF MsjGuardado, TipoProcesos
<1>9. /\ camino \in Seq(Sentidos)
      /\ Vida(h) = 1 => Andando(Sprite(h), camino, posE[h], destino)
  <2>1. CASE ubica
    <3>1. Vida(h) = 1 => Sprite(h) = posE[h]
      BY <1>2, <1>4, <1>5, <1>6, <2>1 DEF Posicionado
    <3> QED
      BY <1>8, <2>1, <3>1, AndaDesde
  <2>2. CASE ~ubica
    <3>1. Vida(h) = 1 => Camina(h, Sprite(h), m.pokemon)
      BY <1>2, <1>4, <1>5, <1>6, <2>2 DEF Posicionado
    <3> QED
      BY <1>8, <2>2, <3>1 DEF Camina
  <2> QED
    BY <2>1, <2>2
<1>10. Vida(h) = 1 /\ ubica => Sprite(h) = posE[h]
  BY <1>4, <1>5, <1>2, <1>6 DEF Posicionado
<1>11. aEntrenador'[h] = <<>> /\ \A c \in Conexiones \ {h} : aEntrenador'[c] = aEntrenador[c]
  <2>1. Tail(aEntrenador[h]) = <<>>
    BY <1>1, <1>4, UnMensaje
  <2> QED
    BY <1>2, <2>1 DEF TipoRed
<1>12. /\ ~Bloqueado(h)'
       /\ EnCola(colaReady', h) => msj'[h].accion = "UBICACION_POKENEST_OTORGADA"
  <2>1. /\ ~Bloqueado(h)
        /\ EnCola(colaReady, h) => msj[h].accion = "UBICACION_POKENEST_OTORGADA"
    BY <1>4 DEF Papeles, UnPapel, EnTurno, Lugares, Separado
  <2> QED
    BY <1>2, <2>1 DEF Bloqueado, EnManos, enMapa, lugares
<1>13. /\ Sprite(h)' = Sprite(h) /\ gui' = gui /\ pcE' = pcE /\ pendientes' = pendientes
       /\ pcE[h] = "mensaje" /\ ~EnCola(pendientes, h)
       /\ Vida(h) = 1 => gui[Simbolo(h)] # <<>>
  BY <1>2, <1>4, <1>5 DEF Sprite, enMapa, lugares
<1> HIDE DEF m, destino, ubica, camino, pide, anda
<1>14. CASE camino = <<>>
  <2>1. Vida(h) = 1 => Sprite(h) = destino
    BY <1>8, <1>9, <1>14, AndaHasta
  <2>2. /\ Vida(h) = 1 => posE'[h] = destino
        /\ \A c \in Conexiones \ {h} : posE'[c] = posE[c] /\ movimientos'[c] = movimientos[c]
    BY <1>3, <1>10, <1>14, <2>1 DEF TipoProcesos
  <2>3. /\ aMapa'[h] = Append(<<>>, pide)
        /\ \A c \in Conexiones \ {h} : aMapa'[c] = aMapa[c]
    BY <1>3, <1>4, <1>14 DEF Responder, TipoRed
  <2>4. aMapa'[h][1] = pide
    BY <2>3
  <2>5. Vida(h) = 1 => Posicionado(h)'
    BY <1>7, <1>11, <1>12, <1>13, <2>1, <2>2, <2>4 DEF Posicionado, Llego, destino
  <2>6. Sitio(h)'
    BY <1>13, <2>5 DEF Sitio, Presente
  <2> QED
    BY <1>2, <1>11, <2>2, <2>3, <2>6, MueveUno
<1>15. CASE camino # <<>>
  <2>1. Vida(h) = 1 => Andando(Mover(Sprite(h), Head(camino)), Tail(camino), posE[h], destino)
    BY <1>8, <1>9, <1>15, AndaUno
  <2>2. /\ posE' = posE /\ movimientos'[h] = Tail(camino)
        /\ \A c \in Conexiones \ {h} : movimientos'[c] = movimientos[c]
    BY <1>3, <1>15 DEF TipoProcesos
  <2>3. /\ aMapa'[h] = Append(<<>>, anda)
        /\ \A c \in Conexiones \ {h} : aMapa'[c] = aMapa[c]
    BY <1>3, <1>4, <1>15 DEF Responder, TipoRed
  <2>4. aMapa'[h][1] = anda
    BY <2>3
  <2>5. Vida(h) = 1 => Posicionado(h)'
    BY <1>7, <1>11, <1>12, <1>13, <2>1, <2>2, <2>4 DEF Posicionado, Camina, destino
  <2>6. Sitio(h)'
    BY <1>13, <2>5 DEF Sitio, Presente
  <2> QED
    BY <1>2, <1>11, <2>2, <2>3, <2>6, MueveUno
<1> QED
  BY <1>14, <1>15

\* Whoever answers where it is blocked is still on its pokenest.
LEMMA RespondeBloqueado ==
    ASSUME Sabido, Sitios, NEW h \in Conexiones, Bloqueado(h), pcE[h] = "mensaje",
           UNCHANGED <<enMapa, gui, clientes, posE, movimientos>>,
           \/ pcE'[h] = "mensaje"
           \/ pcE'[h] = "caido"
           \/ /\ pcE'[h] = "cumplido" /\ EnPremio(h)
              /\ aMapa'[h] # <<>> /\ aMapa'[h][1].accion = "OBJETIVO_CUMPLIDO"
    PROVE  Sitio(h)'
<1>1. ~EnCola(pendientes, h) /\ ~EnCola(colaReady, h) /\ ~EnTurno(h)
  BY DEF Sabido, Papeles, UnPapel, EnTurno
<1>2. Vida(h) = 1 => gui[Simbolo(h)] # <<>> /\ Posicionado(h)
  BY <1>1, Ubicado DEF Presente
<1>3. ~EnCola(pendientes', h) /\ ~EnCola(colaReady', h) /\ ~EnTurno(h)'
  BY <1>1 DEF EnTurno, enMapa, lugares
<1>4. Vida(h) = 1 => Posicionado(h)'
  <2>1. Vida(h) = 1 => Llego(h, msj[h].pokemon)
    BY <1>2 DEF Posicionado
  <2>2. Sprite(h)' = Sprite(h) /\ posE' = posE /\ msj' = msj
    BY DEF Sprite, enMapa
  <2> QED
    BY <1>3, <2>1, <2>2 DEF Posicionado, Llego
<1>5. EnPremio(h) => EnPremio(h)'
  BY DEF EnPremio, enMapa, lugares
<1> QED
  BY <1>2, <1>3, <1>4, <1>5 DEF Sitio, Presente

\* Whatever a trainer does, the sprites of the others are not its own.
LEMMA EntrenadorSitios ==
    ASSUME Sabido, Sitios, NEW h \in Conexiones, E_Conecta(h) \/ Avanza(h) \/ E_Cae(h)
    PROVE  Sitios'
<1> USE DEF Sabido, Tipos, TypeOK
<1> Nadie \notin Conexiones
  BY ConstantesAssumption
<1>1. aMapa[h] \in Seq(Mensaje) /\ aEntrenador[h] \in Seq(MsjGuardado) /\ Sitio(h)
  BY DEF TipoRed, Sitios
<1>2. CASE E_Conecta(h)
  <2>1. /\ pcE[h] = "fuera" /\ pcE' = [pcE EXCEPT ![h] = "conectado"]
        /\ pendientes' = Append(pendientes, h)
        /\ UNCHANGED <<colaReady, colaBlock, entP, entB, entD, bloqueados, pelea, peleadores,
                      pcB, pcD, msj, aMapa, aEntrenador, gui, clientes, posE, movimientos>>
    BY <1>2 DEF E_Conecta, EnE, colas, planificador, block, deadlock, info, principal
  <2>2. \A c : EnCola(pendientes', c) <=> EnCola(pendientes, c) \/ c = h
    BY <2>1, ColaAppend DEF TipoRed
  <2>3. Sitio(h)'
    BY <1>1, <2>1, <2>2 DEF Sitio, Presente, DePrimera, TipoProcesos
  <2>4. ASSUME NEW c \in Conexiones \ {h} PROVE Aparte(c)
    BY <2>1, <2>2 DEF Aparte, EnTurno, EnPremio, Bloqueado, EnManos, TipoProcesos
  <2> QED
    BY <2>3, <2>4, SoloUno
<1>3. CASE E_Saluda(h)
  <2>1. /\ pcE[h] = "conectado" /\ pcE' = [pcE EXCEPT ![h] = "mensaje"]
        /\ \A c \in Conexiones \ {h} : aMapa'[c] = aMapa[c]
        /\ UNCHANGED <<enMapa, aEntrenador, gui, clientes, posE, movimientos>>
    BY <1>3 DEF E_Saluda, EnE, enMapa, lugares, recursos, colas, planificador, block,
       deadlock, info, config, principal, TipoRed
  <2>2. EnCola(pendientes, h)
    BY <2>1 DEF Conversacion, Charla
  <2>3. pcE'[h] = "mensaje" /\ \A c \in Conexiones \ {h} : pcE'[c] = pcE[c]
    BY <2>1 DEF TipoProcesos
  <2>4. Sitio(h)'
    BY <1>1, <2>1, <2>2, <2>3 DEF Sitio, DePrimera, enMapa, lugares
  <2> QED
    BY <2>1, <2>3, <2>4, MueveUno
<1>4. CASE E_Camina(h)
  BY <1>4, CaminaSitios
<1>5. CASE E_Captura(h)
  <2> DEFINE o == Con(Head(aEntrenador[h]), "OBJETIVO_CUMPLIDO")
  <2>1. /\ pcE[h] = "mensaje" /\ aEntrenador[h] # <<>>
        /\ Head(aEntrenador[h]).accion = "CAPTURAR_POKEMON"
        /\ \/ pcE' = pcE
           \/ /\ pcE' = [pcE EXCEPT ![h] = "cumplido"]
              /\ aMapa' = [aMapa EXCEPT ![h] = Append(@, o)]
        /\ \A c \in Conexiones \ {h} : aMapa'[c] = aMapa[c] /\ aEntrenador'[c] = aEntrenador[c]
        /\ UNCHANGED <<enMapa, gui, clientes, posE, movimientos>>
    <3>1. /\ pcE[h] = "mensaje" /\ aEntrenador[h] # <<>>
          /\ Head(aEntrenador[h]).accion = "CAPTURAR_POKEMON"
          /\ UNCHANGED <<enMapa, gui, clientes, posE, movimientos>>
      BY <1>1, <1>5 DEF E_Captura, EnE, enMapa, lugares, recursos, colas, planificador, block,
         deadlock, info, config, principal
    <3>2. \/ pcE' = pcE
          \/ /\ pcE' = [pcE EXCEPT ![h] = "cumplido"]
             /\ aMapa' = [aMapa EXCEPT ![h] = Append(@, o)]
      BY <1>5 DEF E_Captura, Responder
    <3>3. \A c \in Conexiones \ {h} : aMapa'[c] = aMapa[c] /\ aEntrenador'[c] = aEntrenador[c]
      BY <1>5 DEF E_Captura, Responder, TipoRed
    <3> QED
      BY <3>1, <3>2, <3>3
  <2>2. EnPremio(h) /\ aMapa[h] = <<>>
    BY <2>1, LoQueLee
  <2>3. Bloqueado(h)
    BY <2>2 DEF Papeles, UnPapel
  <2>4. o.accion = "OBJETIVO_CUMPLIDO"
    <3>1. Head(aEntrenador[h]) \in MsjGuardado
      BY <1>1, <2>1
    <3> QED
      BY <3>1 DEF Con, MsjGuardado
  <2> HIDE DEF o
  <2>5. CASE pcE' = pcE
    <3>1. Sitio(h)'
      BY <2>1, <2>3, <2>5, RespondeBloqueado
    <3> QED
      BY <2>1, <2>5, <3>1, MueveUno
  <2>6. CASE pcE' # pcE
    <3>1. /\ pcE'[h] = "cumplido" /\ \A c \in Conexiones \ {h} : pcE'[c] = pcE[c]
          /\ aMapa'[h] = Append(<<>>, o)
      BY <2>1, <2>2, <2>6 DEF TipoProcesos, TipoRed
    <3>2. aMapa'[h] # <<>> /\ aMapa'[h][1].accion = "OBJETIVO_CUMPLIDO"
      BY <2>4, <3>1
    <3>3. Sitio(h)'
      BY <2>1, <2>2, <2>3, <3>1, <3>2, RespondeBloqueado
    <3> QED
      BY <2>1, <3>1, <3>3, MueveUno
  <2> QED
    BY <2>5, <2>6
<1>6. CASE E_Pelea(h)
  <2>1. /\ pcE[h] = "mensaje" /\ aEntrenador[h] # <<>>
        /\ Head(aEntrenador[h]).accion = "BATALLA_POKEMON"
        /\ pcE' = pcE \/ pcE' = [pcE EXCEPT ![h] = "caido"]
        /\ \A c \in Conexiones \ {h} : aMapa'[c] = aMapa[c] /\ aEntrenador'[c] = aEntrenador[c]
        /\ UNCHANGED <<enMapa, gui, clientes, posE, movimientos>>
    <3>1. /\ pcE[h] = "mensaje" /\ aEntrenador[h] # <<>>
          /\ Head(aEntrenador[h]).accion = "BATALLA_POKEMON"
          /\ pcE' = pcE \/ pcE' = [pcE EXCEPT ![h] = "caido"]
          /\ UNCHANGED <<enMapa, gui, clientes, posE, movimientos>>
      BY <1>6 DEF E_Pelea, EnE, enMapa, lugares, recursos, colas, planificador, block,
         deadlock, info, config, principal
    <3>2. \A c \in Conexiones \ {h} : aMapa'[c] = aMapa[c] /\ aEntrenador'[c] = aEntrenador[c]
      BY <1>6 DEF E_Pelea, Responder, Leer, TipoRed
    <3> QED
      BY <3>1, <3>2
  <2>2. Bloqueado(h)
    BY <2>1, LoQueLee DEF Papeles, UnPapel
  <2>3. /\ pcE'[h] \in {"mensaje", "caido"} /\ \A c \in Conexiones \ {h} : pcE'[c] = pcE[c]
    BY <2>1 DEF TipoProcesos
  <2>4. Sitio(h)'
    BY <2>1, <2>2, <2>3, RespondeBloqueado
  <2> QED
    BY <2>1, <2>3, <2>4, MueveUno
<1>7. CASE E_Muere(h) \/ E_Cae(h)
  <2>1. /\ \/ /\ pcE[h] = "mensaje" /\ aEntrenador[h] # <<>>
              /\ Head(aEntrenador[h]).accion = "MUERTE_ENTRENADOR"
              /\ pcE' = [pcE EXCEPT ![h] = "muerto"]
           \/ Abierta(h) /\ pcE' = [pcE EXCEPT ![h] = "caido"]
        /\ \A c \in Conexiones \ {h} : aMapa'[c] = aMapa[c] /\ aEntrenador'[c] = aEntrenador[c]
        /\ UNCHANGED <<enMapa, gui, clientes, posE, movimientos>>
    BY <1>7 DEF E_Muere, E_Cae, EnE, enMapa, lugares, recursos, colas, planificador, block,
       deadlock, info, config, principal, TipoRed
  <2>2. \A c \in Conexiones \ {h} : pcE'[c] = pcE[c]
    BY <2>1 DEF TipoProcesos
  <2>3. pcE'[h] = "caido" \/ (pcE'[h] = "muerto" /\ entD # h /\ ~EnCola(pendientes, h))
    <3>1. CASE pcE' = [pcE EXCEPT ![h] = "caido"]
      BY <3>1 DEF TipoProcesos
    <3>2. CASE pcE' # [pcE EXCEPT ![h] = "caido"]
      <4>1. Avisado(h) /\ ~EnCola(pendientes, h)
        BY <2>1, <3>2, LoQueLee
      <4> QED
        BY <2>1, <3>2, <4>1 DEF Avisado, TipoProcesos
    <3> QED
      BY <3>1, <3>2
  <2>4. Sitio(h)'
    BY <1>1, <2>1, <2>3 DEF Sitio, Presente, DePrimera, Abierta, enMapa, lugares
  <2> QED
    BY <2>1, <2>2, <2>4, MueveUno
<1>8. CASE E_Otro(h)
  <2>1. /\ pcE[h] = "mensaje" /\ aEntrenador[h] # <<>>
        /\ Head(aEntrenador[h]).accion \in
               {"UBICACION_POKENEST_OTORGADA", "OBJETIVO_CUMPLIDO", "POKEMON"}
    BY <1>8 DEF E_Otro, EnE
  <2> QED
    BY <2>1, LoQueLee
<1> QED
  BY <1>2, <1>3, <1>4, <1>5, <1>6, <1>7, <1>8 DEF Avanza
-----------------------------------------------------------------------------
(***************************************************************************)
(* Every step.                                                             *)
(***************************************************************************)
\* Nobody is drawn at the beginning.
LEMMA InitSitios == Init => Sitios
<1> SUFFICES ASSUME Init, NEW c \in Conexiones PROVE Sitio(c)
  BY DEF Sitios
<1>1. /\ gui = [e \in Entrenadores |-> <<>>] /\ posE = [d \in Conexiones |-> Origen]
      /\ pcE = [d \in Conexiones |-> "fuera"] /\ clientes = <<>>
  BY DEF Init
<1>2. gui[Simbolo(c)] = <<>> /\ posE[c] = Origen /\ pcE[c] = "fuera" /\ ~EnCola(clientes, c)
  BY <1>1, SimboloTipo, ColaVacia
<1> QED
  BY <1>2 DEF Sitio, Presente

\* One lemma for each process.
LEMMA NextSitios == Sabido /\ Sitios /\ Papeles' /\ [Next]_vars => Sitios'
<1> SUFFICES ASSUME Sabido, Sitios, Papeles', [Next]_vars PROVE Sitios'
  OBVIOUS
<1>1. CASE Recargar \/ UNCHANGED vars
  <2>1. UNCHANGED <<lugares, aMapa, aEntrenador, pcE, msj, sprites, clientes, pcB, pcD>>
    BY <1>1 DEF Recargar, vars, lugares, sprites, recursos, colas, red, planificador, block,
       deadlock, procesos, info, principal
  <2>2. ASSUME NEW c \in Conexiones PROVE Aparte(c)
    BY <2>1 DEF Aparte, lugares, sprites, EnTurno, EnPremio, Bloqueado, EnManos
  <2> QED
    BY <2>2, TodosAparte
<1> QED
  BY <1>1, PlanificarSitios, BloquearSitios, InterbloqueoSitios, AtenderSitios,
     EntrenadorSitios DEF Next

\* Sitios is an invariant where Sabido is.
LEMMA Spec_Sitios ==
    Spec /\ []Disciplina /\ []PeleaResuelta /\ MismoAlgoritmo => []Sitios
<1>1. Init => Sitios
  BY InitSitios
<1>2. Sabido /\ Sabido' /\ Sitios /\ [Next]_vars => Sitios'
  BY NextSitios DEF Sabido
<1> QED
  BY <1>1, <1>2, Spec_Sabido, PTL DEF Spec
-----------------------------------------------------------------------------
(***************************************************************************)
(* Where the sprites are.                                                  *)
(***************************************************************************)
\* Those that wait for a pokemon, or are about to be given one.
Pidiendo(c) == EnCola(colaBlock, c) \/ (entB = c /\ pcB = "pokemon")

EnSuSitio(c) == gui[Simbolo(c)] # <<>> /\ gui[Simbolo(c)][1] = Ubicacion[msj[c].pokemon]

\* Whoever is blocked has arrived.
LEMMA SitiosPosicion == Sabido /\ Sitios => PosicionAlCapturar
<1> SUFFICES ASSUME Sabido, Sitios, NEW c \in Conexiones, Pidiendo(c), Vida(c) = 1,
                    pcE[c] = "mensaje"
             PROVE  EnSuSitio(c)
  BY DEF PosicionAlCapturar, Pidiendo, EnSuSitio
<1>1. Bloqueado(c)
  BY DEF Pidiendo, Bloqueado
<1>2. Presente(c)
  BY DEF Presente
<1> QED
  BY <1>1, <1>2, Ubicado DEF Posicionado, Llego, Sprite, EnSuSitio

(***************************************************************************)
(* For any map: whatever the number of lives, trainers and pokenests, and  *)
(* with fights and trainers that are killed, whoever waits for a pokemon   *)
(* in its first life, and has not left, has its sprite on the pokenest it  *)
(* asked for: the way that the trainer computed, the steps that it sent    *)
(* and those that the map drew agree, in the same histories as             *)
(* Spec_PedidoRespuesta.                                                   *)
(***************************************************************************)
THEOREM Spec_PosicionAlCapturar ==
    Spec /\ []Disciplina /\ []PeleaResuelta /\ MismoAlgoritmo => []PosicionAlCapturar
<1>1. Sabido /\ Sitios => PosicionAlCapturar
  BY SitiosPosicion
<1> QED
  BY <1>1, Spec_Sabido, Spec_Sitios, PTL

(***************************************************************************)
(* And without fights, with one algorithm, nothing is assumed of the       *)
(* locks.                                                                  *)
(***************************************************************************)
THEOREM SinBatallasPosicion ==
    ASSUME Batallas \subseteq {FALSE}, UnSoloAlgoritmo
    PROVE  Spec => []PosicionAlCapturar
  BY Spec_SinBatallas, Spec_PeleaResuelta, Spec_MismoAlgoritmo, Spec_PosicionAlCapturar, PTL
=============================================================================
