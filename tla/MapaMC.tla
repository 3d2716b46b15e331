------------------------------- MODULE MapaMC -------------------------------
(***************************************************************************)
(* Small maps for TLC.                                                     *)
(***************************************************************************)
EXTENDS Mapa, TLC

CONSTANTS e1, e2, A, B, a1, a2, b1, b2, b3

\* The steps after which hiloBlock and hiloDeadlock still exclude each other: what the
\* threads promise about the blocked trainers is checked along them (run "exclusion"
\* shows that there are others).
EnExclusion == Exclusion'

\* In one history one process is killed or one trainer plays its second life.
CaeORevive ==
    /\ EnExclusion
    /\ Cardinality({c \in Conexiones : pcE'[c] = "caido"})
         + Cardinality({c \in Conexiones : Vida(c) > 1 /\ pcE'[c] # "fuera"}) <= 1

\* Two pokenests with one pokemon each; A is two steps away.
NidoAB == [p \in Pokemons |-> IF p \in {a1, a2} THEN A ELSE B]
Lejos == [n \in Pokenests |-> IF n = A THEN <<1, 1>> ELSE Origen]

\* Each trainer wants what the other takes first.
ObjetivosCruzados == [e \in {e1, e2} |-> IF e = e1 THEN <<A, B>> ELSE <<B, A>>]

\* One pokenest with two pokemons, and two trainers that want both: they are alike,
\* and so are the pokemons.
NidoA == [p \in Pokemons |-> A]
SoloA == [n \in {A} |-> Origen]
UnPaso == [n \in Pokenests |-> IF n = A THEN <<0, 1>> ELSE Origen]
ObjetivosUnicos == [e \in Entrenadores |-> <<A>>]
ObjetivosIguales == [e \in Entrenadores |-> <<A, A>>]
Iguales == Permutations({e1, e2}) \cup Permutations({a1, a2})

\* Two trainers that start to play, with one pokemon for the two and no fights.
InitTurnos == Init /\ batalla = FALSE

\* The wait of CicloSeRompe, from where it is complete: the three pokemons of B, three
\* goals each, e1 has one and e2 has two, and both are blocked for the next;
\* hiloPlanificador and hiloBlock sleep, hiloDeadlock is about to look and main is in
\* select().
Suyos == [e \in {e1, e2} |-> IF e = e1 THEN {b1} ELSE {b2, b3}]

Restan == [e \in {e1, e2} |-> IF e = e1 THEN <<B>> ELSE <<>>]

InitCiclo ==
    /\ libres = [n \in {A, B} |-> IF n = A THEN {a1} ELSE {}]
    /\ cantidad = [n \in {A, B} |-> IF n = A THEN 1 ELSE 0]
    /\ atrapados = [c \in Conexiones |->
                        [n \in {A, B} |-> IF n = A THEN {} ELSE Suyos[Simbolo(c)]]]
    /\ destruidos = {}
    /\ colaReady = <<>> /\ colaBlock = <<<<e1, 1>>, <<e2, 1>>>>
    /\ msj = [c \in Conexiones |-> Pedido("CAPTURAR_POKEMON", B)]
    /\ quantum = [c \in Conexiones |-> 0]
    /\ gui = [e \in Entrenadores |-> <<Origen>>]
    /\ aMapa = [c \in Conexiones |-> <<>>] /\ aEntrenador = [c \in Conexiones |-> <<>>]
    /\ pendientes = <<>>
    /\ pcE = [c \in Conexiones |-> "mensaje"]
    /\ objetivos = [c \in Conexiones |-> Restan[Simbolo(c)]]
    /\ movimientos = [c \in Conexiones |-> <<>>]
    /\ posE = [c \in Conexiones |-> Origen]
    /\ mochila = [e \in Entrenadores |-> Cardinality(Suyos[e])]
    /\ algoritmo = "RR" /\ batalla = TRUE /\ recargas = Recargas
    /\ duenio = "nadie"
    /\ pcP = "dormido" /\ entP = Nadie /\ algP = algoritmo
    /\ pcB = "dormidoBlock" /\ entB = Nadie
    /\ pcD = "chequea" /\ bloqueados = <<>> /\ pelea = <<>> /\ peleadores = <<>>
    /\ caido = FALSE /\ entD = Nadie /\ tamD = 0
    /\ pcM = "select" /\ clientes = colaBlock /\ descriptores = {} /\ iM = 1
    /\ entM = Nadie /\ tamM = 0
    /\ fallo = "no"

SpecTurnos == (InitTurnos \/ InitCiclo) /\ [][Next]_vars /\ Justicia
=============================================================================
