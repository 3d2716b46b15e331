SPECIFICATION Spec
CONSTANTS
  e1 = e1
  e2 = e2
  A = A
  B = B
  a1 = a1
  a2 = a2
  b1 = b1
  b2 = b2
  b3 = b3
  Nadie = Nadie
  Entrenadores = {e1, e2}
  Vidas = 1
  Pokenests = {A, B}
  Ubicacion <- Lejos
  Pokemons = {a1, b1}
  Nido <- NidoAB
  Objetivos <- ObjetivosCruzados
  Quantum = 2
  Algoritmos = {"RR", "SRDF"}
  Batallas = {FALSE}
  Recargas = 1
  Caidas = 0
CHECK_DEADLOCK FALSE
INVARIANTS TypeOK PosicionAlCapturar TurnoAcotado PlanificadorEncuentra PedidoRespuesta
