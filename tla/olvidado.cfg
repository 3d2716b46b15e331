SPECIFICATION Spec
SYMMETRY Iguales
CONSTANTS
  e1 = e1
  e2 = e2
  A = A
  B = B
  a1 = a1
  a2 = a2
  b1 = b1
  b2 = b2
  b3 = b3
  Nadie = Nadie
  Entrenadores = {e1, e2}
  Vidas = 1
  Pokenests = {A}
  Ubicacion <- SoloA
  Pokemons = {a1, a2}
  Nido <- NidoA
  Objetivos <- ObjetivosIguales
  Quantum = 2
  Algoritmos = {"RR"}
  Batallas = {FALSE}
  Recargas = 0
  Caidas = 0
CHECK_DEADLOCK FALSE
INVARIANT NingunoOlvidado
