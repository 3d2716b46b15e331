SPECIFICATION SpecJusta
CONSTANTS
  e1 = e1
  e2 = e2
  A = A
  B = B
  a1 = a1
  a2 = a2
  b1 = b1
  b2 = b2
  b3 = b3
  Nadie = Nadie
  Entrenadores = {e1, e2}
  Vidas = 1
  Pokenests = {A}
  Ubicacion <- UnPaso
  Pokemons = {a1}
  Nido <- NidoA
  Objetivos <- ObjetivosUnicos
  Quantum = 1
  Algoritmos = {"RR"}
  Batallas = {FALSE}
  Recargas = 0
  Caidas = 0
CHECK_DEADLOCK FALSE
PROPERTY ReadyEsAtendida
