SPECIFICATION Spec
SYMMETRY Iguales
CONSTANTS
  e1 = e1
  e2 = e2
  e3 = e3
  A = A
  B = B
  C = C
  Bloqueados = {e1, e2, e3}
  Recursos = {A, B, C}
  Unidades = {0, 1}
CHECK_DEADLOCK FALSE
INVARIANTS AbrazoDetectado ListadoConMotivo
