SPECIFICATION Spec
CONSTANTS
  h1 = h1
  h2 = h2
  Nadie = Nadie
  Hilos = {h1, h2}
  Nombres = {"a", "c", "d", "x", "unNombreDemasiadoLargo", "p."}
  Largos = {"unNombreDemasiadoLargo"}
  ConPunto = {"p."}
  MuerenEn = {"Lector"}
  CallanEn = {"Solitario", "EnUso", "Lleno"}
  NBloques = 4
  NArchivos = 3
  TamBloque = 2
  MemoriaPrevia = 0
  Escenarios <- TodosLosCasos
  Pedidos <- PedidosDe
  MaxTamanio = 8
CHECK_DEADLOCK FALSE
INVARIANTS TypeOK SinCompartir CadenaOcupada Cerrojos RetornoVeraz
PROPERTIES AislaArchivos RepartoConCuidado TodaLlamadaVuelve
