SPECIFICATION Spec
CONSTANTS
  h1 = h1
  h2 = h2
  Nadie = Nadie
  Hilos = {h1, h2}
  Nombres = {"a", "c", "d", "x", "unNombreDemasiadoLargo", "p."}
  Largos = {"unNombreDemasiadoLargo"}
  ConPunto = {"p."}
  MuerenEn = {}
  CallanEn = {}
  NBloques = 4
  NArchivos = 3
  TamBloque = 2
  MemoriaPrevia <- FIN
  Escenarios = {"MismoDirectorio"}
  Pedidos <- PedidosDe
  MaxTamanio = 6
CHECK_DEADLOCK FALSE
PROPERTIES DirectorioVacio
