SPECIFICATION Spec
CONSTANTS
  m1 = m1
  m2 = m2
  Mensajes = {"UBICACION", "CAPTURAR", "POKEMON", "BATALLA", "MUERTE"}
  Cuerpo <- DosPartes
  TamInt = 1
  CabeceraEntera = TRUE
  Nulo = Nulo
  Ninguno = Ninguno
  Basura = Basura
  HojaDeViaje <- DosMapas
  Cuantos <- DosYUno
  VidasIniciales = 1
  Lineas <- UnaLetra
  Senales = 0
  Fallos = 0
CHECK_DEADLOCK FALSE
INVARIANT RendidoNoEsMaestro
