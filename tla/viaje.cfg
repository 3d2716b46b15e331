SPECIFICATION Spec
CONSTANTS
  m1 = m1
  m2 = m2
  Mensajes = {"UBICACION", "CAPTURAR", "POKEMON", "BATALLA", "MUERTE"}
  Cuerpo <- DosPartes
  TamInt = 1
  CabeceraEntera = TRUE
  Nulo = Nulo
  Ninguno = Ninguno
  Basura = Basura
  HojaDeViaje <- DosMapas
  Cuantos <- DosYUno
  VidasIniciales = 2
  Lineas <- UnaLetra
  Senales = 2
  Fallos = 1
CHECK_DEADLOCK FALSE
INVARIANTS TypeOK JuegaConVida MaestroConMedallas BillAlDia
PROPERTIES CumpleCanal ViajeTermina
