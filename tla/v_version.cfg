SPECIFICATION Spec
CONSTANTS
  Usuario = {ana, beto}
  ana = ana
  beto = beto
  Ruta <- MCRuta
  MaxVersion = 3
  MaxSec = 2
  RESERVED = {}
  NADA = NADA
  Hilo = {h1, h2}
  h1 = h1
  h2 = h2
  Unidades = {ana}
  Iniciales <- MCIniciales
  VersionInicial = 2
  MaxPedidos = 2
  MaxCaidas = 0
INVARIANTS
  SubeSobreLaUltima
CHECK_DEADLOCK FALSE
