SPECIFICATION Spec
CONSTANTS
  Usuario = {ana, beto}
  ana = ana
  beto = beto
  Ruta <- MCRuta
  MaxVersion = 2
  MaxSec = 1
  RESERVED = {}
  NADA = NADA
  Descuidos = {}
  MaxArchivos = 3
  MaxCompartidos = 9
CONSTRAINT Acotado
SYMMETRY Simetria
INVARIANTS
  TypeOK
  Consistencia
  PropietarioCoincide
  IndiceExacto
  NuncaCae
PROPERTIES
  NadaSePierde
  VersionesCrecen
  PapeleraInaccesible
  ImplementaUnidad
