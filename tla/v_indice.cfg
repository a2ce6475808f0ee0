SPECIFICATION Spec
CONSTANTS
  Usuario = {ana, beto, caro}
  ana = ana
  beto = beto
  caro = caro
  Ruta <- MCRuta
  MaxVersion = 1
  MaxSec = 1
  RESERVED = {}
  NADA = NADA
  Descuidos = {"se_quita"}
  MaxArchivos = 1
  MaxCompartidos = 9
CONSTRAINT Acotado
INVARIANTS
  IndiceExacto
