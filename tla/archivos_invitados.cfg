SPECIFICATION Spec
CONSTANTS
  Usuario = {ana, beto, caro}
  ana = ana
  beto = beto
  caro = caro
  Ruta <- MCRuta
  MaxVersion = 1
  MaxSec = 1
  RESERVED = {}
  NADA = NADA
  Descuidos = {"borra_papelera"}
  MaxArchivos = 2
  MaxCompartidos = 9
CONSTRAINT Acotado
SYMMETRY Simetria
INVARIANTS
  IndiceExacto
  PropietarioCoincide
  NuncaCae
PROPERTIES
  AccesoListado
