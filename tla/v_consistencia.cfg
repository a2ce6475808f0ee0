SPECIFICATION Spec
CONSTANTS
  Usuario = {ana, beto}
  ana = ana
  beto = beto
  Ruta <- MCRuta
  MaxVersion = 2
  MaxSec = 1
  RESERVED = {}
  NADA = NADA
  Descuidos = {"borra_papelera"}
  MaxArchivos = 2
  MaxCompartidos = 9
CONSTRAINT Acotado
INVARIANTS
  Consistencia
