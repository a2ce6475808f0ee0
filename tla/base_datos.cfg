SPECIFICATION Spec
CONSTANTS
  k1 = k1
  k2 = k2
  k3 = k3
  a = a
  b = b
  Clave = {k1, k2, k3}
  Valor = {a, b}
  NADA = NADA
  MaxAcciones = 3
INVARIANTS TypeOK Indistinguibles
PROPERTIES TodoONada
