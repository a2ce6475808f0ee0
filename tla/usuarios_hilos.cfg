SPECIFICATION Spec
CONSTANTS
  u1 = u1
  u2 = u2
  h1 = h1
  h2 = h2
  Usuario = {u1, u2}
  Hilo = {h1, h2}
  NADIE = NADIE
  MaxEntradas = 1
  MaxReinicios = 1
INVARIANTS TypeOK AltaOrdenada AltaEntera
SYMMETRY Simetria
CHECK_DEADLOCK FALSE
