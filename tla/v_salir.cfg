SPECIFICATION Spec
CONSTANTS
  u1 = u1
  h1 = h1
  h2 = h2
  Usuario = {u1}
  Hilo = {h1, h2}
  NADIE = NADIE
  MaxEntradas = 1
  MaxReinicios = 0
INVARIANTS NuncaLanza
