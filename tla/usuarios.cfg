SPECIFICATION FairSpec
CONSTANTS
  u1 = u1
  u2 = u2
  h1 = h1
  Usuario = {u1, u2}
  Hilo = {h1}
  NADIE = NADIE
  MaxEntradas = 3
  MaxReinicios = 1
INVARIANTS UnaAlta ListaCompleta FotoDelPerfil UnTokenPorSesion NuncaLanza
PROPERTIES TodoTermina
