SPECIFICATION FairSpec
CONSTANTS
  cantThreads = 3
  MaxPedidos = 2
INVARIANTS TypeOK NadaBorradoEnUso
PROPERTIES CierraAlFin
CHECK_DEADLOCK FALSE
