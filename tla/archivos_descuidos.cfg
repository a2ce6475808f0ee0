SPECIFICATION Spec
CONSTANTS
  Usuario = {ana, beto}
  ana = ana
  beto = beto
  Ruta <- MCRutaRaiz
  MaxVersion = 2
  MaxSec = 0
  RESERVED = {}
  NADA = NADA
  Descuidos = {"comparte_papelera", "cambia_propietario", "omite_propietario", "lista_desconocido", "se_quita", "renombra_y_quita"}
  MaxArchivos = 1
  MaxCompartidos = 2
CONSTRAINT Acotado
SYMMETRY Simetria
INVARIANTS
  ConsistenciaHastaCaer
PROPERTIES
  AccesoListado
CHECK_DEADLOCK FALSE
