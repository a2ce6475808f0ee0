------------------------------- MODULE Claves -------------------------------
(***************************************************************************)
(* The names under which UDrive keeps a file.                              *)
(*                                                                         *)
(* A file lives at <dueno>/<ruta>, and its metadata are stored in the      *)
(* metadata database under that same path; once deleted it lives at        *)
(* <dueno>/!trash/<ruta with / turned into !>!<sec>.  As no component of a *)
(* path holds the reserved character (NombresSinReservado), the flattened  *)
(* name determines the path, and both keys are the record                  *)
(* [dueno, ruta, sec], with sec = VIVA for the live file.                  *)
(***************************************************************************)
EXTENDS Integers, FiniteSets, Sequences, SequencesExt

CONSTANTS Usuario,      \* the usernames, registered or not
          Ruta,         \* the file paths inside a drive: folders, then the filename
          MaxVersion,   \* bound: versions of one file
          MaxSec,       \* bound: times one path may sit in the trash at once
          RESERVED,     \* the names that hold the reserved character '!'
          NADA          \* no metadata under a key

ASSUME RutaAssumption == Ruta \subseteq Seq(STRING) \ {<<>>}

ASSUME NombresSinReservado ==
  \A r \in Ruta : \A i \in DOMAIN r : r[i] \notin RESERVED

\* A path names a file or a folder, not both.
ASSUME ArchivoNoCarpeta == \A r \in Ruta, s \in Ruta : ~IsStrictPrefix(r, s)

ASSUME MaxVersionAssumption == MaxVersion \in Nat \ {0}

ASSUME MaxSecAssumption == MaxSec \in Nat

VIVA == -1

Secuencia == 0..MaxSec

Version == 1..MaxVersion

Clave == [dueno : Usuario, ruta : Ruta, sec : Secuencia \cup {VIVA}]

MetadatoArchivo ==
  [propietario : Usuario, ultimaVersion : Version, usuarios : SUBSET Usuario]

ASSUME NadaAssumption == NADA \notin MetadatoArchivo

Viva(k) == k.sec = VIVA

\* The folder of a drive (a path below <dueno>/) that holds the file, and all
\* the folders a drive can have; <<>> is the drive's own root.
CarpetaDe(ruta) == SubSeq(ruta, 1, Len(ruta) - 1)

Carpeta == {<<>>} \cup UNION {Prefixes(CarpetaDe(r)) : r \in Ruta}

\* mandarArchivoATrash: the key a live file gets in its owner's trash.
EnPapelera(k, n) == [k EXCEPT !.sec = n]

\* restaurar: the path a file in the trash comes back to, in the drive of the
\* user who asks for it.
ClaveReal(username, k) == [dueno |-> username, ruta |-> k.ruta, sec |-> VIVA]

\* pathConNuevoFilename: a renamed file stays in its folder.
MismaCarpeta(k1, k2) ==
  k1.dueno = k2.dueno /\ k1.sec = k2.sec /\ CarpetaDe(k1.ruta) = CarpetaDe(k2.ruta)
=============================================================================
