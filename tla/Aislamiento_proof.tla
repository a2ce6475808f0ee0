-------------------------- MODULE Aislamiento_proof --------------------------
(* What the threads of ArchivosHilos do to files that no two of them meet on, that *)
(* the uploads they answered 201 are kept and that the owners in the metadata are  *)
(* right, for any threads, requests and crashes.                                   *)
EXTENDS ArchivosHilos_proof, SequenceTheorems

\* The steps at which the metadata of the file worked on are there, if nobody else is
\* at work on it; and those at which they are not.
ConMetadato == {"version", "sube_get", "sube_put", "borra_get", "secuencia", "invitado",
                "lote_escribe", "purga_get", "purga_erase", "rest_get", "rest_mueve",
                "rest_lote", "rest_escribe", "act_get", "permiso", "perm_get", "perm_indice",
                "perm_lote", "perm_escribe", "act_put", "ren_mueve", "ren_indice",
                "ren_modify", "ren_escribe"}

SinMetadato == {"carga_get", "carga_put", "mueve", "purga_rm"}

\* The steps of a loop of renames from clave to destino, and those after it.
Moviendo == {"rest_mueve", "ren_mueve"}
TrasMover == {"rest_lote", "rest_escribe", "ren_indice", "ren_modify", "ren_escribe"}

\* The steps that use the version read with the metadata, which is still the last.
ConLeida == {"secuencia", "invitado", "lote_escribe", "rest_mueve", "rest_lote",
             "rest_escribe", "permiso", "perm_get", "perm_indice", "perm_lote",
             "perm_escribe", "act_put", "ren_mueve", "ren_indice", "ren_modify", "ren_escribe"}

Borrando == {"borra_get", "secuencia", "invitado", "lote_escribe", "mueve", "recorre", "rm"}
Subiendo == {"version", "carpeta", "hay", "sube_get", "sube_put", "escribe", "carga_get",
             "carga_put"}
Restaurando == {"rest_carpeta", "puedo", "rest_get", "rest_mueve", "rest_lote",
                "rest_escribe", "deshace"}
Cambiando == {"act_get", "permiso", "perm_get", "perm_indice", "perm_lote", "perm_escribe",
              "act_put", "ren_mueve", "ren_indice", "ren_modify", "ren_escribe"}

\* What a request keeps from its start: the files it may work on are those of toca.
Forma(r) ==
  /\ IF r.paso = "busca" THEN r.toca = {}
                         ELSE Archivo(r.clave) \in r.toca /\ Archivo(r.destino) \in r.toca
  /\ r.paso \in Subiendo \cup Borrando \cup Cambiando => Viva(r.clave)
  /\ r.paso \in {"recorre", "rm"} => r.borra
  /\ r.paso \in Borrando /\ r.borra =>
       /\ r.clave.dueno = r.user
       /\ r.claves \subseteq EnCarpeta(r.user, CarpetaDe(r.clave.ruta))
       /\ r.toca = {Archivo(c) : c \in Bajo(r.user, CarpetaDe(r.clave.ruta))}
  /\ r.paso \in {"invitado", "lote_escribe", "mueve"} => ~Viva(r.destino)
  /\ r.paso \in Restaurando => ~Viva(r.clave) /\ r.destino = ClaveReal(r.user, r.clave)
  /\ r.paso \in Cambiando => MismaCarpeta(r.clave, r.destino)
  /\ r.paso \in Cambiando \cap (Moviendo \cup TrasMover) => r.destino # r.clave
  /\ r.paso \in {"borra_get", "secuencia", "invitado", "lote_escribe", "rest_carpeta",
                 "puedo", "rest_get", "act_get", "permiso", "perm_get", "perm_indice",
                 "perm_lote", "perm_escribe"} => r.n = 1

\* The stores as parameters: D the disk, M the metadata, C the folders.

\* The versions of k on disk are those from a to b.
Tiene(D, k, a, b) == \A v \in Version : D[k][v] # NADA <=> a <= v /\ v <= b

EnSuCarpeta(C, k) == CarpetaDe(k.ruta) \in C[k.dueno]

\* The stores agree on k.
Acorde(D, M, C, k) ==
  IF M[k] = NADA THEN Tiene(D, k, 1, 0)
  ELSE /\ M[k].ultimaVersion \in Version
       /\ Tiene(D, k, 1, M[k].ultimaVersion)
       /\ Viva(k) => EnSuCarpeta(C, k)

\* The files that a request has half written.
Exento(r) ==
  IF r.paso \in Moviendo \cup TrasMover \cup {"mueve"} THEN {r.clave, r.destino}
  ELSE IF r.paso \in {"escribe", "carga_get", "carga_put", "purga_rm"} THEN {r.clave}
  ELSE {}

\* How far a request has come, as the stores have it, if nobody else touches its files:
\* whether the metadata of its file are there, and what it has read of them,
SabeMetadatos(r, M) ==
  /\ r.paso \in ConMetadato => M[r.clave] # NADA
  /\ r.paso \in SinMetadato => M[r.clave] = NADA
  /\ r.paso \in ConLeida =>
       r.leido # NADA /\ r.leido.ultimaVersion = M[r.clave].ultimaVersion
  /\ r.paso \in {"perm_indice", "perm_lote", "perm_escribe", "rest_lote", "rest_escribe"} =>
       r.nuevo # NADA /\ r.nuevo.ultimaVersion = M[r.clave].ultimaVersion

\* the version that an upload adds,
SabeSubir(r, D, M, C) ==
  /\ r.paso \in {"carpeta", "hay", "escribe"} => (r.primera <=> M[r.clave] = NADA)
  /\ r.paso \in {"carpeta", "hay", "escribe"} /\ r.primera => r.n = 1
  /\ r.paso \in {"carpeta", "hay"} /\ ~r.primera =>
       r.n \in Version /\ r.n = M[r.clave].ultimaVersion + 1
  /\ r.paso \in {"sube_get", "sube_put"} =>
       r.n \in Version /\ r.n = M[r.clave].ultimaVersion + 1
  /\ r.paso \in {"version", "sube_get", "sube_put"} => ~r.primera
  /\ r.paso = "sube_put" => r.leido # NADA /\ r.leido.ultimaVersion = r.n
  /\ r.paso = "escribe" => /\ r.n \in Version /\ Tiene(D, r.clave, 1, r.n - 1)
                           /\ ~r.primera => M[r.clave].ultimaVersion = r.n
  /\ r.paso \in {"carga_get", "carga_put"} =>
       r.n = 1 /\ Tiene(D, r.clave, 1, 1) /\ D[r.clave][1] = <<r.clave, 1, r.id>>
  /\ r.paso \in {"hay", "sube_get", "sube_put", "escribe", "carga_get", "carga_put"} =>
       EnSuCarpeta(C, r.clave)

\* how far a deletion has moved the file, or what is left of the folder,
SabeBorrar(r, D, M) ==
  /\ r.paso \in {"invitado", "lote_escribe"} => Tiene(D, r.destino, 1, 0)
  /\ r.paso = "mueve" =>
       /\ M[r.destino] # NADA /\ r.leido # NADA
       /\ r.leido.ultimaVersion = M[r.destino].ultimaVersion
       /\ M[r.destino].ultimaVersion \in Version /\ r.n \in 1..M[r.destino].ultimaVersion
       /\ Tiene(D, r.clave, r.n, M[r.destino].ultimaVersion)
       /\ Tiene(D, r.destino, 1, r.n - 1)
  /\ r.paso = "rm" =>
       \A x \in Bajo(r.user, CarpetaDe(r.clave.ruta)) : Tiene(D, x, 1, 0)

\* how far a restoration or a renaming has.
SabeMover(r, D, M, C) ==
  /\ r.paso # "deshace"
  /\ r.paso \in {"rest_get"} \cup Moviendo \cup TrasMover => M[r.destino] = NADA
  /\ r.paso \in {"puedo", "rest_get"} \cup Moviendo \cup TrasMover =>
       EnSuCarpeta(C, r.destino)
  /\ r.paso \in Moviendo =>
       /\ M[r.clave].ultimaVersion \in Version
       /\ r.n \in 1..(M[r.clave].ultimaVersion + 1)
       /\ Tiene(D, r.clave, r.n, M[r.clave].ultimaVersion)
       /\ Tiene(D, r.destino, 1, r.n - 1)
  /\ r.paso \in TrasMover =>
       /\ M[r.clave].ultimaVersion \in Version
       /\ Tiene(D, r.clave, 1, 0)
       /\ Tiene(D, r.destino, 1, M[r.clave].ultimaVersion)

Fiel(r, D, M, C) ==
  SabeMetadatos(r, M) /\ SabeSubir(r, D, M, C) /\ SabeBorrar(r, D, M) /\ SabeMover(r, D, M, C)

\* The request knows where its files stand, and the rest of them agree.
Cumple(r, D, M, C) ==
  /\ Fiel(r, D, M, C)
  /\ \A k \in Clave : Archivo(k) \in r.toca /\ k \notin Exento(r) => Acorde(D, M, C, k)

Limpio(r) == r.toca \cap sucios = {}

\* Two requests on one file have disturbed all of theirs, and a request has disturbed
\* all of its files or none.
Separados ==
  /\ \A g \in EnCurso, h \in EnCurso : g # h /\ hilo[g].toca \cap hilo[h].toca # {} =>
       hilo[g].toca \subseteq sucios
  /\ \A h \in EnCurso : Limpio(hilo[h]) \/ hilo[h].toca \subseteq sucios

Aislados ==
  /\ \A h \in EnCurso : Forma(hilo[h])
  /\ Separados
  /\ \A h \in EnCurso : Limpio(hilo[h]) => Cumple(hilo[h], disco, meta, carpetas)
  /\ \A k \in Clave : Archivo(k) \notin sucios \cup UNION {hilo[h].toca : h \in Hilo} =>
       Acorde(disco, meta, carpetas, k)

-----------------------------------------------------------------------------
(* What other requests do to other files does not count *)

LEMMA AcordeSigue ==
  ASSUME NEW k \in Clave, NEW D, NEW M, NEW C, NEW E, NEW N, NEW B, Acorde(D, M, C, k),
         E[k] = D[k], N[k] = M[k],
         Viva(k) /\ EnSuCarpeta(C, k) => EnSuCarpeta(B, k)
  PROVE  Acorde(E, N, B, k)
BY DEF Acorde, Tiene

LEMMA FielSigue ==
  ASSUME NEW r \in Pedido, Forma(r), NEW D, NEW M, NEW C, NEW E, NEW N, NEW B,
         Fiel(r, D, M, C),
         \A k \in Clave : Archivo(k) \in r.toca =>
           /\ E[k] = D[k] /\ N[k] = M[k]
           /\ Viva(k) /\ EnSuCarpeta(C, k) => EnSuCarpeta(B, k)
  PROVE  Fiel(r, E, N, B)
<1>0. r.clave \in Clave /\ r.destino \in Clave
  BY DEF Pedido
<1>2. CASE r.paso = "busca"
  BY <1>2 DEF Fiel, SabeMetadatos, SabeSubir, SabeBorrar, SabeMover, ConMetadato, SinMetadato,
              ConLeida, Moviendo, TrasMover
<1>3. CASE r.paso # "busca"
  <2>1. /\ E[r.clave] = D[r.clave] /\ N[r.clave] = M[r.clave]
        /\ E[r.destino] = D[r.destino] /\ N[r.destino] = M[r.destino]
    BY <1>0, <1>3 DEF Forma
  <2>2. \A x, a, b : E[x] = D[x] => (Tiene(D, x, a, b) => Tiene(E, x, a, b))
    BY DEF Tiene
  <2>3. SabeMetadatos(r, N)
    BY <2>1 DEF Fiel, SabeMetadatos
  <2>4. SabeSubir(r, E, N, B)
    <3>1. r.paso \in {"hay", "sube_get", "sube_put", "escribe", "carga_get", "carga_put"} =>
            (EnSuCarpeta(C, r.clave) => EnSuCarpeta(B, r.clave))
      BY <1>0, <1>3 DEF Forma, Subiendo
    <3> QED
      BY <2>1, <2>2, <3>1 DEF Fiel, SabeSubir
  <2>5. SabeBorrar(r, E, N)
    <3>1. ASSUME r.paso = "rm", NEW x \in Bajo(r.user, CarpetaDe(r.clave.ruta))
          PROVE  E[x] = D[x]
      <4>1. Archivo(x) \in r.toca /\ x \in Clave
        BY <3>1 DEF Forma, Borrando, Bajo
      <4> QED
        BY <4>1
    <3> QED
      BY <2>1, <2>2, <3>1 DEF Fiel, SabeBorrar
  <2>6. SabeMover(r, E, N, B)
    <3>1. r.paso \in {"puedo", "rest_get"} \cup Moviendo \cup TrasMover => Viva(r.destino)
      BY DEF Forma, Moviendo, TrasMover, Restaurando, Cambiando, ClaveReal, MismaCarpeta, Viva
    <3>2. r.paso \in {"puedo", "rest_get"} \cup Moviendo \cup TrasMover =>
            (EnSuCarpeta(C, r.destino) => EnSuCarpeta(B, r.destino))
      BY <1>0, <1>3, <3>1 DEF Forma
    <3> QED
      BY <2>1, <2>2, <3>2 DEF Fiel, SabeMover
  <2> QED
    BY <2>3, <2>4, <2>5, <2>6 DEF Fiel
<1> QED
  BY <1>2, <1>3

\* What is to be known of the files of r when the thread goes on as q.
Resulta(r, q, D, M, C) ==
  IF q = OCIOSO THEN \A k \in Clave : Archivo(k) \in r.toca => Acorde(D, M, C, k)
                ELSE Cumple(q, D, M, C)

\* A thread goes on: what it does to its files is for it to know, if they are clean.
LEMMA Avanza ==
  ASSUME Inv, Inv', Aislados, NEW h \in Hilo, hilo[h] # OCIOSO, NEW q, Sigue(h, q),
         sucios' = sucios,
         q # OCIOSO => Forma(q) /\ q.toca = hilo[h].toca,
         \A k \in Clave : Archivo(k) \notin hilo[h].toca =>
           /\ disco'[k] = disco[k] /\ meta'[k] = meta[k]
           /\ Viva(k) /\ EnSuCarpeta(carpetas, k) => EnSuCarpeta(carpetas', k),
         Limpio(hilo[h]) => Resulta(hilo[h], q, disco', meta', carpetas')
  PROVE  Aislados'
<1>1. /\ hilo'[h] = q /\ \A g \in Hilo : g # h => hilo'[g] = hilo[g]
      /\ \A g \in Hilo : hilo[g] # OCIOSO => hilo[g] \in Pedido
  BY DEF Sigue, Inv, Hilos
<1>2. \A g \in Hilo : hilo'[g] # OCIOSO =>
        hilo[g] # OCIOSO /\ hilo'[g].toca = hilo[g].toca
  BY <1>1
<1>3. \A g \in Hilo : hilo'[g] # OCIOSO => Forma(hilo'[g])
  BY <1>1 DEF Aislados, EnCurso
<1>4. Separados'
  BY <1>2 DEF Aislados, Separados, EnCurso, Limpio
<1>5. ASSUME NEW g \in Hilo, hilo'[g] # OCIOSO, hilo'[g].toca \cap sucios' = {}
      PROVE  Cumple(hilo'[g], disco', meta', carpetas')
  <2>1. CASE g = h
    BY <1>1, <1>5, <2>1 DEF Resulta, Limpio
  <2>2. CASE g # h
    <3> DEFINE r == hilo[g]
    <3>1. r \in Pedido /\ r # OCIOSO /\ hilo'[g] = r /\ Forma(r) /\ Limpio(r)
          /\ Cumple(r, disco, meta, carpetas)
      BY <1>1, <1>5, <2>2 DEF Aislados, EnCurso, Limpio
    <3>2. r.toca \cap hilo[h].toca = {}
      BY <2>2, <3>1 DEF Aislados, Separados, EnCurso, Limpio
    <3>3. \A k \in Clave : Archivo(k) \in r.toca =>
            /\ disco'[k] = disco[k] /\ meta'[k] = meta[k]
            /\ Viva(k) /\ EnSuCarpeta(carpetas, k) => EnSuCarpeta(carpetas', k)
      BY <3>2
    <3> HIDE DEF r
    <3>4. Fiel(r, disco', meta', carpetas')
      BY <3>1, <3>3, FielSigue DEF Cumple
    <3>5. \A k \in Clave : Archivo(k) \in r.toca /\ k \notin Exento(r) =>
            Acorde(disco', meta', carpetas', k)
      BY <3>1, <3>3, AcordeSigue DEF Cumple
    <3> QED
      BY <3>1, <3>4, <3>5 DEF Cumple
  <2> QED
    BY <2>1, <2>2
<1>6. ASSUME NEW k \in Clave, Archivo(k) \notin sucios',
             \A g \in Hilo : Archivo(k) \notin hilo'[g].toca
      PROVE  Acorde(disco', meta', carpetas', k)
  <2>1. CASE Archivo(k) \in hilo[h].toca
    <3>1. Limpio(hilo[h])
      BY <1>6, <2>1 DEF Aislados, Separados, EnCurso
    <3>2. q = OCIOSO
      BY <1>1, <1>6, <2>1
    <3> QED
      BY <2>1, <3>1, <3>2 DEF Resulta
  <2>2. CASE Archivo(k) \notin hilo[h].toca
    <3>1. \A g \in Hilo : Archivo(k) \notin hilo[g].toca
      BY <1>1, <1>6, <2>2
    <3>2. Acorde(disco, meta, carpetas, k)
      BY <1>6, <3>1 DEF Aislados
    <3> QED
      BY <2>2, <3>2, AcordeSigue
  <2> QED
    BY <2>1, <2>2
<1> QED
  BY <1>3, <1>4, <1>5, <1>6 DEF Aislados, EnCurso, Limpio

\* The same for a step that only reads.
LEMMA LeeAvanza ==
  ASSUME Inv, Inv', Aislados, NEW h \in Hilo, hilo[h] # OCIOSO, NEW q, Lee(h, q),
         q # OCIOSO => Forma(q) /\ q.toca = hilo[h].toca,
         Cumple(hilo[h], disco, meta, carpetas) =>
           /\ q # OCIOSO => Fiel(q, disco, meta, carpetas)
           /\ \A k \in Exento(hilo[h]) :
                 q = OCIOSO \/ k \notin Exento(q) => Acorde(disco, meta, carpetas, k)
  PROVE  Aislados'
<1>1. UNCHANGED <<carpetas, disco, meta, sucios>> /\ Sigue(h, q)
  BY DEF Lee
<1>2. Limpio(hilo[h]) => Resulta(hilo[h], q, disco, meta, carpetas)
  <2> SUFFICES ASSUME Limpio(hilo[h]) PROVE Resulta(hilo[h], q, disco, meta, carpetas)
    OBVIOUS
  <2>1. Cumple(hilo[h], disco, meta, carpetas)
    BY DEF Aislados, EnCurso
  <2> QED
    BY <2>1 DEF Resulta, Cumple
<1> QED
  BY <1>1, <1>2, Avanza
-----------------------------------------------------------------------------
(* Requests *)

\* A request is taken: on clean files that nobody else works on it finds them in order.
LEMMA TomaAislada ==
  ASSUME Inv, Aislados, NEW h \in Hilo, hilo[h] = OCIOSO, NEW r, r # OCIOSO, Toma(h, r),
         Forma(r), Exento(r) = {},
         (\A k \in Clave : Archivo(k) \in r.toca => Acorde(disco, meta, carpetas, k)) =>
           Fiel(r, disco, meta, carpetas)
  PROVE  Aislados'
<1> DEFINE otros == UNION {hilo[g].toca : g \in {g \in Hilo : hilo[g].toca \cap r.toca # {}}}
<1>1. /\ UNCHANGED <<carpetas, disco, meta>>
      /\ hilo'[h] = r /\ \A g \in Hilo : g # h => hilo'[g] = hilo[g]
  BY DEF Toma, Sigue, Inv, Hilos
<1>2. \/ otros = {} /\ r.toca \cap sucios = {} /\ sucios' = sucios
      \/ sucios' = sucios \cup (r.toca \cup otros)
  BY DEF Toma, Ensucia
<1>3. \A g \in Hilo : hilo[g].toca \cap r.toca # {} => hilo[g].toca \subseteq otros
  OBVIOUS
<1>4. \A x \in otros : \E g \in Hilo : x \in hilo[g].toca /\ hilo[g].toca \cap r.toca # {}
  OBVIOUS
<1> HIDE DEF otros
<1>o. OCIOSO.toca = {}
  BY DEF OCIOSO
<1>5. \A g \in Hilo : hilo'[g] # OCIOSO => Forma(hilo'[g])
  BY <1>1 DEF Aislados, EnCurso
<1>6. sucios \subseteq sucios'
  BY <1>2
<1>7. \A f \in Hilo, g \in Hilo :
        f # g /\ hilo'[f] # OCIOSO /\ hilo'[g] # OCIOSO /\ hilo'[f].toca \cap hilo'[g].toca # {} =>
          hilo'[f].toca \subseteq sucios'
  <2> SUFFICES ASSUME NEW f \in Hilo, NEW g \in Hilo, f # g, hilo'[f] # OCIOSO,
                      hilo'[g] # OCIOSO, hilo'[f].toca \cap hilo'[g].toca # {}
               PROVE  hilo'[f].toca \subseteq sucios'
    OBVIOUS
  <2>1. CASE f # h /\ g # h
    BY <1>1, <1>6, <2>1 DEF Aislados, Separados, EnCurso
  <2>2. CASE f = h
    BY <1>1, <1>2, <1>3, <2>2
  <2>3. CASE g = h
    BY <1>1, <1>2, <1>3, <2>3
  <2> QED
    BY <2>1, <2>2, <2>3
<1>8. ASSUME NEW g \in Hilo, hilo'[g] # OCIOSO
      PROVE  hilo'[g].toca \cap sucios' = {} \/ hilo'[g].toca \subseteq sucios'
  <2>1. CASE g = h
    BY <1>1, <1>2, <2>1
  <2>2. CASE g # h
    <3>1. hilo'[g] = hilo[g] /\ (Limpio(hilo[g]) \/ hilo[g].toca \subseteq sucios)
      BY <1>1, <1>8, <2>2 DEF Aislados, Separados, EnCurso
    <3>2. CASE Limpio(hilo[g]) /\ hilo[g].toca \cap r.toca = {}
      <4>1. \A x \in otros : x \notin hilo[g].toca
        <5> SUFFICES ASSUME NEW x \in otros, x \in hilo[g].toca PROVE FALSE
          OBVIOUS
        <5>1. PICK f \in Hilo : x \in hilo[f].toca /\ hilo[f].toca \cap r.toca # {}
          BY <1>4
        <5>2. f # g /\ f \in EnCurso /\ g \in EnCurso
          BY <1>8, <1>o, <3>1, <3>2, <5>1 DEF EnCurso
        <5>3. hilo[g].toca \subseteq sucios
          BY <5>1, <5>2 DEF Aislados, Separados
        <5> QED
          BY <3>2, <5>3 DEF Limpio
      <4> QED
        BY <1>2, <3>1, <3>2, <4>1 DEF Limpio
    <3> QED
      BY <1>2, <1>3, <1>6, <3>1, <3>2
  <2> QED
    BY <2>1, <2>2
<1>9. ASSUME NEW g \in Hilo, hilo'[g] # OCIOSO, hilo'[g].toca \cap sucios' = {}
      PROVE  Cumple(hilo'[g], disco, meta, carpetas)
  <2>1. CASE g = h
    <3>1. \A k \in Clave : Archivo(k) \in r.toca =>
            Archivo(k) \notin sucios \cup UNION {hilo[f].toca : f \in Hilo}
      BY <1>1, <1>2, <1>3, <1>9, <2>1
    <3>2. \A k \in Clave : Archivo(k) \in r.toca => Acorde(disco, meta, carpetas, k)
      BY <3>1 DEF Aislados
    <3> QED
      BY <1>1, <2>1, <3>2 DEF Cumple
  <2>2. CASE g # h
    BY <1>1, <1>6, <1>9, <2>2 DEF Aislados, EnCurso, Limpio
  <2> QED
    BY <2>1, <2>2
<1>10. ASSUME NEW k \in Clave, Archivo(k) \notin sucios',
              \A g \in Hilo : Archivo(k) \notin hilo'[g].toca
       PROVE  Acorde(disco, meta, carpetas, k)
  BY <1>1, <1>6, <1>10, <1>o DEF Aislados
<1> QED
  BY <1>1, <1>5, <1>7, <1>8, <1>9, <1>10 DEF Aislados, Separados, EnCurso, Limpio

\* A file in order, all of it there or nothing.
LEMMA AcordeExiste ==
  ASSUME Inv, NEW k \in Clave, Acorde(disco, meta, carpetas, k)
  PROVE  /\ existeArchivo(k) <=> existeMetadato(k)
         /\ existeMetadato(k) => meta[k] \in Metadato /\ meta[k].ultimaVersion \in Version
         /\ existeMetadato(k) /\ Viva(k) => EnSuCarpeta(carpetas, k)
         /\ ~existeMetadato(k) => Tiene(disco, k, 1, 0)
         /\ ~HayEnDisco(k) => ~existeMetadato(k)
<1>1. 1 \in Version
  BY MaxVersionAssumption DEF Version
<1>2. meta[k] \in Metadato \cup {NADA}
  BY DEF Inv, Tipos
<1>3. CASE meta[k] = NADA
  BY <1>1, <1>3 DEF Acorde, Tiene, existeArchivo, existeMetadato
<1>4. CASE meta[k] # NADA
  <2>1. meta[k].ultimaVersion \in Version /\ Tiene(disco, k, 1, meta[k].ultimaVersion)
    BY <1>4 DEF Acorde
  <2>2. disco[k][1] # NADA
    BY <1>1, <2>1 DEF Tiene, Version
  <2> QED
    BY <1>1, <1>2, <1>4, <2>1, <2>2 DEF Acorde, existeArchivo, existeMetadato, HayEnDisco
<1> QED
  BY <1>3, <1>4

\* The folder of a file is its own prefix.
LEMMA CarpetaEnSi ==
  ASSUME NEW k \in Clave
  PROVE  /\ IsPrefix(CarpetaDe(k.ruta), CarpetaDe(k.ruta))
         /\ CarpetaDe(k.ruta) \in Prefixes(CarpetaDe(k.ruta))
<1>1. k.ruta \in Seq(STRING) /\ k.ruta # <<>>
  BY RutaAssumption DEF Clave
<1>2. Len(k.ruta) \in Nat /\ Len(k.ruta) >= 1
  BY <1>1
<1>3. CarpetaDe(k.ruta) \in Seq(STRING)
  BY <1>1, <1>2, SubSeqProperties DEF CarpetaDe
<1>4. CarpetaDe(k.ruta) = SubSeq(CarpetaDe(k.ruta), 1, Len(CarpetaDe(k.ruta)))
  BY <1>3, SubSeqFull
<1>5. Len(CarpetaDe(k.ruta)) \in 0..Len(CarpetaDe(k.ruta))
  BY <1>3, LenProperties
<1> QED
  BY <1>3, <1>4, <1>5 DEF Prefixes, IsPrefix

LEMMA PideAislado == ASSUME Inv, Aislados, NEW h \in Hilo, Pide(h) PROVE Aislados'
<1>0. hilo[h] = OCIOSO
  BY DEF Pide
<1>1. PICK u \in Usuario :
        \/ \E k \in {c \in Clave : c.dueno \in Unidades} :
             \/ \E v \in Version, force \in BOOLEAN : PideSubir(h, u, k, v, force)
             \/ PideBorrar(h, u, k)
             \/ PidePurgar(h, u, k)
             \/ PideRestaurar(h, u, k)
             \/ \E c \in Clave, lista \in SUBSET Usuario : PideActualizar(h, u, k, c, lista)
        \/ \E dir \in Carpeta : PideBorrarCarpeta(h, u, dir)
        \/ PideBuscar(h, u)
  BY DEF Pide
<1>2. ASSUME NEW k \in Clave, NEW v \in Version, NEW force \in BOOLEAN,
             PideSubir(h, u, k, v, force)
      PROVE  Aislados'
  <2> DEFINE t == Tarea("carpeta", u, k, k)
             n == IF force THEN 1 ELSE v
             q == [En("version", t) EXCEPT !.n = n, !.fuerza = force]
             s == [t EXCEPT !.primera = TRUE]
             r == IF Existe(k) THEN q ELSE s
  <2>1. Toma(h, r) /\ Viva(k)
    BY <1>2 DEF PideSubir
  <2>2. /\ r.paso = IF Existe(k) THEN "version" ELSE "carpeta"
        /\ r.clave = k /\ r.destino = k /\ r.toca = {Archivo(k)} /\ r # OCIOSO /\ ~r.borra
        /\ ~Existe(k) => r.primera /\ r.n = 1
        /\ Existe(k) => ~r.primera
    BY DEF Tarea, En, OCIOSO
  <2> HIDE DEF r
  <2>3. Forma(r) /\ Exento(r) = {}
    BY <2>1, <2>2 DEF Forma, Exento, Subiendo, Borrando, Restaurando, Cambiando, Moviendo,
                      TrasMover
  <2>4. ASSUME \A c \in Clave : Archivo(c) \in r.toca => Acorde(disco, meta, carpetas, c)
        PROVE  Fiel(r, disco, meta, carpetas)
    <3>1. existeArchivo(k) <=> existeMetadato(k)
      BY <2>2, <2>4, AcordeExiste
    <3>2. Existe(k) <=> meta[k] # NADA
      BY <3>1 DEF Existe, existeMetadato
    <3> QED
      BY <2>2, <3>2 DEF Fiel, SabeMetadatos, SabeSubir, SabeBorrar, SabeMover, ConMetadato,
                        SinMetadato, ConLeida, Moviendo, TrasMover
  <2> QED
    BY <1>0, <2>1, <2>2, <2>3, <2>4, TomaAislada
<1>3. ASSUME NEW k \in Clave, PideBorrar(h, u, k) PROVE Aislados'
  <2> DEFINE r == Tarea("borra_get", u, k, k)
  <2>1. Toma(h, r) /\ Viva(k) /\ meta[k] # NADA
    BY <1>3 DEF PideBorrar, Existe, existeMetadato
  <2>2. /\ r.paso = "borra_get" /\ r.clave = k /\ r.destino = k /\ r.n = 1 /\ ~r.borra
        /\ r.toca = {Archivo(k)} /\ r # OCIOSO
    BY DEF Tarea, OCIOSO
  <2> HIDE DEF r
  <2>3. Forma(r) /\ Exento(r) = {}
    BY <2>1, <2>2 DEF Forma, Exento, Subiendo, Borrando, Restaurando, Cambiando, Moviendo,
                      TrasMover
  <2>4. Fiel(r, disco, meta, carpetas)
    BY <2>1, <2>2 DEF Fiel, SabeMetadatos, SabeSubir, SabeBorrar, SabeMover, ConMetadato,
                      SinMetadato, ConLeida, Moviendo, TrasMover
  <2> QED
    BY <1>0, <2>1, <2>2, <2>3, <2>4, TomaAislada
<1>4. ASSUME NEW k \in Clave, PidePurgar(h, u, k) PROVE Aislados'
  <2> DEFINE r == Tarea("purga_get", u, k, k)
  <2>1. Toma(h, r) /\ meta[k] # NADA
    BY <1>4 DEF PidePurgar, Existe, existeMetadato
  <2>2. /\ r.paso = "purga_get" /\ r.clave = k /\ r.destino = k
        /\ r.toca = {Archivo(k)} /\ r # OCIOSO
    BY DEF Tarea, OCIOSO
  <2> HIDE DEF r
  <2>3. Forma(r) /\ Exento(r) = {}
    BY <2>1, <2>2 DEF Forma, Exento, Subiendo, Borrando, Restaurando, Cambiando, Moviendo,
                      TrasMover
  <2>4. Fiel(r, disco, meta, carpetas)
    BY <2>1, <2>2 DEF Fiel, SabeMetadatos, SabeSubir, SabeBorrar, SabeMover, ConMetadato,
                      SinMetadato, ConLeida, Moviendo, TrasMover
  <2> QED
    BY <1>0, <2>1, <2>2, <2>3, <2>4, TomaAislada
<1>5. ASSUME NEW k \in Clave, PideRestaurar(h, u, k) PROVE Aislados'
  <2> DEFINE r == Tarea("rest_carpeta", u, k, ClaveReal(u, k))
  <2>1. Toma(h, r) /\ ~Viva(k)
    BY <1>5 DEF PideRestaurar
  <2>2. /\ r.paso = "rest_carpeta" /\ r.clave = k /\ r.destino = ClaveReal(u, k) /\ r.n = 1
        /\ r.user = u /\ r.toca = {Archivo(k), Archivo(ClaveReal(u, k))} /\ r # OCIOSO
    BY DEF Tarea, OCIOSO
  <2> HIDE DEF r
  <2>3. Forma(r) /\ Exento(r) = {}
    BY <2>1, <2>2 DEF Forma, Exento, Subiendo, Borrando, Restaurando, Cambiando, Moviendo,
                      TrasMover
  <2>4. Fiel(r, disco, meta, carpetas)
    BY <2>1, <2>2 DEF Fiel, SabeMetadatos, SabeSubir, SabeBorrar, SabeMover, ConMetadato,
                      SinMetadato, ConLeida, Moviendo, TrasMover
  <2> QED
    BY <1>0, <2>1, <2>2, <2>3, <2>4, TomaAislada
<1>6. ASSUME NEW k \in Clave, NEW c \in Clave, NEW lista \in SUBSET Usuario,
             PideActualizar(h, u, k, c, lista)
      PROVE  Aislados'
  <2> DEFINE r == [Tarea("act_get", u, k, c) EXCEPT !.lista = lista]
  <2>1. Toma(h, r) /\ Viva(k) /\ MismaCarpeta(k, c) /\ meta[k] # NADA
    BY <1>6 DEF PideActualizar, existeMetadato
  <2>2. /\ r.paso = "act_get" /\ r.clave = k /\ r.destino = c /\ r.n = 1
        /\ r.toca = {Archivo(k), Archivo(c)} /\ r # OCIOSO
    BY DEF Tarea, OCIOSO
  <2> HIDE DEF r
  <2>3. Forma(r) /\ Exento(r) = {}
    BY <2>1, <2>2 DEF Forma, Exento, Subiendo, Borrando, Restaurando, Cambiando, Moviendo,
                      TrasMover
  <2>4. Fiel(r, disco, meta, carpetas)
    BY <2>1, <2>2 DEF Fiel, SabeMetadatos, SabeSubir, SabeBorrar, SabeMover, ConMetadato,
                      SinMetadato, ConLeida, Moviendo, TrasMover
  <2> QED
    BY <1>0, <2>1, <2>2, <2>3, <2>4, TomaAislada
<1>7. ASSUME NEW dir \in Carpeta, PideBorrarCarpeta(h, u, dir) PROVE Aislados'
  <2>1. PICK k \in EnCarpeta(u, dir) :
          Toma(h, [Tarea("recorre", u, k, k) EXCEPT
                     !.borra = TRUE,
                     !.claves = {c \in EnCarpeta(u, dir) : HayEnDisco(c)},
                     !.toca = {Archivo(c) : c \in Bajo(u, dir)}])
    BY <1>7 DEF PideBorrarCarpeta
  <2> DEFINE r == [Tarea("recorre", u, k, k) EXCEPT
                     !.borra = TRUE,
                     !.claves = {c \in EnCarpeta(u, dir) : HayEnDisco(c)},
                     !.toca = {Archivo(c) : c \in Bajo(u, dir)}]
  <2>2. /\ r.paso = "recorre" /\ r.clave = k /\ r.destino = k /\ r.user = u /\ r.borra
        /\ r.claves \subseteq EnCarpeta(u, dir)
        /\ r.toca = {Archivo(c) : c \in Bajo(u, dir)} /\ r # OCIOSO
    BY DEF Tarea, OCIOSO
  <2>3. Toma(h, r)
    BY <2>1
  <2> HIDE DEF r
  <2>4. k \in Clave /\ Viva(k) /\ k.dueno = u /\ CarpetaDe(k.ruta) = dir
    BY DEF EnCarpeta
  <2>5. IsPrefix(dir, dir)
    BY <2>4, CarpetaEnSi
  <2>6. k \in Bajo(u, dir)
    BY <2>4, <2>5 DEF Bajo
  <2>7. Forma(r) /\ Exento(r) = {}
    BY <2>2, <2>4, <2>6 DEF Forma, Exento, Subiendo, Borrando, Restaurando, Cambiando,
                            Moviendo, TrasMover
  <2>8. Fiel(r, disco, meta, carpetas)
    BY <2>2 DEF Fiel, SabeMetadatos, SabeSubir, SabeBorrar, SabeMover, ConMetadato,
                SinMetadato, ConLeida, Moviendo, TrasMover
  <2> QED
    BY <1>0, <2>2, <2>3, <2>7, <2>8, TomaAislada
<1>8. CASE PideBuscar(h, u)
  <2>1. PICK k \in permisos[u] :
          Toma(h, [Tarea("busca", u, k, k) EXCEPT !.claves = permisos[u], !.toca = {}])
    BY <1>8 DEF PideBuscar
  <2> DEFINE r == [Tarea("busca", u, k, k) EXCEPT !.claves = permisos[u], !.toca = {}]
  <2>2. r.paso = "busca" /\ r.toca = {} /\ r # OCIOSO
    BY DEF Tarea, OCIOSO
  <2>3. Toma(h, r)
    BY <2>1
  <2> HIDE DEF r
  <2>4. Forma(r) /\ Exento(r) = {}
    BY <2>2 DEF Forma, Exento, Subiendo, Borrando, Restaurando, Cambiando, Moviendo, TrasMover
  <2>5. Fiel(r, disco, meta, carpetas)
    BY <2>2 DEF Fiel, SabeMetadatos, SabeSubir, SabeBorrar, SabeMover, ConMetadato,
                SinMetadato, ConLeida, Moviendo, TrasMover
  <2> QED
    BY <1>0, <2>2, <2>3, <2>4, <2>5, TomaAislada
<1> QED
  BY <1>1, <1>2, <1>3, <1>4, <1>5, <1>6, <1>7, <1>8

-----------------------------------------------------------------------------
(* How a step is shown to keep files apart *)

USE DEF ConMetadato, SinMetadato, ConLeida, Moviendo, TrasMover, Subiendo, Borrando,
        Restaurando, Cambiando

LEMMA EnTarea ==
  ASSUME Inv, Aislados, NEW h \in Hilo, hilo[h] # OCIOSO
  PROVE  /\ hilo[h] \in Pedido /\ Forma(hilo[h])
         /\ hilo[h].clave \in Clave /\ hilo[h].destino \in Clave /\ hilo[h].n \in Int
BY DEF Inv, Hilos, Pedido, Aislados, EnCurso

\* A step that only reads and ends the request.
LEMMA LeeTermina ==
  ASSUME Inv, Inv', Aislados, NEW h \in Hilo, hilo[h] # OCIOSO, Lee(h, OCIOSO),
         Cumple(hilo[h], disco, meta, carpetas) =>
           \A k \in Exento(hilo[h]) : Acorde(disco, meta, carpetas, k)
  PROVE  Aislados'
BY LeeAvanza

\* A step that writes what the stores have of the files that r works on.
LEMMA EscribeAvanza ==
  ASSUME Inv, Inv', Aislados, NEW h \in Hilo, hilo[h] # OCIOSO, NEW q, Sigue(h, q),
         UNCHANGED <<sucios, carpetas>>, hilo[h].paso # "busca",
         q # OCIOSO => Forma(q) /\ q.toca = hilo[h].toca,
         \A x \in Clave : x \notin {hilo[h].clave, hilo[h].destino} =>
           disco'[x] = disco[x] /\ meta'[x] = meta[x],
         Cumple(hilo[h], disco, meta, carpetas) =>
           /\ q # OCIOSO => Fiel(q, disco', meta', carpetas)
           /\ \A x \in {hilo[h].clave, hilo[h].destino} :
                q = OCIOSO \/ x \notin Exento(q) => Acorde(disco', meta', carpetas, x)
  PROVE  Aislados'
<1> DEFINE r == hilo[h]
<1>1. r \in Pedido /\ Forma(r)
  BY EnTarea
<1>2. \A x \in Clave : Archivo(x) \notin r.toca => x \notin {r.clave, r.destino}
  BY <1>1 DEF Forma
<1>3. ASSUME Limpio(r) PROVE Resulta(r, q, disco', meta', carpetas')
  <2>1. Cumple(r, disco, meta, carpetas)
    BY <1>3 DEF Aislados, EnCurso
  <2>2. ASSUME NEW x \in Clave, Archivo(x) \in r.toca, q = OCIOSO \/ x \notin Exento(q)
        PROVE  Acorde(disco', meta', carpetas, x)
    <3>1. CASE x \in {r.clave, r.destino}
      BY <2>1, <2>2, <3>1
    <3>2. CASE x \notin {r.clave, r.destino}
      <4>1. Acorde(disco, meta, carpetas, x)
        BY <2>1, <2>2, <3>2 DEF Cumple, Exento
      <4> QED
        BY <3>2, <4>1, AcordeSigue
    <3> QED
      BY <3>1, <3>2
  <2> QED
    BY <2>1, <2>2 DEF Resulta, Cumple
<1> QED
  BY <1>2, <1>3, Avanza

\* A step that makes the folder dir of the drive u, and those above it.
LEMMA CarpetaAvanza ==
  ASSUME Inv, Inv', Aislados, NEW h \in Hilo, hilo[h] # OCIOSO, NEW q, Sigue(h, q),
         UNCHANGED <<sucios, disco, meta>>,
         \A k \in Clave : EnSuCarpeta(carpetas, k) => EnSuCarpeta(carpetas', k),
         q # OCIOSO => Forma(q) /\ q.toca = hilo[h].toca,
         Exento(hilo[h]) = {},
         Cumple(hilo[h], disco, meta, carpetas) =>
           (q # OCIOSO => Fiel(q, disco, meta, carpetas'))
  PROVE  Aislados'
<1> DEFINE r == hilo[h]
<1>1. ASSUME Limpio(r) PROVE Resulta(r, q, disco', meta', carpetas')
  <2>1. Cumple(r, disco, meta, carpetas)
    BY <1>1 DEF Aislados, EnCurso
  <2>2. \A x \in Clave : Archivo(x) \in r.toca => Acorde(disco, meta, carpetas', x)
    BY <2>1, AcordeSigue DEF Cumple
  <2> QED
    BY <2>1, <2>2 DEF Resulta, Cumple
<1> QED
  BY <1>1, Avanza

\* Folders are added below the drive of u.
LEMMA ConCarpetaSigue ==
  ASSUME Inv, NEW u \in Usuario, NEW c \in Clave, carpetas' = ConCarpeta(u, CarpetaDe(c.ruta))
  PROVE  /\ \A k \in Clave : EnSuCarpeta(carpetas, k) => EnSuCarpeta(carpetas', k)
         /\ CarpetaDe(c.ruta) \in carpetas'[u]
<1>1. carpetas \in [Usuario -> SUBSET Carpeta]
  BY DEF Inv, Tipos
<1>2. CarpetaDe(c.ruta) \in Prefixes(CarpetaDe(c.ruta))
  BY CarpetaEnSi
<1>3. \A d \in Usuario : carpetas[d] \subseteq carpetas'[d]
  BY <1>1 DEF ConCarpeta
<1> QED
  BY <1>1, <1>2, <1>3 DEF ConCarpeta, EnSuCarpeta, Clave

-----------------------------------------------------------------------------
(* Uploads *)

LEMMA SubeAislado ==
  ASSUME Inv, Inv', Aislados, NEW h \in Hilo, hilo[h] # OCIOSO, Sube(h)
  PROVE  Aislados'
<1> DEFINE r == hilo[h]
           k == r.clave
<1>0. r \in Pedido /\ Forma(r) /\ k \in Clave /\ r.destino \in Clave /\ r.n \in Int
  BY EnTarea
<1>t. meta[k] \in Metadato \cup {NADA}
  BY <1>0 DEF Inv, Tipos
<1>a. ASSUME Cumple(r, disco, meta, carpetas), Exento(r) = {}, r.paso # "busca"
      PROVE  Acorde(disco, meta, carpetas, k)
  BY <1>0, <1>a DEF Cumple, Forma
<1>1. CASE validaVersion(h)
  <2> DEFINE n == SiguienteVersion(k)
             q == [En("carpeta", r) EXCEPT !.n = n]
  <2>1. r.paso = "version" /\ (Lee(h, OCIOSO) \/ (n <= MaxVersion /\ Lee(h, q)))
    BY <1>1, <1>t, MaxVersionAssumption DEF validaVersion, SiguienteVersion, existeMetadato,
                                            Metadato
  <2>2. /\ q.paso = "carpeta" /\ q.clave = k /\ q.destino = r.destino /\ q.n = n
        /\ q.toca = r.toca /\ q.primera = r.primera /\ q # OCIOSO
    BY <1>0 DEF En, Pedido, OCIOSO
  <2> HIDE DEF q
  <2>3. Forma(q)
    BY <1>0, <2>1, <2>2 DEF Forma
  <2>4. ASSUME n <= MaxVersion, Cumple(r, disco, meta, carpetas)
        PROVE  Fiel(q, disco, meta, carpetas)
    <3>1. Acorde(disco, meta, carpetas, k) /\ meta[k] # NADA /\ ~r.primera
      BY <1>a, <2>1, <2>4 DEF Exento, Cumple, Fiel, SabeMetadatos, SabeSubir
    <3>2. n = meta[k].ultimaVersion + 1 /\ n \in Version
      BY <2>4, <3>1, MaxVersionAssumption DEF Acorde, SiguienteVersion, existeMetadato, Version
    <3> QED
      BY <2>2, <3>1, <3>2 DEF Fiel, SabeMetadatos, SabeSubir, SabeBorrar, SabeMover
  <2>5. Exento(r) = {}
    BY <2>1 DEF Exento
  <2> HIDE DEF n
  <2> QED
    BY <2>1, <2>2, <2>3, <2>4, <2>5, LeeAvanza, LeeTermina
<1>2. CASE creaCarpeta(h)
  <2> DEFINE puede == verificarPermisos(r.user, k) /\ (r.user = k.dueno \/ HayCarpeta(k))
             q == IF puede THEN En("hay", r) ELSE OCIOSO
  <2>1. /\ r.paso = "carpeta" /\ Sigue(h, q) /\ UNCHANGED <<disco, meta, sucios>>
        /\ carpetas' = IF puede THEN ConCarpeta(k.dueno, CarpetaDe(k.ruta)) ELSE carpetas
    BY <1>2 DEF creaCarpeta
  <2>2. q # OCIOSO => /\ q.paso = "hay" /\ q.clave = k /\ q.destino = r.destino
                      /\ q.n = r.n /\ q.toca = r.toca /\ q.primera = r.primera
    BY <1>0 DEF En, Pedido
  <2>p. q # OCIOSO => puede
    OBVIOUS
  <2>3. /\ \A x \in Clave : EnSuCarpeta(carpetas, x) => EnSuCarpeta(carpetas', x)
        /\ puede => EnSuCarpeta(carpetas', k)
    <3>1. CASE puede
      BY <1>0, <2>1, <3>1, ConCarpetaSigue DEF EnSuCarpeta, Clave
    <3>2. CASE ~puede
      BY <2>1, <3>2
    <3> QED
      BY <3>1, <3>2
  <2> HIDE DEF puede, q
  <2>4. q # OCIOSO => Forma(q)
    BY <1>0, <2>1, <2>2 DEF Forma
  <2>5. Exento(r) = {}
    BY <2>1 DEF Exento
  <2>6. Cumple(r, disco, meta, carpetas) /\ q # OCIOSO => Fiel(q, disco, meta, carpetas')
    BY <2>1, <2>2, <2>3, <2>p
       DEF Cumple, Fiel, SabeMetadatos, SabeSubir, SabeBorrar, SabeMover
  <2> QED
    BY <2>1, <2>2, <2>3, <2>4, <2>5, <2>6, CarpetaAvanza
<1>3. CASE hayMetadato(h)
  <2> DEFINE p == IF existeMetadato(k) THEN "sube_get" ELSE "escribe"
             q == En(p, r)
  <2>1. r.paso = "hay" /\ Lee(h, q)
    BY <1>3 DEF hayMetadato
  <2>2. /\ q.paso = p /\ q.clave = k /\ q.destino = r.destino /\ q.n = r.n
        /\ q.toca = r.toca /\ q.primera = r.primera /\ q # OCIOSO
    BY <1>0 DEF En, Pedido, OCIOSO
  <2> HIDE DEF q
  <2>3. Forma(q)
    BY <1>0, <2>1, <2>2 DEF Forma
  <2>4. ASSUME Cumple(r, disco, meta, carpetas) PROVE Fiel(q, disco, meta, carpetas)
    <3>1. Acorde(disco, meta, carpetas, k) /\ SabeSubir(r, disco, meta, carpetas)
      BY <1>a, <2>1, <2>4 DEF Exento, Cumple, Fiel
    <3>2. 1 \in Version /\ 1 - 1 = 0
      BY MaxVersionAssumption DEF Version
    <3>3. CASE meta[k] = NADA
      BY <2>1, <2>2, <3>1, <3>2, <3>3 DEF existeMetadato, Acorde,
         Fiel, SabeMetadatos, SabeSubir, SabeBorrar, SabeMover
    <3>4. CASE meta[k] # NADA
      BY <2>1, <2>2, <3>1, <3>4 DEF existeMetadato,
         Fiel, SabeMetadatos, SabeSubir, SabeBorrar, SabeMover
    <3> QED
      BY <3>3, <3>4
  <2>5. Exento(r) = {}
    BY <2>1 DEF Exento
  <2> QED
    BY <2>1, <2>2, <2>3, <2>4, <2>5, LeeAvanza
<1>4. CASE subeGet(h)
  <2> DEFINE q == [En("sube_put", r) EXCEPT !.leido = [meta[k] EXCEPT !.ultimaVersion = r.n]]
  <2>1. r.paso = "sube_get" /\ Lee(h, q) /\ meta[k] \in Metadato
    BY <1>4, <1>t DEF subeGet, Get, existeMetadato
  <2>m. /\ [meta[k] EXCEPT !.ultimaVersion = r.n] \in Metadato
        /\ [meta[k] EXCEPT !.ultimaVersion = r.n].ultimaVersion = r.n
    <3>1. r.n \in (-1)..MaxVersion
      BY <2>1, EnTrabajo
    <3> QED
      BY <2>1, <3>1 DEF Metadato
  <2>2. /\ q.paso = "sube_put" /\ q.clave = k /\ q.destino = r.destino /\ q.n = r.n
        /\ q.toca = r.toca /\ q.primera = r.primera /\ q # OCIOSO
        /\ q.leido = [meta[k] EXCEPT !.ultimaVersion = r.n]
    BY <1>0 DEF En, Pedido, OCIOSO
  <2>f. q.leido # NADA /\ q.leido.ultimaVersion = r.n
    BY <2>m, <2>2, NadaHilosAssumption
  <2> HIDE DEF q
  <2>3. Forma(q)
    BY <1>0, <2>1, <2>2 DEF Forma
  <2>4. Cumple(r, disco, meta, carpetas) => Fiel(q, disco, meta, carpetas)
    BY <2>1, <2>2, <2>f DEF Cumple, Fiel, SabeMetadatos, SabeSubir, SabeBorrar, SabeMover
  <2>5. Exento(r) = {}
    BY <2>1 DEF Exento
  <2> QED
    BY <2>1, <2>2, <2>3, <2>4, <2>5, LeeAvanza
<1>5. CASE subePut(h)
  <2> DEFINE q == En("escribe", r)
  <2>1. /\ r.paso = "sube_put" /\ Sigue(h, q) /\ UNCHANGED <<sucios, carpetas, disco>>
        /\ meta' = [meta EXCEPT ![k] = r.leido]
    BY <1>5 DEF subePut, EscribeDB
  <2>2. /\ q.paso = "escribe" /\ q.clave = k /\ q.destino = r.destino /\ q.n = r.n
        /\ q.toca = r.toca /\ q.primera = r.primera /\ q # OCIOSO
    BY <1>0 DEF En, Pedido, OCIOSO
  <2> HIDE DEF q
  <2>3. Forma(q)
    BY <1>0, <2>1, <2>2 DEF Forma
  <2>4. meta'[k] = r.leido /\ \A x \in Clave : x # k => meta'[x] = meta[x]
    BY <1>0, <2>1 DEF Inv, Tipos
  <2>5. ASSUME Cumple(r, disco, meta, carpetas)
        PROVE  Fiel(q, disco, meta', carpetas)
               /\ (r.destino # k => Acorde(disco, meta', carpetas, r.destino))
    <3>1. Acorde(disco, meta, carpetas, k) /\ SabeSubir(r, disco, meta, carpetas)
          /\ SabeMetadatos(r, meta)
      BY <1>a, <2>1, <2>5 DEF Exento, Cumple, Fiel
    <3>2. r.n - 1 = meta[k].ultimaVersion /\ Tiene(disco, k, 1, r.n - 1)
      BY <2>1, <3>1, MaxVersionAssumption DEF SabeSubir, SabeMetadatos, Acorde, Version
    <3>3. Fiel(q, disco, meta', carpetas)
      BY <2>1, <2>2, <2>4, <3>1, <3>2
         DEF Fiel, SabeMetadatos, SabeSubir, SabeBorrar, SabeMover
    <3>4. Acorde(disco, meta, carpetas, r.destino)
      BY <1>0, <2>1, <2>5 DEF Exento, Cumple, Forma
    <3> QED
      BY <1>0, <2>4, <3>3, <3>4, AcordeSigue
  <2>6. k \in Exento(q)
    BY <2>2 DEF Exento
  <2> QED
    BY <2>1, <2>2, <2>3, <2>4, <2>5, <2>6, EscribeAvanza
<1>6. CASE escribe(h)
  <2> DEFINE q == IF r.primera THEN En("carga_get", r) ELSE OCIOSO
             nuevo == <<k, r.n, r.id>>
  <2>1. /\ r.paso = "escribe" /\ Sigue(h, q) /\ UNCHANGED <<sucios, carpetas, meta>>
        /\ disco' = IF HayCarpeta(k) /\ r.n \in Version
                    THEN [disco EXCEPT ![k][r.n] = nuevo] ELSE disco
    BY <1>6 DEF escribe
  <2>2. q # OCIOSO => /\ q.paso = "carga_get" /\ q.clave = k /\ q.destino = r.destino
                      /\ q.n = r.n /\ q.toca = r.toca /\ q.id = r.id /\ r.primera
    BY <1>0 DEF En, Pedido
  <2>p. r.primera => q # OCIOSO
    BY <1>0 DEF En, Pedido, OCIOSO
  <2> HIDE DEF q
  <2>3. q # OCIOSO => Forma(q)
    BY <1>0, <2>1, <2>2 DEF Forma
  <2>4. \A x \in Clave : x # k => disco'[x] = disco[x]
    BY <1>0, <2>1 DEF Inv, Tipos, Disco
  <2>5. ASSUME Cumple(r, disco, meta, carpetas)
        PROVE  /\ q # OCIOSO => Fiel(q, disco', meta, carpetas)
               /\ q = OCIOSO => Acorde(disco', meta, carpetas, k)
               /\ r.destino # k => Acorde(disco', meta, carpetas, r.destino)
    <3>1. SabeSubir(r, disco, meta, carpetas)
      BY <2>5 DEF Cumple, Fiel
    <3>2. /\ r.n \in Version /\ Tiene(disco, k, 1, r.n - 1) /\ EnSuCarpeta(carpetas, k)
          /\ r.primera <=> meta[k] = NADA
          /\ r.primera => r.n = 1
          /\ ~r.primera => meta[k].ultimaVersion = r.n
      BY <2>1, <3>1 DEF SabeSubir
    <3>3. disco' = [disco EXCEPT ![k][r.n] = nuevo]
      BY <2>1, <3>2 DEF HayCarpeta, EnSuCarpeta
    <3>4. nuevo # NADA
      BY <1>0, <3>2, NadaHilosAssumption DEF Contenido, Pedido
    <3>5. disco'[k][r.n] = nuevo /\ \A v \in Version : v # r.n => disco'[k][v] = disco[k][v]
      BY <1>0, <3>2, <3>3 DEF Inv, Tipos, Disco
    <3>6. Tiene(disco', k, 1, r.n)
      <4> HIDE DEF nuevo
      <4> QED
        BY <3>2, <3>4, <3>5 DEF Tiene, Version
    <3>7. q # OCIOSO => Fiel(q, disco', meta, carpetas)
      BY <2>2, <3>2, <3>5, <3>6 DEF Fiel, SabeMetadatos, SabeSubir, SabeBorrar, SabeMover
    <3>8. q = OCIOSO => Acorde(disco', meta, carpetas, k)
      BY <2>p, <3>2, <3>6 DEF Acorde
    <3>9. r.destino # k => Acorde(disco, meta, carpetas, r.destino)
      BY <1>0, <2>1, <2>5 DEF Exento, Cumple, Forma
    <3> QED
      BY <1>0, <2>4, <3>7, <3>8, <3>9, AcordeSigue
  <2>6. q # OCIOSO => k \in Exento(q)
    BY <2>2 DEF Exento
  <2>7. q # OCIOSO => q.toca = r.toca
    BY <2>2
  <2> QED
    BY <2>1, <2>3, <2>4, <2>5, <2>6, <2>7, EscribeAvanza
<1>7. CASE cargaGet(h)
  <2> DEFINE q == En("carga_put", r)
  <2>1. /\ r.paso = "carga_get"
        /\ (meta[k] # NADA /\ Lee(h, OCIOSO)) \/ (meta[k] = NADA /\ Lee(h, q))
    BY <1>7 DEF cargaGet, existeMetadato
  <2>2. /\ q.paso = "carga_put" /\ q.clave = k /\ q.destino = r.destino /\ q.n = r.n
        /\ q.toca = r.toca /\ q.id = r.id /\ q # OCIOSO
    BY <1>0 DEF En, Pedido, OCIOSO
  <2> HIDE DEF q
  <2>3. Forma(q)
    BY <1>0, <2>1, <2>2 DEF Forma
  <2>4. Cumple(r, disco, meta, carpetas) => meta[k] = NADA /\ Fiel(q, disco, meta, carpetas)
    BY <2>1, <2>2 DEF Cumple, Fiel, SabeMetadatos, SabeSubir, SabeBorrar, SabeMover
  <2>5. Exento(r) = {k} /\ Exento(q) = {k}
    BY <2>1, <2>2 DEF Exento
  <2> QED
    BY <2>1, <2>2, <2>3, <2>4, <2>5, LeeAvanza, LeeTermina
<1>8. CASE cargaPut(h)
  <2>1. /\ r.paso = "carga_put" /\ Sigue(h, OCIOSO) /\ UNCHANGED <<sucios, carpetas, disco>>
        /\ meta' = [meta EXCEPT ![k] = MetadatoNuevo(k)]
    BY <1>8 DEF cargaPut
  <2>2. meta'[k] = MetadatoNuevo(k) /\ \A x \in Clave : x # k => meta'[x] = meta[x]
    BY <1>0, <2>1 DEF Inv, Tipos
  <2>3. MetadatoNuevo(k) # NADA /\ MetadatoNuevo(k).ultimaVersion = 1
    <3>1. MetadatoNuevo(k) \in Metadato
      BY <1>0, MaxVersionAssumption DEF MetadatoNuevo, Metadato, Clave
    <3> QED
      BY <3>1, NadaHilosAssumption DEF MetadatoNuevo
  <2>4. ASSUME Cumple(r, disco, meta, carpetas)
        PROVE  /\ Acorde(disco, meta', carpetas, k)
               /\ r.destino # k => Acorde(disco, meta', carpetas, r.destino)
    <3>1. Tiene(disco, k, 1, 1) /\ EnSuCarpeta(carpetas, k)
      BY <2>1, <2>4 DEF Cumple, Fiel, SabeSubir
    <3>2. 1 \in Version
      BY MaxVersionAssumption DEF Version
    <3>3. r.destino # k => Acorde(disco, meta, carpetas, r.destino)
      BY <1>0, <2>1, <2>4 DEF Exento, Cumple, Forma
    <3> QED
      BY <1>0, <2>2, <2>3, <3>1, <3>2, <3>3, AcordeSigue DEF Acorde
  <2> QED
    BY <2>1, <2>2, <2>4, EscribeAvanza
<1> QED
  BY <1>1, <1>2, <1>3, <1>4, <1>5, <1>6, <1>7, <1>8 DEF Sube

-----------------------------------------------------------------------------
(* Deletions *)

\* A rename of version n, when the versions before it have been moved.
LEMMA RenombraEfecto ==
  ASSUME Inv, NEW k \in Clave, NEW c \in Clave, k # c, NEW n \in Version, NEW L \in Version,
         n <= L, Tiene(disco, k, n, L), Tiene(disco, c, 1, n - 1),
         disco' = Renombra(k, c, n)
  PROVE  /\ Tiene(disco', k, n + 1, L) /\ Tiene(disco', c, 1, n)
         /\ \A x \in Clave : x \notin {k, c} => disco'[x] = disco[x]
<1>1. disco[k][n] # NADA
  BY DEF Tiene, Version
<1>2. /\ disco'[c][n] = disco[k][n] /\ disco'[k][n] = NADA
      /\ \A v \in Version : v # n => disco'[c][v] = disco[c][v] /\ disco'[k][v] = disco[k][v]
      /\ \A x \in Clave : x \notin {k, c} => disco'[x] = disco[x]
  BY DEF Renombra, Inv, Tipos, Disco
<1> QED
  BY <1>1, <1>2 DEF Tiene, Version

\* Back to the walk, or done.
LEMMA VuelveForma ==
  ASSUME NEW r \in Pedido, Forma(r), r.paso \in Borrando
  PROVE  /\ Vuelve(r) # OCIOSO => /\ Forma(Vuelve(r)) /\ Vuelve(r).toca = r.toca
                                  /\ Exento(Vuelve(r)) = {}
         /\ \A D, M, C : Vuelve(r) # OCIOSO => Fiel(Vuelve(r), D, M, C)
<1> DEFINE q == Vuelve(r)
<1>1. CASE ~r.borra
  BY <1>1 DEF Vuelve
<1>2. CASE r.borra
  <2>1. /\ q.paso = "recorre" /\ q.clave = r.clave /\ q.destino = r.destino
        /\ q.toca = r.toca /\ q.user = r.user /\ q.borra = r.borra /\ q.claves = r.claves
    BY <1>2 DEF Vuelve, En, Pedido
  <2> HIDE DEF q
  <2>2. Forma(q) /\ Exento(q) = {}
    BY <1>2, <2>1 DEF Forma, Exento
  <2>3. \A D, M, C : Fiel(q, D, M, C)
    BY <2>1 DEF Fiel, SabeMetadatos, SabeSubir, SabeBorrar, SabeMover
  <2> QED
    BY <2>1, <2>2, <2>3 DEF q
<1> QED
  BY <1>1, <1>2

\* The walk goes on without having changed anything.
LEMMA LeeVuelve ==
  ASSUME Inv, Inv', Aislados, NEW h \in Hilo, hilo[h] # OCIOSO, Lee(h, Vuelve(hilo[h])),
         hilo[h].paso \in Borrando, Exento(hilo[h]) = {}
  PROVE  Aislados'
<1> DEFINE q == Vuelve(hilo[h])
<1>1. q # OCIOSO => /\ Forma(q) /\ q.toca = hilo[h].toca
                    /\ Fiel(q, disco, meta, carpetas)
  BY EnTarea, VuelveForma
<1>2. Lee(h, q)
  OBVIOUS
<1> HIDE DEF q
<1> QED
  BY <1>1, <1>2, LeeAvanza

LEMMA BorraAislado ==
  ASSUME Inv, Inv', Aislados, NEW h \in Hilo, hilo[h] # OCIOSO, Borra(h)
  PROVE  Aislados'
<1> DEFINE r == hilo[h]
           k == r.clave
           c == r.destino
<1>0. r \in Pedido /\ Forma(r) /\ k \in Clave /\ c \in Clave /\ r.n \in Int
  BY EnTarea
<1>t. meta[k] \in Metadato \cup {NADA}
  BY <1>0 DEF Inv, Tipos
<1>a. ASSUME Cumple(r, disco, meta, carpetas), Exento(r) = {}, r.paso # "busca"
      PROVE  Acorde(disco, meta, carpetas, k) /\ Acorde(disco, meta, carpetas, c)
  BY <1>0, <1>a DEF Cumple, Forma
<1>1. CASE borraGet(h)
  <2> DEFINE q == [En("secuencia", r) EXCEPT
                     !.leido = meta[k], !.pend = meta[k].usuarios \ {meta[k].propietario}]
  <2>1. r.paso = "borra_get" /\ ((meta[k] # NADA /\ Lee(h, q)) \/ Lee(h, Vuelve(r)))
    BY <1>1 DEF borraGet, Get, existeMetadato
  <2>2. /\ q.paso = "secuencia" /\ q.clave = k /\ q.destino = c /\ q.n = r.n
        /\ q.toca = r.toca /\ q.user = r.user /\ q.borra = r.borra /\ q.claves = r.claves
        /\ q.leido = meta[k] /\ q # OCIOSO
    BY <1>0 DEF En, Pedido, OCIOSO
  <2> HIDE DEF q
  <2>3. Forma(q)
    BY <1>0, <2>1, <2>2 DEF Forma
  <2>4. meta[k] # NADA => Fiel(q, disco, meta, carpetas)
    BY <2>2 DEF Fiel, SabeMetadatos, SabeSubir, SabeBorrar, SabeMover
  <2>5. Exento(r) = {}
    BY <2>1 DEF Exento
  <2> QED
    BY <2>1, <2>2, <2>3, <2>4, <2>5, LeeAvanza, LeeVuelve
<1>2. CASE secuencia(h)
  <2>1. PICK n \in Secuencia :
          /\ \A m \in {m \in Secuencia : HayEnDisco(EnPapelera(k, m))} : m < n
          /\ Lee(h, [En("invitado", r) EXCEPT !.destino = EnPapelera(k, n)])
    BY <1>2 DEF secuencia
  <2> DEFINE d == EnPapelera(k, n)
             q == [En("invitado", r) EXCEPT !.destino = d]
  <2>p. r.paso = "secuencia"
    BY <1>2 DEF secuencia
  <2>2. /\ q.paso = "invitado" /\ q.clave = k /\ q.destino = d /\ q.n = r.n
        /\ q.toca = r.toca /\ q.user = r.user /\ q.borra = r.borra /\ q.claves = r.claves
        /\ q.leido = r.leido /\ q # OCIOSO
    BY <1>0 DEF En, Pedido, OCIOSO
  <2>3. Archivo(d) = Archivo(k) /\ ~Viva(d)
    BY <1>0 DEF EnPapelera, Archivo, Viva, Secuencia, VIVA, Clave
  <2>4. Tiene(disco, d, 1, 0)
    <3>1. ~HayEnDisco(d)
      BY <2>1, MaxSecAssumption DEF Secuencia
    <3> QED
      BY <3>1 DEF HayEnDisco, Tiene, Version
  <2>5. Lee(h, q)
    BY <2>1
  <2> HIDE DEF q, d
  <2>6. Forma(q)
    BY <1>0, <2>p, <2>2, <2>3 DEF Forma
  <2>7. Cumple(r, disco, meta, carpetas) => Fiel(q, disco, meta, carpetas)
    BY <2>p, <2>2, <2>4 DEF Cumple, Fiel, SabeMetadatos, SabeSubir, SabeBorrar, SabeMover
  <2>8. Exento(r) = {}
    BY <2>p DEF Exento
  <2> QED
    BY <2>2, <2>5, <2>6, <2>7, <2>8, LeeAvanza
<1>3. CASE leeInvitado(h)
  <2>1. PICK g \in r.pend : Lee(h, [r EXCEPT !.pend = @ \ {g},
                                             !.indices[g] = permisos[g] \ {k}])
    BY <1>3 DEF leeInvitado
  <2> DEFINE q == [r EXCEPT !.pend = @ \ {g}, !.indices[g] = permisos[g] \ {k}]
  <2>p. r.paso = "invitado"
    BY <1>3 DEF leeInvitado
  <2>2. /\ q.paso = "invitado" /\ q.clave = k /\ q.destino = c /\ q.n = r.n
        /\ q.toca = r.toca /\ q.user = r.user /\ q.borra = r.borra /\ q.claves = r.claves
        /\ q.leido = r.leido /\ q # OCIOSO
    BY <1>0, <2>p DEF Pedido, OCIOSO
  <2>5. Lee(h, q)
    BY <2>1
  <2> HIDE DEF q
  <2>6. Forma(q)
    BY <1>0, <2>p, <2>2 DEF Forma
  <2>7. Cumple(r, disco, meta, carpetas) => Fiel(q, disco, meta, carpetas)
    BY <2>p, <2>2 DEF Cumple, Fiel, SabeMetadatos, SabeSubir, SabeBorrar, SabeMover
  <2>8. Exento(r) = {}
    BY <2>p DEF Exento
  <2> QED
    BY <2>2, <2>5, <2>6, <2>7, <2>8, LeeAvanza
<1>4. CASE loteBorra(h)
  <2> DEFINE q == En("lote_escribe", r)
  <2>1. r.paso = "invitado" /\ (Lee(h, q) \/ Lee(h, Vuelve(r)))
    BY <1>4 DEF loteBorra
  <2>2. /\ q.paso = "lote_escribe" /\ q.clave = k /\ q.destino = c /\ q.n = r.n
        /\ q.toca = r.toca /\ q.user = r.user /\ q.borra = r.borra /\ q.claves = r.claves
        /\ q.leido = r.leido /\ q # OCIOSO
    BY <1>0 DEF En, Pedido, OCIOSO
  <2> HIDE DEF q
  <2>3. Forma(q)
    BY <1>0, <2>1, <2>2 DEF Forma
  <2>4. Cumple(r, disco, meta, carpetas) => Fiel(q, disco, meta, carpetas)
    BY <2>1, <2>2 DEF Cumple, Fiel, SabeMetadatos, SabeSubir, SabeBorrar, SabeMover
  <2>5. Exento(r) = {}
    BY <2>1 DEF Exento
  <2> QED
    BY <2>1, <2>2, <2>3, <2>4, <2>5, LeeAvanza, LeeVuelve
<1>5. CASE escribeLoteBorra(h)
  <2> DEFINE q == En("mueve", r)
             m == [r.leido EXCEPT !.usuarios = {r.leido.propietario}]
  <2>1. /\ r.paso = "lote_escribe" /\ Sigue(h, q) /\ UNCHANGED <<sucios, carpetas, disco>>
        /\ meta' = [meta EXCEPT ![k] = NADA, ![c] = m]
    BY <1>5 DEF escribeLoteBorra, EscribeDB
  <2>2. /\ q.paso = "mueve" /\ q.clave = k /\ q.destino = c /\ q.n = r.n
        /\ q.toca = r.toca /\ q.user = r.user /\ q.borra = r.borra /\ q.claves = r.claves
        /\ q.leido = r.leido /\ q # OCIOSO
    BY <1>0 DEF En, Pedido, OCIOSO
  <2> HIDE DEF q
  <2>3. Forma(q) /\ Viva(k) /\ ~Viva(c) /\ r.n = 1
    BY <1>0, <2>1, <2>2 DEF Forma
  <2>4. /\ meta'[k] = NADA /\ meta'[c] = m
        /\ \A x \in Clave : x \notin {k, c} => meta'[x] = meta[x]
    BY <1>0, <2>1, <2>3 DEF Inv, Tipos
  <2>5. m # NADA /\ m.ultimaVersion = r.leido.ultimaVersion
    <3>1. r.leido \in Metadato
      BY <2>1, EnTrabajo DEF ConLeido
    <3>2. m \in Metadato
      BY <3>1 DEF Metadato
    <3> QED
      BY <3>1, <3>2, NadaHilosAssumption DEF Metadato
  <2>6. Exento(r) = {} /\ Exento(q) = {k, c}
    BY <2>1, <2>2 DEF Exento
  <2> HIDE DEF m
  <2>7. ASSUME Cumple(r, disco, meta, carpetas)
        PROVE  Fiel(q, disco, meta', carpetas)
    <3>1. Acorde(disco, meta, carpetas, k)
      BY <1>a, <2>1, <2>6, <2>7
    <3>2. /\ meta[k] # NADA /\ r.leido # NADA /\ Tiene(disco, c, 1, 0)
          /\ r.leido.ultimaVersion = meta[k].ultimaVersion
      BY <2>1, <2>7 DEF Cumple, Fiel, SabeMetadatos, SabeBorrar
    <3>3. /\ m.ultimaVersion \in Version /\ 1 \in 1..m.ultimaVersion
          /\ Tiene(disco, k, 1, m.ultimaVersion) /\ 1 - 1 = 0
      BY <2>5, <3>1, <3>2 DEF Acorde, Version
    <3> QED
      BY <2>2, <2>3, <2>4, <2>5, <3>2, <3>3
         DEF Fiel, SabeMetadatos, SabeSubir, SabeBorrar, SabeMover
  <2> QED
    BY <2>1, <2>2, <2>3, <2>4, <2>6, <2>7, EscribeAvanza
<1>6. CASE mueve(h)
  <2> DEFINE L == r.leido.ultimaVersion
             falla == r.n > L \/ disco[k][r.n] = NADA
             s == [r EXCEPT !.n = @ + 1]
             q == IF falla \/ r.n >= L THEN Vuelve(r) ELSE s
  <2>1. /\ r.paso = "mueve" /\ Sigue(h, q) /\ UNCHANGED <<sucios, carpetas, meta>>
        /\ disco' = IF falla THEN disco ELSE Renombra(k, c, r.n)
    BY <1>6 DEF mueve, EscribeDisco
  <2>2. /\ s.paso = "mueve" /\ s.clave = k /\ s.destino = c /\ s.n = r.n + 1
        /\ s.toca = r.toca /\ s.user = r.user /\ s.borra = r.borra /\ s.claves = r.claves
        /\ s.leido = r.leido /\ s # OCIOSO
    BY <1>0, <2>1 DEF Pedido, OCIOSO
  <2> HIDE DEF s
  <2>3. Forma(s) /\ k # c
    BY <1>0, <2>1, <2>2 DEF Forma
  <2>4. q # OCIOSO => Forma(q) /\ q.toca = r.toca
    BY <1>0, <2>1, <2>2, <2>3, VuelveForma
  <2>5. \A x \in Clave : x \notin {k, c} => disco'[x] = disco[x]
    BY <1>0, <2>1 DEF Renombra, Inv, Tipos, Disco
  <2>6. ASSUME Cumple(r, disco, meta, carpetas)
        PROVE  /\ q # OCIOSO => Fiel(q, disco', meta, carpetas)
               /\ \A x \in {k, c} :
                    q = OCIOSO \/ x \notin Exento(q) => Acorde(disco', meta, carpetas, x)
    <3>0. /\ meta[k] = NADA /\ meta[c] # NADA /\ r.leido # NADA /\ L = meta[c].ultimaVersion
          /\ L \in Version /\ r.n \in 1..L
          /\ Tiene(disco, k, r.n, L) /\ Tiene(disco, c, 1, r.n - 1)
      <4>1. SabeMetadatos(r, meta) /\ SabeBorrar(r, disco, meta)
        BY <2>6 DEF Cumple, Fiel
      <4>2. L = meta[c].ultimaVersion
        BY <2>1, <4>1 DEF SabeBorrar
      <4>3. meta[k] = NADA
        BY <2>1, <4>1 DEF SabeMetadatos
      <4>4. /\ meta[c] # NADA /\ r.leido # NADA
            /\ meta[c].ultimaVersion \in Version /\ r.n \in 1..meta[c].ultimaVersion
            /\ Tiene(disco, k, r.n, meta[c].ultimaVersion) /\ Tiene(disco, c, 1, r.n - 1)
        BY <2>1, <4>1 DEF SabeBorrar
      <4> HIDE DEF L
      <4> QED
        BY <4>2, <4>3, <4>4
    <3>1. r.n \in Version /\ r.n <= L /\ L \in Version
      BY <3>0, MaxVersionAssumption DEF Version
    <3>2. ~falla
      BY <3>0, <3>1 DEF Tiene, Version
    <3>l. s.leido.ultimaVersion = L
      BY <2>2
    <3> HIDE DEF L
    <3>3. Tiene(disco', k, r.n + 1, L) /\ Tiene(disco', c, 1, r.n)
      BY <1>0, <2>1, <2>3, <3>0, <3>1, <3>2, RenombraEfecto
    <3>4. CASE r.n >= L
      <4>1. r.n = L /\ Tiene(disco', k, 1, 0)
        BY <3>1, <3>3, <3>4 DEF Tiene, Version
      <4>2. Acorde(disco', meta, carpetas, k) /\ Acorde(disco', meta, carpetas, c)
        BY <1>0, <2>1, <3>0, <3>3, <4>1 DEF Acorde, Forma
      <4>3. q = Vuelve(r)
        BY <3>4
      <4> QED
        BY <1>0, <2>1, <4>2, <4>3, VuelveForma
    <3>5. CASE ~(r.n >= L)
      <4>1. q = s /\ s.n \in 1..L /\ s.n - 1 = r.n
        BY <2>2, <3>0, <3>1, <3>2, <3>5 DEF Version
      <4>2. SabeMetadatos(s, meta)
        BY <2>2, <3>0 DEF SabeMetadatos
      <4>3. SabeSubir(s, disco', meta, carpetas) /\ SabeMover(s, disco', meta, carpetas)
        BY <2>2 DEF SabeSubir, SabeMover
      <4>4. SabeBorrar(s, disco', meta)
        BY <2>2, <3>0, <3>3, <3>l, <4>1 DEF SabeBorrar
      <4>5. Exento(s) = {k, c}
        BY <2>2 DEF Exento
      <4>6. Fiel(s, disco', meta, carpetas)
        BY <4>2, <4>3, <4>4 DEF Fiel
      <4> QED
        BY <2>2, <4>1, <4>5, <4>6
    <3> QED
      BY <3>4, <3>5
  <2> HIDE DEF q
  <2> QED
    BY <2>1, <2>4, <2>5, <2>6, EscribeAvanza
<1> QED
  BY <1>1, <1>2, <1>3, <1>4, <1>5, <1>6 DEF Borra

\* The walk of a folder, its end, and the rm -r, which finds nothing to take away.
LEMMA BorraCarpetaAislado ==
  ASSUME Inv, Inv', Aislados, NEW h \in Hilo, hilo[h] # OCIOSO, BorraCarpeta(h)
  PROVE  Aislados'
<1> DEFINE r == hilo[h]
           dir == CarpetaDe(r.clave.ruta)
<1>0. r \in Pedido /\ Forma(r) /\ r.clave \in Clave /\ r.destino \in Clave
  BY EnTarea
<1>p. r.paso \in {"recorre", "rm"}
  BY DEF BorraCarpeta, recorre, carpetaVacia, deleteCarpeta
<1>b. /\ r.borra /\ r.clave.dueno = r.user /\ r.claves \subseteq EnCarpeta(r.user, dir)
      /\ r.toca = {Archivo(c) : c \in Bajo(r.user, dir)}
  BY <1>0, <1>p DEF Forma
<1>e. Exento(r) = {}
  BY <1>p DEF Exento
<1>u. carpetas \in [Usuario -> SUBSET Carpeta] /\ r.user \in Usuario
  BY <1>0 DEF Inv, Tipos, Pedido
<1>1. CASE recorre(h)
  <2>1. PICK c \in r.claves :
          Lee(h, IF Existe(c) THEN En("borra_get", [r EXCEPT !.claves = @ \ {c},
                                                             !.clave = c, !.n = 1])
                              ELSE [r EXCEPT !.claves = @ \ {c}, !.clave = c, !.n = 1])
    BY <1>1 DEF recorre
  <2> DEFINE s == [r EXCEPT !.claves = @ \ {c}, !.clave = c, !.n = 1]
             q == IF Existe(c) THEN En("borra_get", s) ELSE s
  <2>p. r.paso = "recorre"
    BY <1>1 DEF recorre
  <2>2. /\ q.paso = IF Existe(c) THEN "borra_get" ELSE "recorre"
        /\ q.clave = c /\ q.destino = r.destino /\ q.n = 1 /\ q.toca = r.toca
        /\ q.user = r.user /\ q.borra = r.borra /\ q.claves = r.claves \ {c} /\ q # OCIOSO
    BY <1>0, <2>p DEF En, Pedido, OCIOSO
  <2>3. Lee(h, q)
    BY <2>1
  <2> HIDE DEF q
  <2>4. c \in Clave /\ Viva(c) /\ c.dueno = r.user /\ CarpetaDe(c.ruta) = dir
    BY <1>b DEF EnCarpeta
  <2>5. Archivo(c) \in r.toca
    BY <1>b, <2>4, CarpetaEnSi DEF Bajo
  <2>6. Forma(q)
    BY <1>0, <1>b, <2>p, <2>2, <2>4, <2>5 DEF Forma
  <2>7. Fiel(q, disco, meta, carpetas)
    BY <2>2 DEF Existe, existeMetadato, Fiel, SabeMetadatos, SabeSubir, SabeBorrar, SabeMover
  <2> QED
    BY <1>e, <2>2, <2>3, <2>6, <2>7, LeeAvanza
<1>2. CASE carpetaVacia(h)
  <2> DEFINE q == En("rm", r)
             vacia == /\ ~HayCarpetaBajo(r.user, dir)
                      /\ \A k \in EnCarpeta(r.user, dir) : ~HayEnDisco(k)
  <2>1. r.paso = "recorre" /\ (Lee(h, OCIOSO) \/ (vacia /\ Lee(h, q)))
    BY <1>2 DEF carpetaVacia
  <2>2. /\ q.paso = "rm" /\ q.clave = r.clave /\ q.destino = r.destino /\ q.toca = r.toca
        /\ q.user = r.user /\ q.borra = r.borra /\ q.claves = r.claves /\ q # OCIOSO
    BY <1>0 DEF En, Pedido, OCIOSO
  <2> HIDE DEF q
  <2>3. Forma(q)
    BY <1>0, <1>b, <2>1, <2>2 DEF Forma
  <2>4. ASSUME vacia, Cumple(r, disco, meta, carpetas), NEW x \in Bajo(r.user, dir)
        PROVE  Tiene(disco, x, 1, 0)
    <3>1. x \in Clave /\ Viva(x) /\ x.dueno = r.user /\ IsPrefix(dir, CarpetaDe(x.ruta))
      BY DEF Bajo
    <3>2. Acorde(disco, meta, carpetas, x)
      BY <1>b, <1>e, <2>4, <3>1 DEF Cumple
    <3>3. ~existeMetadato(x)
      <4> SUFFICES ASSUME existeMetadato(x) PROVE FALSE
        OBVIOUS
      <4>1. CarpetaDe(x.ruta) \in carpetas[r.user]
        BY <3>1, <3>2, AcordeExiste DEF EnSuCarpeta
      <4>2. CarpetaDe(x.ruta) = dir
        BY <2>4, <3>1, <4>1 DEF HayCarpetaBajo, IsStrictPrefix
      <4>3. ~HayEnDisco(x)
        BY <2>4, <3>1, <4>2 DEF EnCarpeta
      <4> QED
        BY <3>1, <3>2, <4>3, AcordeExiste
    <3> QED
      BY <3>1, <3>2, <3>3, AcordeExiste
  <2> HIDE DEF vacia
  <2>5. vacia /\ Cumple(r, disco, meta, carpetas) => Fiel(q, disco, meta, carpetas)
    BY <2>2, <2>4 DEF Fiel, SabeMetadatos, SabeSubir, SabeBorrar, SabeMover
  <2> QED
    BY <1>e, <2>1, <2>2, <2>3, <2>5, LeeAvanza, LeeTermina
<1>3. CASE deleteCarpeta(h)
  <2>1. /\ r.paso = "rm" /\ Sigue(h, OCIOSO) /\ UNCHANGED <<meta, sucios>>
        /\ carpetas' = [carpetas EXCEPT ![r.user] = {e \in @ : ~IsPrefix(dir, e)}]
        /\ disco' = [k \in Clave |-> IF k \in Bajo(r.user, dir)
                                     THEN [v \in Version |-> NADA] ELSE disco[k]]
    BY <1>3 DEF deleteCarpeta
  <2>2. ASSUME NEW k \in Clave, k \notin Bajo(r.user, dir)
        PROVE  /\ disco'[k] = disco[k] /\ meta'[k] = meta[k]
               /\ Viva(k) /\ EnSuCarpeta(carpetas, k) => EnSuCarpeta(carpetas', k)
    BY <1>u, <2>1, <2>2 DEF Bajo, EnSuCarpeta, Clave
  <2>3. \A k \in Clave : Archivo(k) \notin r.toca => k \notin Bajo(r.user, dir)
    BY <1>b
  <2>4. ASSUME Limpio(r), NEW k \in Clave, Archivo(k) \in r.toca
        PROVE  Acorde(disco', meta', carpetas', k)
    <3>1. Cumple(r, disco, meta, carpetas)
      BY <2>4 DEF Aislados, EnCurso
    <3>2. Acorde(disco, meta, carpetas, k)
      BY <1>e, <2>4, <3>1 DEF Cumple
    <3>3. CASE k \in Bajo(r.user, dir)
      <4>1. Tiene(disco, k, 1, 0)
        BY <2>1, <3>1, <3>3 DEF Cumple, Fiel, SabeBorrar
      <4>2. meta[k] = NADA
        <5>1. 1 \in Version
          BY MaxVersionAssumption DEF Version
        <5>2. ~existeArchivo(k)
          BY <4>1, <5>1 DEF Tiene, existeArchivo
        <5> QED
          BY <3>2, <5>2, AcordeExiste DEF existeMetadato
      <4>3. disco'[k] = [v \in Version |-> NADA]
        BY <2>1, <3>3
      <4>4. Tiene(disco', k, 1, 0)
        <5>1. \A v \in Version : disco'[k][v] = NADA /\ ~(1 <= v /\ v <= 0)
          BY <4>3 DEF Version
        <5> QED
          BY <5>1 DEF Tiene
      <4>5. meta'[k] = NADA
        BY <2>1, <4>2
      <4> QED
        BY <4>4, <4>5 DEF Acorde
    <3>4. CASE k \notin Bajo(r.user, dir)
      BY <2>2, <3>2, <3>4, AcordeSigue
    <3> QED
      BY <3>3, <3>4
  <2>5. Limpio(r) => Resulta(r, OCIOSO, disco', meta', carpetas')
    BY <2>4 DEF Resulta
  <2> QED
    BY <2>1, <2>2, <2>3, <2>5, Avanza
<1> QED
  BY <1>1, <1>2, <1>3 DEF BorraCarpeta

-----------------------------------------------------------------------------
(* Purges *)

LEMMA PurgaAislado ==
  ASSUME Inv, Inv', Aislados, NEW h \in Hilo, hilo[h] # OCIOSO, Purga(h)
  PROVE  Aislados'
<1> DEFINE r == hilo[h]
           k == r.clave
<1>0. r \in Pedido /\ Forma(r) /\ k \in Clave /\ r.destino \in Clave
  BY EnTarea
<1>d. ASSUME Cumple(r, disco, meta, carpetas), r.paso \in {"purga_erase", "purga_rm"},
             r.destino # k
      PROVE  Acorde(disco, meta, carpetas, r.destino)
  BY <1>0, <1>d DEF Exento, Cumple, Forma
<1>1. CASE purgaGet(h)
  <2> DEFINE q == En("purga_erase", r)
  <2>1. r.paso = "purga_get" /\ Lee(h, q) /\ meta[k] # NADA
    BY <1>1 DEF purgaGet, Get, existeMetadato
  <2>2. /\ q.paso = "purga_erase" /\ q.clave = k /\ q.destino = r.destino
        /\ q.toca = r.toca /\ q # OCIOSO
    BY <1>0 DEF En, Pedido, OCIOSO
  <2> HIDE DEF q
  <2>3. Forma(q)
    BY <1>0, <2>1, <2>2 DEF Forma
  <2>4. Fiel(q, disco, meta, carpetas)
    BY <2>1, <2>2 DEF Fiel, SabeMetadatos, SabeSubir, SabeBorrar, SabeMover
  <2>5. Exento(r) = {}
    BY <2>1 DEF Exento
  <2> QED
    BY <2>1, <2>2, <2>3, <2>4, <2>5, LeeAvanza
<1>2. CASE purgaErase(h)
  <2> DEFINE q == En("purga_rm", r)
  <2>1. /\ r.paso = "purga_erase" /\ Sigue(h, q) /\ UNCHANGED <<sucios, carpetas, disco>>
        /\ meta' = [meta EXCEPT ![k] = NADA]
    BY <1>2 DEF purgaErase, EscribeDB
  <2>2. /\ q.paso = "purga_rm" /\ q.clave = k /\ q.destino = r.destino
        /\ q.toca = r.toca /\ q # OCIOSO
    BY <1>0 DEF En, Pedido, OCIOSO
  <2> HIDE DEF q
  <2>3. Forma(q)
    BY <1>0, <2>1, <2>2 DEF Forma
  <2>4. meta'[k] = NADA /\ \A x \in Clave : x # k => meta'[x] = meta[x]
    BY <1>0, <2>1 DEF Inv, Tipos
  <2>5. Fiel(q, disco, meta', carpetas)
    BY <2>2, <2>4 DEF Fiel, SabeMetadatos, SabeSubir, SabeBorrar, SabeMover
  <2>6. k \in Exento(q)
    BY <2>2 DEF Exento
  <2>7. ASSUME Cumple(r, disco, meta, carpetas), r.destino # k
        PROVE  Acorde(disco, meta', carpetas, r.destino)
    <3>1. Acorde(disco, meta, carpetas, r.destino) /\ meta'[r.destino] = meta[r.destino]
      BY <1>0, <1>d, <2>1, <2>4, <2>7
    <3> QED
      BY <1>0, <3>1, AcordeSigue
  <2> QED
    BY <2>1, <2>2, <2>3, <2>4, <2>5, <2>6, <2>7, EscribeAvanza
<1>3. CASE purgaRm(h)
  <2>1. /\ r.paso = "purga_rm" /\ Sigue(h, OCIOSO) /\ UNCHANGED <<sucios, carpetas, meta>>
        /\ disco' = [disco EXCEPT ![k] = [v \in Version |-> NADA]]
    BY <1>3 DEF purgaRm
  <2>2. /\ disco'[k] = [v \in Version |-> NADA]
        /\ \A x \in Clave : x # k => disco'[x] = disco[x]
    BY <1>0, <2>1 DEF Inv, Tipos, Disco
  <2>3. Cumple(r, disco, meta, carpetas) => Acorde(disco', meta, carpetas, k)
    <3>1. Tiene(disco', k, 1, 0)
      <4>1. \A v \in Version : disco'[k][v] = NADA /\ ~(1 <= v /\ v <= 0)
        BY <2>2 DEF Version
      <4> QED
        BY <4>1 DEF Tiene
    <3>2. Cumple(r, disco, meta, carpetas) => meta[k] = NADA
      BY <2>1 DEF Cumple, Fiel, SabeMetadatos
    <3> QED
      BY <3>1, <3>2 DEF Acorde
  <2>4. ASSUME Cumple(r, disco, meta, carpetas), r.destino # k
        PROVE  Acorde(disco', meta, carpetas, r.destino)
    <3>1. Acorde(disco, meta, carpetas, r.destino) /\ disco'[r.destino] = disco[r.destino]
      BY <1>0, <1>d, <2>1, <2>2, <2>4
    <3> QED
      BY <1>0, <3>1, AcordeSigue
  <2> QED
    BY <2>1, <2>2, <2>3, <2>4, EscribeAvanza
<1> QED
  BY <1>1, <1>2, <1>3 DEF Purga

-----------------------------------------------------------------------------
(* A file that changes its name, restored or renamed: one version after the *)
(* other, then the metadata.                                                *)

\* What the thread knows while it moves the versions, and after that.
LEMMA SabeMoviendo ==
  ASSUME NEW r, NEW D, NEW M, NEW C, Fiel(r, D, M, C), r.paso \in Moviendo
  PROVE  /\ M[r.clave] # NADA /\ M[r.destino] = NADA /\ EnSuCarpeta(C, r.destino)
         /\ r.leido # NADA /\ r.leido.ultimaVersion = M[r.clave].ultimaVersion
         /\ M[r.clave].ultimaVersion \in Version /\ r.n \in 1..(M[r.clave].ultimaVersion + 1)
         /\ Tiene(D, r.clave, r.n, M[r.clave].ultimaVersion)
         /\ Tiene(D, r.destino, 1, r.n - 1)
BY DEF Fiel, SabeMetadatos, SabeMover

LEMMA SabeTrasMover ==
  ASSUME NEW r, NEW D, NEW M, NEW C, Fiel(r, D, M, C), r.paso \in TrasMover
  PROVE  /\ M[r.clave] # NADA /\ M[r.destino] = NADA /\ EnSuCarpeta(C, r.destino)
         /\ r.leido # NADA /\ r.leido.ultimaVersion = M[r.clave].ultimaVersion
         /\ M[r.clave].ultimaVersion \in Version
         /\ Tiene(D, r.clave, 1, 0)
         /\ Tiene(D, r.destino, 1, M[r.clave].ultimaVersion)
         /\ r.paso \in {"rest_lote", "rest_escribe"} =>
              r.nuevo # NADA /\ r.nuevo.ultimaVersion = M[r.clave].ultimaVersion
BY DEF Fiel, SabeMetadatos, SabeMover

LEMMA TrasMoverFiel ==
  ASSUME NEW r, NEW D, NEW M, NEW C, r.paso \in TrasMover,
         M[r.clave] # NADA, M[r.destino] = NADA, EnSuCarpeta(C, r.destino),
         r.leido # NADA, r.leido.ultimaVersion = M[r.clave].ultimaVersion,
         M[r.clave].ultimaVersion \in Version,
         Tiene(D, r.clave, 1, 0), Tiene(D, r.destino, 1, M[r.clave].ultimaVersion),
         r.paso \in {"rest_lote", "rest_escribe"} =>
           r.nuevo # NADA /\ r.nuevo.ultimaVersion = M[r.clave].ultimaVersion
  PROVE  Fiel(r, D, M, C)
<1>1. SabeMetadatos(r, M)
  BY DEF SabeMetadatos
<1>2. SabeSubir(r, D, M, C)
  BY DEF SabeSubir
<1>3. SabeBorrar(r, D, M)
  BY DEF SabeBorrar
<1>4. SabeMover(r, D, M, C)
  BY DEF SabeMover
<1> QED
  BY <1>1, <1>2, <1>3, <1>4 DEF Fiel

LEMMA MueveAvanza ==
  ASSUME Inv, Inv', Aislados, NEW h \in Hilo, hilo[h] # OCIOSO, hilo[h].paso \in Moviendo,
         hilo[h].clave # hilo[h].destino, ~Movidas(hilo[h]), NEW falla \in BOOLEAN,
         falla => \/ disco[hilo[h].clave][hilo[h].n] = NADA
                  \/ ~HayCarpeta(hilo[h].destino),
         disco' = IF falla THEN disco
                           ELSE Renombra(hilo[h].clave, hilo[h].destino, hilo[h].n),
         EscribeDisco(h, IF falla THEN OCIOSO ELSE [hilo[h] EXCEPT !.n = @ + 1])
  PROVE  Aislados'
<1> DEFINE r == hilo[h]
           k == r.clave
           c == r.destino
           L == meta[k].ultimaVersion
           s == [r EXCEPT !.n = @ + 1]
           q == IF falla THEN OCIOSO ELSE s
<1>0. r \in Pedido /\ Forma(r) /\ k \in Clave /\ c \in Clave /\ r.n \in Int
  BY EnTarea
<1>1. Sigue(h, q) /\ UNCHANGED <<sucios, carpetas, meta>>
  BY DEF EscribeDisco
<1>2. /\ s.paso = r.paso /\ s.clave = k /\ s.destino = c /\ s.n = r.n + 1
      /\ s.toca = r.toca /\ s.user = r.user /\ s.leido = r.leido /\ s # OCIOSO
  BY <1>0 DEF Pedido, OCIOSO
<1> HIDE DEF s
<1>3. Forma(s) /\ Exento(s) = {k, c}
  BY <1>0, <1>2 DEF Forma, Exento
<1>4. \A x \in Clave : x \notin {k, c} => disco'[x] = disco[x]
  BY <1>0 DEF Renombra, Inv, Tipos, Disco
<1>5. ASSUME Cumple(r, disco, meta, carpetas)
      PROVE  q = s /\ Fiel(s, disco', meta, carpetas)
  <2>0. Fiel(r, disco, meta, carpetas)
    BY <1>5 DEF Cumple
  <2>1. /\ meta[k] # NADA /\ meta[c] = NADA /\ EnSuCarpeta(carpetas, c)
        /\ r.leido # NADA /\ r.leido.ultimaVersion = L
        /\ L \in Version /\ r.n \in 1..(L + 1)
        /\ Tiene(disco, k, r.n, L) /\ Tiene(disco, c, 1, r.n - 1)
    BY <2>0, SabeMoviendo
  <2>2. r.n \in Version /\ r.n <= L
    <3> HIDE DEF L
    <3> QED
      BY <2>1, MaxVersionAssumption DEF Movidas, Version
  <2> HIDE DEF L
  <2>3. ~falla
    BY <2>1, <2>2 DEF Tiene, Version, HayCarpeta, EnSuCarpeta
  <2>4. Tiene(disco', k, r.n + 1, L) /\ Tiene(disco', c, 1, r.n)
    BY <1>0, <2>1, <2>2, <2>3, RenombraEfecto
  <2>5. s.n \in 1..(L + 1) /\ s.n - 1 = r.n
    BY <1>2, <2>1, <2>2 DEF Version
  <2>6. SabeMetadatos(s, meta)
    BY <1>2, <2>1 DEF SabeMetadatos, L
  <2>7. SabeSubir(s, disco', meta, carpetas) /\ SabeBorrar(s, disco', meta)
    BY <1>2 DEF SabeSubir, SabeBorrar
  <2>8. SabeMover(s, disco', meta, carpetas)
    BY <1>2, <2>1, <2>4, <2>5 DEF SabeMover, L
  <2>9. Fiel(s, disco', meta, carpetas)
    BY <2>6, <2>7, <2>8 DEF Fiel
  <2> QED
    BY <2>3, <2>9
<1>6. q # OCIOSO => q = s
  OBVIOUS
<1> HIDE DEF q
<1> QED
  BY <1>1, <1>2, <1>3, <1>4, <1>5, <1>6, EscribeAvanza

\* All of them moved, the thread goes on.
LEMMA MovidasAvanza ==
  ASSUME Inv, Inv', Aislados, NEW h \in Hilo, hilo[h] # OCIOSO, hilo[h].paso \in Moviendo,
         Movidas(hilo[h]), NEW q, Lee(h, q), q # OCIOSO, Forma(q), q.paso \in TrasMover,
         q.clave = hilo[h].clave, q.destino = hilo[h].destino, q.toca = hilo[h].toca,
         q.leido = hilo[h].leido,
         q.paso \in {"rest_lote", "rest_escribe"} => q.nuevo = meta[q.clave]
  PROVE  Aislados'
<1> DEFINE r == hilo[h]
           k == r.clave
           c == r.destino
           L == meta[k].ultimaVersion
<1>1. Exento(r) = {k, c} /\ Exento(q) = {k, c}
  BY DEF Exento
<1>2. ASSUME Cumple(r, disco, meta, carpetas) PROVE Fiel(q, disco, meta, carpetas)
  <2>0. Fiel(r, disco, meta, carpetas)
    BY <1>2 DEF Cumple
  <2>1. /\ meta[k] # NADA /\ meta[c] = NADA /\ EnSuCarpeta(carpetas, c)
        /\ r.leido # NADA /\ r.leido.ultimaVersion = L
        /\ L \in Version /\ r.n \in 1..(L + 1)
        /\ Tiene(disco, k, r.n, L) /\ Tiene(disco, c, 1, r.n - 1)
    BY <2>0, SabeMoviendo
  <2>2. /\ q.leido # NADA /\ q.leido.ultimaVersion = L
        /\ q.paso \in {"rest_lote", "rest_escribe"} =>
             q.nuevo # NADA /\ q.nuevo.ultimaVersion = L
    BY <2>1
  <2> HIDE DEF L
  <2>3. r.n = L + 1
    BY <2>1, MaxVersionAssumption DEF Movidas, Version
  <2>4. Tiene(disco, k, 1, 0) /\ Tiene(disco, c, 1, L)
    BY <2>1, <2>3 DEF Tiene, Version
  <2> QED
    BY <2>1, <2>2, <2>4, TrasMoverFiel DEF L
<1> QED
  BY <1>1, <1>2, LeeAvanza

\* After that, the thread goes on without touching the files.
LEMMA TrasMoverAvanza ==
  ASSUME Inv, Inv', Aislados, NEW h \in Hilo, hilo[h] # OCIOSO, hilo[h].paso \in TrasMover,
         NEW q, Sigue(h, q), UNCHANGED <<sucios, carpetas, disco, meta>>, q # OCIOSO,
         Forma(q), q.paso \in {"ren_indice", "ren_modify", "ren_escribe"},
         q.clave = hilo[h].clave, q.destino = hilo[h].destino, q.toca = hilo[h].toca,
         q.leido = hilo[h].leido
  PROVE  Aislados'
<1> DEFINE r == hilo[h]
<1>1. Exento(q) = {r.clave, r.destino}
  BY DEF Exento, TrasMover
<1>2. ASSUME Cumple(r, disco, meta, carpetas) PROVE Fiel(q, disco, meta, carpetas)
  <2>0. Fiel(r, disco, meta, carpetas)
    BY <1>2 DEF Cumple
  <2>1. q.paso \in TrasMover /\ q.paso \notin {"rest_lote", "rest_escribe"}
    BY DEF TrasMover
  <2> QED
    BY <2>0, <2>1, SabeTrasMover, TrasMoverFiel
<1> QED
  BY <1>1, <1>2, EscribeAvanza

\* The batch that ends it.
LEMMA EscribeMovido ==
  ASSUME Inv, Inv', Aislados, NEW h \in Hilo, hilo[h] # OCIOSO, hilo[h].paso \in TrasMover,
         hilo[h].clave # hilo[h].destino, NEW m,
         Cumple(hilo[h], disco, meta, carpetas) =>
           m # NADA /\ m.ultimaVersion = hilo[h].leido.ultimaVersion,
         meta' = [meta EXCEPT ![hilo[h].clave] = NADA, ![hilo[h].destino] = m],
         EscribeDB(h, OCIOSO)
  PROVE  Aislados'
<1> DEFINE r == hilo[h]
           k == r.clave
           c == r.destino
<1>0. k \in Clave /\ c \in Clave
  BY EnTarea
<1>1. Sigue(h, OCIOSO) /\ UNCHANGED <<sucios, carpetas, disco>>
  BY DEF EscribeDB
<1>2. /\ meta'[k] = NADA /\ meta'[c] = m
      /\ \A x \in Clave : x \notin {k, c} => meta'[x] = meta[x]
  BY <1>0 DEF Inv, Tipos
<1>3. ASSUME Cumple(r, disco, meta, carpetas)
      PROVE  Acorde(disco, meta', carpetas, k) /\ Acorde(disco, meta', carpetas, c)
  <2>0. Fiel(r, disco, meta, carpetas)
    BY <1>3 DEF Cumple
  <2>1. /\ EnSuCarpeta(carpetas, c) /\ m.ultimaVersion \in Version
        /\ Tiene(disco, k, 1, 0) /\ Tiene(disco, c, 1, m.ultimaVersion)
    BY <1>3, <2>0, SabeTrasMover
  <2> QED
    BY <1>2, <1>3, <2>1 DEF Acorde
<1> QED
  BY <1>1, <1>2, <1>3, EscribeAvanza

LEMMA RestauraAislado ==
  ASSUME Inv, Inv', Aislados, NEW h \in Hilo, hilo[h] # OCIOSO, Restaura(h)
  PROVE  Aislados'
<1> DEFINE r == hilo[h]
           k == r.clave
           c == r.destino
<1>0. r \in Pedido /\ Forma(r) /\ k \in Clave /\ c \in Clave /\ r.n \in Int
  BY EnTarea
<1>p. r.paso \in Restaurando
  BY DEF Restaura, restauraCarpeta, puedoRestaurarA, restauraGet, restauraMueve, restauraLee,
         loteRestaura, restauraEscribe, deshacerRestaurado
<1>k. ~Viva(k) /\ c = ClaveReal(r.user, k) /\ k # c /\ Viva(c)
  BY <1>0, <1>p DEF Forma, ClaveReal, Viva
<1>a. ASSUME Cumple(r, disco, meta, carpetas), Exento(r) = {}
      PROVE  Acorde(disco, meta, carpetas, k) /\ Acorde(disco, meta, carpetas, c)
  BY <1>0, <1>p, <1>a DEF Cumple, Forma
<1>1. CASE restauraCarpeta(h)
  <2> DEFINE q == En("puedo", r)
  <2>1. /\ r.paso = "rest_carpeta" /\ Sigue(h, q) /\ UNCHANGED <<sucios, disco, meta>>
        /\ carpetas' = ConCarpeta(r.user, CarpetaDe(k.ruta))
    BY <1>1 DEF restauraCarpeta
  <2>2. /\ q.paso = "puedo" /\ q.clave = k /\ q.destino = c /\ q.n = r.n
        /\ q.toca = r.toca /\ q.user = r.user /\ q # OCIOSO
    BY <1>0 DEF En, Pedido, OCIOSO
  <2> HIDE DEF q
  <2>3. Forma(q)
    BY <1>0, <2>1, <2>2 DEF Forma
  <2>4. /\ \A x \in Clave : EnSuCarpeta(carpetas, x) => EnSuCarpeta(carpetas', x)
        /\ CarpetaDe(k.ruta) \in carpetas'[r.user]
    BY <1>0, <2>1, ConCarpetaSigue DEF Pedido
  <2>5. Fiel(q, disco, meta, carpetas')
    <3>1. EnSuCarpeta(carpetas', c)
      BY <1>k, <2>4 DEF EnSuCarpeta, ClaveReal
    <3> QED
      BY <2>2, <3>1 DEF Fiel, SabeMetadatos, SabeSubir, SabeBorrar, SabeMover
  <2>6. Exento(r) = {}
    BY <2>1 DEF Exento
  <2> QED
    BY <2>1, <2>2, <2>3, <2>4, <2>5, <2>6, CarpetaAvanza
<1>2. CASE puedoRestaurarA(h)
  <2> DEFINE q == En("rest_get", r)
  <2>1. /\ r.paso = "puedo"
        /\ Lee(h, OCIOSO) \/ (meta[c] = NADA /\ meta[k] # NADA /\ Lee(h, q))
    BY <1>2 DEF puedoRestaurarA, Existe, existeMetadato
  <2>2. /\ q.paso = "rest_get" /\ q.clave = k /\ q.destino = c /\ q.n = r.n
        /\ q.toca = r.toca /\ q.user = r.user /\ q # OCIOSO
    BY <1>0 DEF En, Pedido, OCIOSO
  <2> HIDE DEF q
  <2>3. Forma(q)
    BY <1>0, <2>1, <2>2 DEF Forma
  <2>4. Cumple(r, disco, meta, carpetas) /\ meta[c] = NADA /\ meta[k] # NADA =>
          Fiel(q, disco, meta, carpetas)
    BY <2>1, <2>2 DEF Cumple, Fiel, SabeMetadatos, SabeSubir, SabeBorrar, SabeMover
  <2>5. Exento(r) = {}
    BY <2>1 DEF Exento
  <2> QED
    BY <2>1, <2>2, <2>3, <2>4, <2>5, LeeAvanza, LeeTermina
<1>3. CASE restauraGet(h)
  <2> DEFINE q == [En("rest_mueve", r) EXCEPT !.leido = meta[k]]
  <2>1. r.paso = "rest_get" /\ Lee(h, q) /\ meta[k] # NADA
    BY <1>3 DEF restauraGet, Get, existeMetadato
  <2>2. /\ q.paso = "rest_mueve" /\ q.clave = k /\ q.destino = c /\ q.n = r.n
        /\ q.toca = r.toca /\ q.user = r.user /\ q.leido = meta[k] /\ q # OCIOSO
    BY <1>0 DEF En, Pedido, OCIOSO
  <2> HIDE DEF q
  <2>3. Forma(q) /\ q.n = 1
    BY <1>0, <2>1, <2>2 DEF Forma
  <2>4. ASSUME Cumple(r, disco, meta, carpetas) PROVE Fiel(q, disco, meta, carpetas)
    <3>1. Acorde(disco, meta, carpetas, k) /\ Acorde(disco, meta, carpetas, c)
      BY <1>a, <2>1, <2>4 DEF Exento
    <3>2. meta[c] = NADA /\ EnSuCarpeta(carpetas, c)
      BY <2>1, <2>4 DEF Cumple, Fiel, SabeMover
    <3>3. /\ meta[k].ultimaVersion \in Version /\ Tiene(disco, k, 1, meta[k].ultimaVersion)
          /\ Tiene(disco, c, 1, 1 - 1)
      BY <2>1, <3>1, <3>2 DEF Acorde
    <3>4. 1 \in 1..(meta[k].ultimaVersion + 1)
      BY <3>3, MaxVersionAssumption DEF Version
    <3> QED
      BY <2>1, <2>2, <2>3, <3>2, <3>3, <3>4
         DEF Fiel, SabeMetadatos, SabeSubir, SabeBorrar, SabeMover
  <2>5. Exento(r) = {}
    BY <2>1 DEF Exento
  <2> QED
    BY <2>1, <2>2, <2>3, <2>4, <2>5, LeeAvanza
<1>4. CASE restauraMueve(h)
  <2> DEFINE falla == disco[k][r.n] = NADA \/ ~HayCarpeta(c)
  <2>1. /\ r.paso = "rest_mueve" /\ ~Movidas(r)
        /\ disco' = IF falla THEN disco ELSE Renombra(k, c, r.n)
        /\ EscribeDisco(h, IF falla THEN OCIOSO ELSE [r EXCEPT !.n = @ + 1])
    BY <1>4 DEF restauraMueve
  <2> QED
    BY <1>k, <2>1, MueveAvanza
<1>5. CASE restauraLee(h)
  <2> DEFINE q == [En("rest_lote", r) EXCEPT !.nuevo = meta[k]]
  <2>1. r.paso = "rest_mueve" /\ Movidas(r) /\ Lee(h, q)
    BY <1>5 DEF restauraLee, Get
  <2>2. /\ q.paso = "rest_lote" /\ q.clave = k /\ q.destino = c /\ q.n = r.n
        /\ q.toca = r.toca /\ q.user = r.user /\ q.leido = r.leido /\ q.nuevo = meta[k]
        /\ q # OCIOSO
    BY <1>0 DEF En, Pedido, OCIOSO
  <2> HIDE DEF q
  <2>3. Forma(q)
    BY <1>0, <2>1, <2>2 DEF Forma
  <2> QED
    BY <2>1, <2>2, <2>3, MovidasAvanza
<1>6. CASE loteRestaura(h)
  <2> DEFINE q == En("rest_escribe", r)
             d == [En("deshace", r) EXCEPT !.n = 1]
  <2>1. /\ r.paso = "rest_lote"
        /\ \/ meta[k] # NADA /\ meta[c] = NADA /\ Lee(h, q)
           \/ ~(meta[k] # NADA /\ meta[c] = NADA) /\ Lee(h, d)
    BY <1>6 DEF loteRestaura, existeMetadato
  <2>2. /\ q.paso = "rest_escribe" /\ d.paso = "deshace"
        /\ \A s \in {q, d} : /\ s.clave = k /\ s.destino = c /\ s.toca = r.toca
                            /\ s.user = r.user /\ s.leido = r.leido /\ s.nuevo = r.nuevo
                            /\ s # OCIOSO
    BY <1>0 DEF En, Pedido, OCIOSO
  <2> HIDE DEF q, d
  <2>3. Forma(q) /\ Forma(d)
    BY <1>0, <2>1, <2>2 DEF Forma
  <2>4. ASSUME Cumple(r, disco, meta, carpetas)
        PROVE  meta[k] # NADA /\ meta[c] = NADA /\ Fiel(q, disco, meta, carpetas)
    <3>0. Fiel(r, disco, meta, carpetas)
      BY <2>4 DEF Cumple
    <3> QED
      BY <2>1, <2>2, <3>0, SabeTrasMover, TrasMoverFiel
  <2>5. Exento(r) = {k, c} /\ Exento(q) = {k, c}
    BY <2>1, <2>2 DEF Exento
  <2>6. CASE Lee(h, q)
    BY <2>2, <2>3, <2>4, <2>5, <2>6, LeeAvanza
  <2>7. CASE ~(meta[k] # NADA /\ meta[c] = NADA) /\ Lee(h, d)
    BY <2>2, <2>3, <2>4, <2>7, LeeAvanza
  <2> QED
    BY <2>1, <2>6, <2>7
<1>7. CASE restauraEscribe(h)
  <2>1. /\ r.paso = "rest_escribe" /\ EscribeDB(h, OCIOSO)
        /\ meta' = [meta EXCEPT ![k] = NADA, ![c] = r.nuevo]
    BY <1>7 DEF restauraEscribe
  <2>2. Cumple(r, disco, meta, carpetas) =>
          r.nuevo # NADA /\ r.nuevo.ultimaVersion = r.leido.ultimaVersion
    BY <2>1, SabeTrasMover DEF Cumple
  <2> QED
    BY <1>k, <2>1, <2>2, EscribeMovido
<1>8. CASE deshacerRestaurado(h)
  <2> DEFINE s == [r EXCEPT !.n = @ + 1]
             q == IF r.n >= r.leido.ultimaVersion THEN OCIOSO ELSE s
  <2>1. /\ r.paso = "deshace" /\ Sigue(h, q) /\ UNCHANGED <<sucios, carpetas, meta>>
        /\ disco' = disco \/ disco' = Renombra(c, k, r.n)
    BY <1>8 DEF deshacerRestaurado, EscribeDisco
  <2>2. \A x \in Clave : x \notin {k, c} => disco'[x] = disco[x]
    BY <1>0, <2>1 DEF Renombra, Inv, Tipos, Disco
  <2>3. ~Cumple(r, disco, meta, carpetas)
    BY <2>1 DEF Cumple, Fiel, SabeMover
  <2>4. /\ s.paso = "deshace" /\ s.clave = k /\ s.destino = c
        /\ s.toca = r.toca /\ s.user = r.user
    BY <1>0, <2>1 DEF Pedido
  <2> HIDE DEF s
  <2>5. Forma(s)
    BY <1>0, <2>1, <2>4 DEF Forma
  <2>6. q # OCIOSO => Forma(q) /\ q.toca = r.toca
    BY <2>4, <2>5
  <2> HIDE DEF q
  <2> QED
    BY <2>1, <2>2, <2>3, <2>6, EscribeAvanza
<1> QED
  BY <1>1, <1>2, <1>3, <1>4, <1>5, <1>6, <1>7, <1>8 DEF Restaura

LEMMA RenombraAislado ==
  ASSUME Inv, Inv', Aislados, NEW h \in Hilo, hilo[h] # OCIOSO, RenombraArchivo(h)
  PROVE  Aislados'
<1> DEFINE r == hilo[h]
           k == r.clave
           c == r.destino
<1>0. r \in Pedido /\ Forma(r) /\ k \in Clave /\ c \in Clave /\ r.n \in Int
  BY EnTarea
<1>p. /\ r.paso \in {"permiso", "ren_mueve", "ren_indice", "ren_modify", "ren_escribe"}
      /\ r.paso = "permiso" => k # c
  BY DEF RenombraArchivo, renombraHay, renombraMueve, renombraGet, renombraIndice,
         renombraModify, renombraLote, renombraEscribe
<1>k. Viva(k) /\ MismaCarpeta(k, c) /\ k # c
  BY <1>0, <1>p DEF Forma
<1>f. ASSUME NEW q, q # OCIOSO, q.clave = k, q.destino = c, q.toca = r.toca,
             q.paso \in {"ren_mueve", "ren_indice", "ren_modify", "ren_escribe"}
      PROVE  Forma(q)
  BY <1>0, <1>p, <1>k, <1>f DEF Forma
<1>1. CASE renombraHay(h)
  <2> DEFINE q == En("ren_mueve", r)
  <2>1. r.paso = "permiso" /\ (Lee(h, OCIOSO) \/ (meta[c] = NADA /\ Lee(h, q)))
    BY <1>1 DEF renombraHay, existeMetadato
  <2>2. /\ q.paso = "ren_mueve" /\ q.clave = k /\ q.destino = c /\ q.n = r.n
        /\ q.toca = r.toca /\ q.leido = r.leido /\ q # OCIOSO
    BY <1>0 DEF En, Pedido, OCIOSO
  <2> HIDE DEF q
  <2>3. Forma(q) /\ r.n = 1
    BY <1>0, <1>f, <2>1, <2>2 DEF Forma
  <2>5. Exento(r) = {}
    BY <2>1 DEF Exento
  <2>4. ASSUME Cumple(r, disco, meta, carpetas), meta[c] = NADA
        PROVE  Fiel(q, disco, meta, carpetas)
    <3>1. Acorde(disco, meta, carpetas, k) /\ Acorde(disco, meta, carpetas, c)
      BY <1>0, <2>1, <2>4, <2>5 DEF Cumple, Forma
    <3>2. /\ meta[k] # NADA /\ r.leido # NADA
          /\ r.leido.ultimaVersion = meta[k].ultimaVersion
      BY <2>1, <2>4 DEF Cumple, Fiel, SabeMetadatos
    <3>3. /\ meta[k].ultimaVersion \in Version /\ Tiene(disco, k, 1, meta[k].ultimaVersion)
          /\ EnSuCarpeta(carpetas, k) /\ Tiene(disco, c, 1, 1 - 1)
      BY <1>k, <2>4, <3>1, <3>2 DEF Acorde
    <3>4. EnSuCarpeta(carpetas, c)
      BY <1>k, <3>3 DEF EnSuCarpeta, MismaCarpeta
    <3>5. 1 \in 1..(meta[k].ultimaVersion + 1)
      BY <3>3, MaxVersionAssumption DEF Version
    <3> QED
      BY <2>2, <2>3, <2>4, <3>2, <3>3, <3>4, <3>5
         DEF Fiel, SabeMetadatos, SabeSubir, SabeBorrar, SabeMover
  <2> QED
    BY <2>1, <2>2, <2>3, <2>4, <2>5, LeeAvanza, LeeTermina
<1>2. CASE renombraMueve(h)
  <2> DEFINE falla == disco[k][r.n] = NADA \/ ~HayCarpeta(c)
  <2>1. /\ r.paso = "ren_mueve" /\ ~Movidas(r)
        /\ disco' = IF falla THEN disco ELSE Renombra(k, c, r.n)
        /\ EscribeDisco(h, IF falla THEN OCIOSO ELSE [r EXCEPT !.n = @ + 1])
    BY <1>2 DEF renombraMueve
  <2> QED
    BY <1>k, <2>1, MueveAvanza
<1>3. CASE renombraGet(h)
  <2> DEFINE q == [En("ren_indice", r) EXCEPT !.pend = r.lista \ {k.dueno}]
  <2>1. r.paso = "ren_mueve" /\ Movidas(r) /\ Lee(h, q)
    BY <1>3 DEF renombraGet, Get
  <2>2. /\ q.paso = "ren_indice" /\ q.clave = k /\ q.destino = c
        /\ q.toca = r.toca /\ q.leido = r.leido /\ q # OCIOSO
    BY <1>0 DEF En, Pedido, OCIOSO
  <2> HIDE DEF q
  <2> QED
    BY <1>f, <2>1, <2>2, MovidasAvanza
<1>4. CASE renombraIndice(h)
  <2>1. PICK g \in r.pend :
          Lee(h, [En("ren_modify", r) EXCEPT
                    !.pend = @ \ {g}, !.quien = g,
                    !.indices[g] = (permisos[g] \ {k}) \cup {c}])
    BY <1>4 DEF renombraIndice
  <2> DEFINE q == [En("ren_modify", r) EXCEPT
                    !.pend = @ \ {g}, !.quien = g,
                    !.indices[g] = (permisos[g] \ {k}) \cup {c}]
  <2>2. /\ q.paso = "ren_modify" /\ q.clave = k /\ q.destino = c
        /\ q.toca = r.toca /\ q.leido = r.leido /\ q # OCIOSO
    BY <1>0 DEF En, Pedido, OCIOSO
  <2>3. Sigue(h, q) /\ UNCHANGED <<sucios, carpetas, disco, meta>>
    BY <2>1 DEF Lee
  <2>4. r.paso = "ren_indice"
    BY <1>4 DEF renombraIndice
  <2> HIDE DEF q
  <2> QED
    BY <1>f, <2>2, <2>3, <2>4, TrasMoverAvanza
<1>5. CASE renombraModify(h)
  <2> DEFINE q == En("ren_indice", r)
  <2>1. r.paso = "ren_modify" /\ Sigue(h, q) /\ UNCHANGED <<sucios, carpetas, disco, meta>>
    BY <1>5 DEF renombraModify, EscribeDB
  <2>2. /\ q.paso = "ren_indice" /\ q.clave = k /\ q.destino = c
        /\ q.toca = r.toca /\ q.leido = r.leido /\ q # OCIOSO
    BY <1>0 DEF En, Pedido, OCIOSO
  <2> HIDE DEF q
  <2> QED
    BY <1>f, <2>1, <2>2, TrasMoverAvanza
<1>6. CASE renombraLote(h)
  <2> DEFINE q == En("ren_escribe", r)
  <2>1. /\ r.paso = "ren_indice"
        /\ \/ meta[k] # NADA /\ meta[c] = NADA /\ Lee(h, q)
           \/ ~(meta[k] # NADA /\ meta[c] = NADA) /\ Lee(h, OCIOSO)
    BY <1>6 DEF renombraLote, existeMetadato
  <2>2. /\ q.paso = "ren_escribe" /\ q.clave = k /\ q.destino = c
        /\ q.toca = r.toca /\ q.leido = r.leido /\ q # OCIOSO
    BY <1>0 DEF En, Pedido, OCIOSO
  <2> HIDE DEF q
  <2>3. Cumple(r, disco, meta, carpetas) => meta[k] # NADA /\ meta[c] = NADA
    BY <2>1, SabeTrasMover DEF Cumple
  <2>4. CASE Lee(h, q)
    <3>1. Sigue(h, q) /\ UNCHANGED <<sucios, carpetas, disco, meta>>
      BY <2>4 DEF Lee
    <3> QED
      BY <1>f, <2>1, <2>2, <3>1, TrasMoverAvanza
  <2>5. CASE ~(meta[k] # NADA /\ meta[c] = NADA) /\ Lee(h, OCIOSO)
    BY <2>3, <2>5, LeeTermina
  <2> QED
    BY <2>1, <2>4, <2>5
<1>7. CASE renombraEscribe(h)
  <2>1. /\ r.paso = "ren_escribe" /\ EscribeDB(h, OCIOSO)
        /\ meta' = [meta EXCEPT ![k] = NADA, ![c] = Enviado(r)]
    BY <1>7 DEF renombraEscribe
  <2>2. Enviado(r) # NADA /\ Enviado(r).ultimaVersion = r.leido.ultimaVersion
    <3>1. r.leido \in Metadato
      BY <2>1, EnTrabajo DEF ConLeido
    <3>2. Enviado(r) \in Metadato
      BY <1>0, <3>1 DEF Enviado, Metadato, Pedido, Clave
    <3> QED
      BY <3>2, NadaHilosAssumption DEF Enviado
  <2> QED
    BY <1>k, <2>1, <2>2, EscribeMovido
<1> QED
  BY <1>1, <1>2, <1>3, <1>4, <1>5, <1>6, <1>7 DEF RenombraArchivo

-----------------------------------------------------------------------------
(* Updates of the metadata, and searches *)

LEMMA ActualizaAislado ==
  ASSUME Inv, Inv', Aislados, NEW h \in Hilo, hilo[h] # OCIOSO, Actualiza(h)
  PROVE  Aislados'
<1> DEFINE r == hilo[h]
           k == r.clave
           c == r.destino
           pasos == {"act_get", "permiso", "perm_get", "perm_indice", "perm_lote",
                     "perm_escribe", "act_put"}
<1>0. r \in Pedido /\ Forma(r) /\ k \in Clave /\ c \in Clave
  BY EnTarea
<1>p. r.paso \in pasos
  BY DEF Actualiza, actualizaGet, siguientePermiso, permisoGet, permisoIndice, permisoLote,
         permisoEscribe, actualizaModify, actualizaPut, PorModificar
<1>f. ASSUME NEW q, q # OCIOSO, q.clave = k, q.destino = c, q.toca = r.toca, q.n = r.n,
             q.paso \in pasos, r.paso # "act_put"
      PROVE  Forma(q)
  BY <1>0, <1>p, <1>f DEF Forma
<1>e. Exento(r) = {}
  BY <1>p DEF Exento
<1>a. ASSUME Cumple(r, disco, meta, carpetas)
      PROVE  /\ meta[k] # NADA
             /\ Acorde(disco, meta, carpetas, k) /\ Acorde(disco, meta, carpetas, c)
             /\ r.paso # "act_get" =>
                  r.leido # NADA /\ r.leido.ultimaVersion = meta[k].ultimaVersion
  BY <1>0, <1>p, <1>e, <1>a DEF Cumple, Forma, Fiel, SabeMetadatos
<1>s. ASSUME NEW q, NEW M, q.paso \in pasos \ {"perm_indice", "perm_lote", "perm_escribe"},
             M[q.clave] # NADA,
             q.paso # "act_get" =>
               q.leido # NADA /\ q.leido.ultimaVersion = M[q.clave].ultimaVersion
      PROVE  Fiel(q, disco, M, carpetas)
  BY <1>s DEF Fiel, SabeMetadatos, SabeSubir, SabeBorrar, SabeMover
<1>i. ASSUME NEW q, q.paso \in {"perm_indice", "perm_lote", "perm_escribe"},
             meta[q.clave] # NADA,
             q.leido # NADA, q.leido.ultimaVersion = meta[q.clave].ultimaVersion,
             q.nuevo # NADA, q.nuevo.ultimaVersion = meta[q.clave].ultimaVersion
      PROVE  Fiel(q, disco, meta, carpetas)
  BY <1>i DEF Fiel, SabeMetadatos, SabeSubir, SabeBorrar, SabeMover
<1>m. ASSUME NEW m, Cumple(r, disco, meta, carpetas), meta'[k] = m, m # NADA,
             m.ultimaVersion = meta[k].ultimaVersion,
             \A x \in Clave : x # k => meta'[x] = meta[x]
      PROVE  Acorde(disco, meta', carpetas, k) /\ Acorde(disco, meta', carpetas, c)
  <2>1. /\ meta[k] # NADA
        /\ Acorde(disco, meta, carpetas, k) /\ Acorde(disco, meta, carpetas, c)
    BY <1>a, <1>m
  <2>2. Acorde(disco, meta', carpetas, k)
    BY <1>m, <2>1 DEF Acorde
  <2> QED
    BY <1>0, <1>m, <2>1, <2>2, AcordeSigue
<1> HIDE DEF pasos
<1>1. CASE actualizaGet(h)
  <2> DEFINE viejos == meta[k].usuarios
             lista == IF r.lista = {} THEN viejos ELSE r.lista
             q == [En("permiso", r) EXCEPT !.leido = meta[k], !.lista = lista,
                                           !.pend = (lista \ viejos) \cup (viejos \ lista)]
  <2>1. /\ r.paso = "act_get" /\ Sigue(h, q) /\ meta[k] # NADA
        /\ UNCHANGED <<sucios, carpetas, disco, meta>>
    BY <1>1 DEF actualizaGet, existeMetadato
  <2>2. /\ q.paso = "permiso" /\ q.clave = k /\ q.destino = c /\ q.n = r.n
        /\ q.toca = r.toca /\ q.leido = meta[k] /\ q # OCIOSO
    BY <1>0 DEF En, Pedido, OCIOSO
  <2> HIDE DEF q
  <2>3. Forma(q)
    BY <1>f, <2>1, <2>2 DEF pasos
  <2>4. Fiel(q, disco, meta, carpetas)
    BY <1>s, <2>1, <2>2 DEF pasos
  <2> QED
    BY <1>a, <2>1, <2>2, <2>3, <2>4, EscribeAvanza
<1>2. CASE siguientePermiso(h)
  <2>1. PICK g \in r.pend :
          LET q == [r EXCEPT !.pend = @ \ {g}, !.quien = g]
          IN  \/ existeMetadato(k) /\ Lee(h, En("perm_get", q))
              \/ Lee(h, q)
    BY <1>2 DEF siguientePermiso
  <2> DEFINE s == [r EXCEPT !.pend = @ \ {g}, !.quien = g]
             t == En("perm_get", s)
  <2>p. r.paso = "permiso"
    BY <1>2 DEF siguientePermiso
  <2>2. /\ s.paso = "permiso" /\ s.clave = k /\ s.destino = c /\ s.n = r.n
        /\ s.toca = r.toca /\ s.leido = r.leido /\ s # OCIOSO
        /\ t.paso = "perm_get" /\ t.clave = k /\ t.destino = c /\ t.n = r.n
        /\ t.toca = r.toca /\ t.leido = r.leido /\ t # OCIOSO
    BY <1>0, <2>p DEF En, Pedido, OCIOSO
  <2>3. Lee(h, t) \/ Lee(h, s)
    BY <2>1
  <2> HIDE DEF s, t
  <2>4. Forma(s) /\ Forma(t)
    BY <1>f, <2>p, <2>2 DEF pasos
  <2>5. ASSUME Cumple(r, disco, meta, carpetas)
        PROVE  Fiel(s, disco, meta, carpetas) /\ Fiel(t, disco, meta, carpetas)
    <3>1. /\ meta[k] # NADA
          /\ r.leido # NADA /\ r.leido.ultimaVersion = meta[k].ultimaVersion
      BY <1>a, <2>p, <2>5
    <3> QED
      BY <1>s, <2>2, <3>1 DEF pasos
  <2>6. CASE Lee(h, t)
    BY <1>e, <2>2, <2>4, <2>5, <2>6, LeeAvanza
  <2>7. CASE Lee(h, s)
    BY <1>e, <2>2, <2>4, <2>5, <2>7, LeeAvanza
  <2> QED
    BY <2>3, <2>6, <2>7
<1>3. CASE permisoGet(h)
  <2> DEFINE m == [meta[k] EXCEPT !.usuarios =
                     IF r.quien \in r.lista THEN @ \cup {r.quien} ELSE @]
             q == [En("perm_indice", r) EXCEPT !.nuevo = m]
  <2>1. r.paso = "perm_get" /\ Lee(h, q) /\ meta[k] # NADA
    BY <1>3 DEF permisoGet, Get, existeMetadato
  <2>m. m # NADA /\ m.ultimaVersion = meta[k].ultimaVersion
    <3>1. meta[k] \in Metadato /\ r.quien \in Usuario
      BY <1>0, <2>1 DEF Inv, Tipos, Pedido
    <3>2. m \in Metadato
      BY <3>1 DEF Metadato
    <3> QED
      BY <3>1, <3>2, NadaHilosAssumption DEF Metadato
  <2>2. /\ q.paso = "perm_indice" /\ q.clave = k /\ q.destino = c /\ q.n = r.n
        /\ q.toca = r.toca /\ q.leido = r.leido /\ q.nuevo = m /\ q # OCIOSO
    BY <1>0 DEF En, Pedido, OCIOSO
  <2> HIDE DEF q, m
  <2>3. Forma(q)
    BY <1>f, <2>1, <2>2 DEF pasos
  <2>4. ASSUME Cumple(r, disco, meta, carpetas) PROVE Fiel(q, disco, meta, carpetas)
    <3>1. r.leido # NADA /\ r.leido.ultimaVersion = meta[k].ultimaVersion
      BY <1>a, <2>1, <2>4
    <3> QED
      BY <1>i, <2>1, <2>m, <2>2, <3>1
  <2> QED
    BY <1>e, <2>1, <2>2, <2>3, <2>4, LeeAvanza
<1>4. CASE permisoIndice(h)
  <2> DEFINE g == r.quien
             q == [En("perm_lote", r) EXCEPT
                     !.indices[g] = IF g \in r.lista THEN permisos[g] \cup {k}
                                                     ELSE permisos[g] \ {k}]
  <2>1. r.paso = "perm_indice" /\ Lee(h, q)
    BY <1>4 DEF permisoIndice
  <2>2. /\ q.paso = "perm_lote" /\ q.clave = k /\ q.destino = c /\ q.n = r.n
        /\ q.toca = r.toca /\ q.leido = r.leido /\ q.nuevo = r.nuevo /\ q # OCIOSO
    BY <1>0 DEF En, Pedido, OCIOSO
  <2> HIDE DEF q
  <2>3. Forma(q)
    BY <1>f, <2>1, <2>2 DEF pasos
  <2>4. ASSUME Cumple(r, disco, meta, carpetas) PROVE Fiel(q, disco, meta, carpetas)
    <3>1. /\ meta[k] # NADA
          /\ r.leido # NADA /\ r.leido.ultimaVersion = meta[k].ultimaVersion
      BY <1>a, <2>1, <2>4
    <3>2. r.nuevo # NADA /\ r.nuevo.ultimaVersion = meta[k].ultimaVersion
      BY <2>1, <2>4 DEF Cumple, Fiel, SabeMetadatos
    <3> QED
      BY <1>i, <2>2, <3>1, <3>2
  <2> QED
    BY <1>e, <2>1, <2>2, <2>3, <2>4, LeeAvanza
<1>5. CASE permisoLote(h)
  <2> DEFINE p == IF existeMetadato(k) THEN "perm_escribe" ELSE "permiso"
             q == En(p, r)
  <2>1. r.paso = "perm_lote" /\ Lee(h, q)
    BY <1>5 DEF permisoLote
  <2>2. /\ q.paso \in {"perm_escribe", "permiso"} /\ q.clave = k /\ q.destino = c
        /\ q.n = r.n /\ q.toca = r.toca /\ q.leido = r.leido /\ q.nuevo = r.nuevo
        /\ q # OCIOSO
    BY <1>0 DEF En, Pedido, OCIOSO
  <2> HIDE DEF q
  <2>3. Forma(q)
    BY <1>f, <2>1, <2>2 DEF pasos
  <2>4. ASSUME Cumple(r, disco, meta, carpetas) PROVE Fiel(q, disco, meta, carpetas)
    <3>1. /\ meta[k] # NADA
          /\ r.leido # NADA /\ r.leido.ultimaVersion = meta[k].ultimaVersion
      BY <1>a, <2>1, <2>4
    <3>2. r.nuevo # NADA /\ r.nuevo.ultimaVersion = meta[k].ultimaVersion
      BY <2>1, <2>4 DEF Cumple, Fiel, SabeMetadatos
    <3>3. CASE q.paso = "perm_escribe"
      BY <1>i, <2>2, <3>1, <3>2, <3>3
    <3>4. CASE q.paso = "permiso"
      BY <1>s, <2>2, <3>1, <3>4 DEF pasos
    <3> QED
      BY <2>2, <3>3, <3>4
  <2> QED
    BY <1>e, <2>1, <2>2, <2>3, <2>4, LeeAvanza
<1>6. CASE permisoEscribe(h)
  <2> DEFINE q == En("permiso", r)
  <2>1. /\ r.paso = "perm_escribe" /\ Sigue(h, q) /\ UNCHANGED <<sucios, carpetas, disco>>
        /\ meta' = [meta EXCEPT ![k] = r.nuevo]
    BY <1>6 DEF permisoEscribe, EscribeDB
  <2>2. /\ q.paso = "permiso" /\ q.clave = k /\ q.destino = c /\ q.n = r.n
        /\ q.toca = r.toca /\ q.leido = r.leido /\ q # OCIOSO
    BY <1>0 DEF En, Pedido, OCIOSO
  <2> HIDE DEF q
  <2>3. Forma(q)
    BY <1>f, <2>1, <2>2 DEF pasos
  <2>4. meta'[k] = r.nuevo /\ \A x \in Clave : x # k => meta'[x] = meta[x]
    BY <1>0, <2>1 DEF Inv, Tipos
  <2>5. ASSUME Cumple(r, disco, meta, carpetas)
        PROVE  /\ Fiel(q, disco, meta', carpetas)
               /\ Acorde(disco, meta', carpetas, k) /\ Acorde(disco, meta', carpetas, c)
    <3>1. r.leido # NADA /\ r.leido.ultimaVersion = meta[k].ultimaVersion
      BY <1>a, <2>1, <2>5
    <3>2. r.nuevo # NADA /\ r.nuevo.ultimaVersion = meta[k].ultimaVersion
      BY <2>1, <2>5 DEF Cumple, Fiel, SabeMetadatos
    <3>3. Fiel(q, disco, meta', carpetas)
      BY <1>s, <2>2, <2>4, <3>1, <3>2 DEF pasos
    <3> QED
      BY <1>m, <2>4, <2>5, <3>2, <3>3
  <2> QED
    BY <2>1, <2>2, <2>3, <2>4, <2>5, EscribeAvanza
<1>7. CASE actualizaModify(h)
  <2> DEFINE q == En("act_put", r)
  <2>1. r.paso = "permiso" /\ Lee(h, q)
    BY <1>7 DEF actualizaModify, PorModificar, Get
  <2>2. /\ q.paso = "act_put" /\ q.clave = k /\ q.destino = c /\ q.n = r.n
        /\ q.toca = r.toca /\ q.leido = r.leido /\ q # OCIOSO
    BY <1>0 DEF En, Pedido, OCIOSO
  <2> HIDE DEF q
  <2>3. Forma(q)
    BY <1>f, <2>1, <2>2 DEF pasos
  <2>4. ASSUME Cumple(r, disco, meta, carpetas) PROVE Fiel(q, disco, meta, carpetas)
    <3>1. /\ meta[k] # NADA
          /\ r.leido # NADA /\ r.leido.ultimaVersion = meta[k].ultimaVersion
      BY <1>a, <2>1, <2>4
    <3> QED
      BY <1>s, <2>2, <3>1 DEF pasos
  <2> QED
    BY <1>e, <2>1, <2>2, <2>3, <2>4, LeeAvanza
<1>8. CASE actualizaPut(h)
  <2>1. /\ r.paso = "act_put" /\ Sigue(h, OCIOSO) /\ UNCHANGED <<sucios, carpetas, disco>>
        /\ meta' = [meta EXCEPT ![k] = Enviado(r)]
    BY <1>8 DEF actualizaPut, EscribeDB
  <2>2. Enviado(r) # NADA /\ Enviado(r).ultimaVersion = r.leido.ultimaVersion
    <3>1. r.leido \in Metadato
      BY <2>1, EnTrabajo DEF ConLeido
    <3>2. Enviado(r) \in Metadato
      BY <1>0, <3>1 DEF Enviado, Metadato, Pedido, Clave
    <3> QED
      BY <3>2, NadaHilosAssumption DEF Enviado
  <2>3. meta'[k] = Enviado(r) /\ \A x \in Clave : x # k => meta'[x] = meta[x]
    BY <1>0, <2>1 DEF Inv, Tipos
  <2>4. ASSUME Cumple(r, disco, meta, carpetas)
        PROVE  Acorde(disco, meta', carpetas, k) /\ Acorde(disco, meta', carpetas, c)
    <3>1. r.leido.ultimaVersion = meta[k].ultimaVersion
      BY <1>a, <2>1, <2>4
    <3> QED
      BY <1>m, <2>2, <2>3, <2>4, <3>1
  <2> QED
    BY <2>1, <2>3, <2>4, EscribeAvanza
<1> QED
  BY <1>1, <1>2, <1>3, <1>4, <1>5, <1>6, <1>7, <1>8 DEF Actualiza

LEMMA BuscaAislado ==
  ASSUME Inv, Inv', Aislados, NEW h \in Hilo, hilo[h] # OCIOSO, busca(h)
  PROVE  Aislados'
<1> DEFINE r == hilo[h]
<1>0. r \in Pedido /\ Forma(r)
  BY EnTarea
<1>1. PICK c \in r.claves :
        Lee(h, IF r.claves = {c} THEN OCIOSO ELSE [r EXCEPT !.claves = @ \ {c}])
  BY DEF busca, Get
<1> DEFINE q == [r EXCEPT !.claves = @ \ {c}]
<1>p. r.paso = "busca"
  BY DEF busca
<1>2. q.paso = "busca" /\ q.toca = r.toca /\ q # OCIOSO
  BY <1>0, <1>p DEF Pedido, OCIOSO
<1>3. Lee(h, OCIOSO) \/ Lee(h, q)
  BY <1>1
<1> HIDE DEF q
<1>4. Forma(q) /\ Exento(r) = {}
  BY <1>0, <1>p, <1>2 DEF Forma, Exento
<1>5. Fiel(q, disco, meta, carpetas)
  BY <1>2 DEF Fiel, SabeMetadatos, SabeSubir, SabeBorrar, SabeMover
<1> QED
  BY <1>2, <1>3, <1>4, <1>5, LeeAvanza, LeeTermina

-----------------------------------------------------------------------------
(* Crashes, Init and Next *)

\* A crash disturbs the files that were worked on, and leaves nobody at work.
LEMMA CaeAislado == ASSUME Aislados, Cae PROVE Aislados'
<1>1. /\ UNCHANGED <<carpetas, disco, meta>>
      /\ hilo' = [h \in Hilo |-> OCIOSO]
      /\ sucios' = sucios \cup UNION {hilo[h].toca : h \in Hilo}
  BY DEF Cae
<1>2. EnCurso' = {}
  BY <1>1 DEF EnCurso
<1>3. ASSUME NEW k \in Clave, Archivo(k) \notin sucios' PROVE Acorde(disco, meta, carpetas, k)
  BY <1>1, <1>3 DEF Aislados
<1> QED
  BY <1>1, <1>2, <1>3 DEF Aislados, Separados

LEMMA InitAislado == ASSUME Init PROVE Aislados
<1>0. PICK K \in Iniciales : \E C \in SUBSET {k \in K : Viva(k)} : Guardados(K, C)
  BY DEF Init
<1>1. PICK C \in SUBSET {k \in K : Viva(k)} : Guardados(K, C)
  BY <1>0
<1>2. /\ carpetas = [u \in Usuario |-> IF u \in Unidades THEN Carpeta ELSE {<<>>}]
      /\ hilo = [h \in Hilo |-> OCIOSO]
  BY DEF Init
<1>3. EnCurso = {}
  BY <1>2 DEF EnCurso
<1>4. ASSUME NEW k \in Clave PROVE Acorde(disco, meta, carpetas, k)
  <2>1. CASE k \notin K
    <3>1. meta[k] = NADA /\ \A v \in Version : disco[k][v] = NADA
      BY <1>1, <2>1 DEF Guardados
    <3> QED
      BY <3>1 DEF Acorde, Tiene, Version
  <2>2. CASE k \in K
    <3> DEFINE m == [propietario |-> k.dueno, ultimaVersion |-> VersionInicial,
                     usuarios |-> IF k \in C THEN Usuario ELSE {k.dueno}]
    <3>1. meta[k] = m
      BY <1>1, <2>2 DEF Guardados
    <3>2. m # NADA /\ m.ultimaVersion = VersionInicial
      <4>1. m \in Metadato
        BY UnidadesAssumption, MaxVersionAssumption DEF Metadato, Clave, Version
      <4> QED
        BY <4>1, NadaHilosAssumption
    <3> HIDE DEF m
    <3>3. VersionInicial \in Version
      BY UnidadesAssumption
    <3>4. Tiene(disco, k, 1, VersionInicial)
      <4>1. \A v \in Version : disco[k][v] = IF v <= VersionInicial THEN <<k, v, 0>> ELSE NADA
        BY <1>1, <2>2 DEF Guardados
      <4>2. \A v \in Version : <<k, v, 0>> # NADA
        BY NadaHilosAssumption, UnidadesAssumption DEF Contenido
      <4>3. \A v \in Version : disco[k][v] # NADA <=> v <= VersionInicial
        BY <4>1, <4>2
      <4>4. \A v \in Version : 1 <= v
        BY MaxVersionAssumption DEF Version
      <4> QED
        BY <4>3, <4>4 DEF Tiene
    <3>5. EnSuCarpeta(carpetas, k)
      <4>1. k.dueno \in Unidades /\ k.dueno \in Usuario /\ k.ruta \in Ruta
        BY <2>2, UnidadesAssumption DEF Clave
      <4>2. CarpetaDe(k.ruta) \in Carpeta
        BY <4>1, CarpetaEnSi DEF Carpeta
      <4> QED
        BY <1>2, <4>1, <4>2 DEF EnSuCarpeta
    <3> QED
      BY <3>1, <3>2, <3>3, <3>4, <3>5 DEF Acorde
  <2> QED
    BY <2>1, <2>2
<1> QED
  BY <1>3, <1>4 DEF Aislados, Separados

LEMMA NextAislado == ASSUME Inv, Aislados, [Next]_vars PROVE Aislados'
<1>0. Inv'
  BY NextInv
<1>1. ASSUME NEW h \in Hilo, Pide(h) PROVE Aislados'
  BY <1>1, PideAislado
<1>2. ASSUME NEW h \in Hilo, Paso(h) PROVE Aislados'
  BY <1>0, <1>2, SubeAislado, BorraAislado, BorraCarpetaAislado, PurgaAislado,
     RestauraAislado, ActualizaAislado, RenombraAislado, BuscaAislado DEF Paso
<1>3. ASSUME NEW h \in Hilo, Lanza(h) PROVE Aislados'
  BY <1>3, CaeAislado DEF Lanza
<1>4. CASE Caida
  BY <1>4, CaeAislado DEF Caida
<1>5. CASE UNCHANGED vars
  <2>1. UNCHANGED <<carpetas, disco, meta, hilo, sucios>>
    BY <1>5 DEF vars
  <2> QED
    BY <2>1 DEF Aislados, Separados, EnCurso, Limpio
<1> QED
  BY <1>1, <1>2, <1>3, <1>4, <1>5 DEF Next

LEMMA AisladosSiempre == Spec => [](Inv /\ Aislados)
<1>1. Init => Inv /\ Aislados
  BY InitInv, InitAislado
<1>2. Inv /\ Aislados /\ [Next]_vars => (Inv /\ Aislados)'
  BY NextInv, NextAislado
<1> QED
  BY <1>1, <1>2, PTL DEF Spec

-----------------------------------------------------------------------------
(* Theorems *)

\* The versions on disk are those of the metadata database for every file on which no
\* two requests ever met and no crash cut one short, whatever the other threads are
\* doing: neither a shared folder, trash or index, nor the rm -r of a folder found
\* empty, nor a crash of a request elsewhere, makes the two stores disagree on it.
THEOREM ConsistenciaAisladaSiempre == Spec => []ConsistenciaAislada
<1>1. Aislados => ConsistenciaAislada
  <2> SUFFICES ASSUME Aislados, NEW k \in Clave,
                      Archivo(k) \notin sucios \cup UNION {hilo[h].toca : h \in Hilo}
               PROVE  {v \in Version : disco[k][v] # NADA} =
                        IF existeMetadato(k) THEN 1..meta[k].ultimaVersion ELSE {}
    BY DEF ConsistenciaAislada
  <2>1. Acorde(disco, meta, carpetas, k)
    BY DEF Aislados
  <2>2. CASE existeMetadato(k)
    <3> DEFINE L == meta[k].ultimaVersion
    <3>1. L \in Version /\ Tiene(disco, k, 1, L)
      BY <2>1, <2>2 DEF Acorde, existeMetadato
    <3> HIDE DEF L
    <3>2. {v \in Version : disco[k][v] # NADA} = 1..L
      BY <3>1, MaxVersionAssumption DEF Tiene, Version
    <3> QED
      BY <2>2, <3>2 DEF L
  <2>3. CASE ~existeMetadato(k)
    <3>1. Tiene(disco, k, 1, 0)
      BY <2>1, <2>3 DEF Acorde, existeMetadato
    <3>2. \A v \in Version : disco[k][v] = NADA
      BY <3>1 DEF Tiene, Version
    <3> QED
      BY <2>3, <3>2
  <2> QED
    BY <2>2, <2>3
<1> QED
  BY <1>1, AisladosSiempre, PTL

\* A request's get of its own file throws only when another request met it on that file
\* or a crash had left the file broken: the checks made before it (manejadorMetadatos.cpp)
\* are enough for everybody else, for any number of threads, requests and crashes.
THEOREM LanzaSoloCruzadoSiempre == Spec => []LanzaSoloCruzado
<1>1. Aislados => LanzaSoloCruzado
  <2> SUFFICES ASSUME Aislados, NEW h \in Hilo, hilo[h] # OCIOSO, PorLanzar(hilo[h]),
                      Archivo(hilo[h].clave) \notin sucios
               PROVE  FALSE
    BY DEF LanzaSoloCruzado
  <2> DEFINE r == hilo[h]
  <2>1. r.paso \in ConMetadato /\ r.paso # "busca" /\ meta[r.clave] = NADA
    BY DEF PorLanzar, PorModificar, existeMetadato
  <2>2. Forma(r) /\ (Limpio(r) \/ r.toca \subseteq sucios)
    BY DEF Aislados, Separados, EnCurso
  <2>3. Limpio(r)
    BY <2>1, <2>2 DEF Forma
  <2>4. Cumple(r, disco, meta, carpetas)
    BY <2>3 DEF Aislados, EnCurso
  <2> QED
    BY <2>1, <2>4 DEF Cumple, Fiel, SabeMetadatos
<1> QED
  BY <1>1, AisladosSiempre, PTL

-----------------------------------------------------------------------------
(* The uploads answered 201 are kept *)

\* The request that uploaded the content c.
Autor(c) == c[3]

\* The requests are numbered as they come; what a request that nobody has met uploads
\* is under its own files, and it is promised only when the request ends.
Identidades ==
  /\ \A k \in Clave, v \in Version : disco[k][v] # NADA => Autor(disco[k][v]) \in 0..pedidos
  /\ \A h \in EnCurso : hilo[h].id \in 1..pedidos
  /\ \A g \in EnCurso, h \in EnCurso : g # h => hilo[g].id # hilo[h].id
  /\ NADA \notin acusados
  /\ \A c \in acusados, h \in EnCurso : Autor(c) # hilo[h].id
  /\ \A h \in EnCurso : Limpio(hilo[h]) =>
       \A k \in Clave, v \in Version :
         disco[k][v] # NADA /\ Autor(disco[k][v]) = hilo[h].id => Archivo(k) \in hilo[h].toca

\* Nothing is promised of the files that a disturbed request works on.
Salvados ==
  /\ AcusadoGuardado
  /\ \A h \in EnCurso : ~Limpio(hilo[h]) => ContenidoDe(hilo[h].toca) \cap acusados = {}

\* Thread h goes on with its request, or ends it.
Prosigue(h) ==
  /\ \A g \in Hilo : g # h => hilo'[g] = hilo[g]
  /\ hilo'[h] # OCIOSO => hilo'[h].toca = hilo[h].toca /\ hilo'[h].id = hilo[h].id

\* A step writes only what the thread uploads, or what was under its files already.
Escribe(r) ==
  /\ \A k \in Clave : Archivo(k) \notin r.toca => disco'[k] = disco[k]
  /\ \A k \in Clave, v \in Version : Archivo(k) \in r.toca /\ disco'[k][v] # NADA =>
       disco'[k][v] \in ContenidoDe(r.toca) \/ Autor(disco'[k][v]) = r.id

LEMMA EnContenido ==
  ASSUME NEW F, NEW k \in Clave, NEW v \in Version, Archivo(k) \in F
  PROVE  disco[k][v] \in ContenidoDe(F)
BY DEF ContenidoDe

LEMMA DeContenido ==
  ASSUME NEW F, NEW c \in ContenidoDe(F)
  PROVE  \E k \in Clave, v \in Version : Archivo(k) \in F /\ disco[k][v] = c
BY DEF ContenidoDe

LEMMA SalvaAvanza ==
  ASSUME Aislados, Identidades, Salvados, NEW h \in Hilo, hilo[h] # OCIOSO, Prosigue(h),
         UNCHANGED <<sucios, pedidos>>, pedidos \in Nat, Escribe(hilo[h]),
         \A c \in acusados' \ acusados :
           /\ c # NADA /\ Autor(c) = hilo[h].id /\ Limpio(hilo[h]) /\ hilo'[h] = OCIOSO
           /\ \E k \in Clave, v \in Version : disco'[k][v] = c,
         Limpio(hilo[h]) => \A c \in acusados \cap acusados' : c \in ContenidoDe(hilo[h].toca) =>
                              \E k \in Clave, v \in Version : disco'[k][v] = c
  PROVE  Identidades' /\ Salvados'
<1> DEFINE r == hilo[h]
<1>1. \A g \in Hilo : hilo'[g] # OCIOSO =>
        /\ g \in EnCurso /\ hilo'[g].toca = hilo[g].toca /\ hilo'[g].id = hilo[g].id
        /\ Limpio(hilo[g])' <=> Limpio(hilo[g])
  BY DEF Prosigue, EnCurso, Limpio
<1>h. h \in EnCurso /\ r.id \in 1..pedidos
  BY DEF EnCurso, Identidades
\* Two requests that meet are both disturbed.
<1>2. ASSUME NEW g \in EnCurso, g # h, NEW x, x \in hilo[g].toca, x \in r.toca
      PROVE  ~Limpio(r) /\ ~Limpio(hilo[g])
  BY <1>h, <1>2 DEF Aislados, Separados, Limpio
\* What is on disk after the step.
<1>3. ASSUME NEW k \in Clave, NEW v \in Version, disco'[k][v] # NADA
      PROVE  \/ Archivo(k) \notin r.toca /\ disco'[k] = disco[k]
             \/ Archivo(k) \in r.toca /\ disco'[k][v] \in ContenidoDe(r.toca)
             \/ Archivo(k) \in r.toca /\ Autor(disco'[k][v]) = r.id
  BY <1>3 DEF Escribe
<1>4. AcusadoGuardado'
  <2> SUFFICES ASSUME NEW c \in acusados'
               PROVE  \E k \in Clave, v \in Version : disco'[k][v] = c
    BY DEF AcusadoGuardado
  <2>1. CASE c \notin acusados
    BY <2>1
  <2>2. CASE c \in acusados
    <3>1. PICK k \in Clave, v \in Version : disco[k][v] = c
      BY <2>2 DEF Salvados, AcusadoGuardado
    <3>2. CASE Archivo(k) \notin r.toca
      BY <3>1, <3>2 DEF Escribe
    <3>3. CASE Archivo(k) \in r.toca
      <4>1. c \in ContenidoDe(r.toca)
        BY <3>1, <3>3, EnContenido
      <4>2. Limpio(r)
        BY <1>h, <2>2, <4>1 DEF Salvados
      <4> QED
        BY <2>2, <4>1, <4>2
    <3> QED
      BY <3>2, <3>3
  <2> QED
    BY <2>1, <2>2
<1>5. ASSUME NEW g \in Hilo, hilo'[g] # OCIOSO, ~Limpio(hilo[g]), NEW k \in Clave,
             NEW v \in Version, Archivo(k) \in hilo[g].toca, disco'[k][v] \in acusados'
      PROVE  FALSE
  <2> DEFINE c == disco'[k][v]
  <2>0. g \in EnCurso
    BY <1>1, <1>5
  <2>1. CASE c \notin acusados
    <3>1. c # NADA /\ Autor(c) = r.id /\ Limpio(r) /\ g # h
      BY <1>5, <2>1
    <3>2. Archivo(k) \notin r.toca
      BY <1>2, <1>5, <2>0, <3>1
    <3>3. disco[k][v] = c
      BY <3>2 DEF Escribe
    <3> QED
      BY <1>h, <3>1, <3>2, <3>3 DEF Identidades
  <2>2. CASE c \in acusados
    <3>0. c # NADA
      BY <2>2 DEF Identidades
    <3>1. CASE Archivo(k) \notin r.toca
      <4>1. c \in ContenidoDe(hilo[g].toca)
        BY <1>5, <3>1, EnContenido DEF Escribe
      <4> QED
        BY <1>5, <2>0, <2>2, <4>1 DEF Salvados
    <3>2. CASE Archivo(k) \in r.toca
      <4>1. ~Limpio(r)
        BY <1>2, <1>5, <2>0, <3>2
      <4>2. c \in ContenidoDe(r.toca) \/ Autor(c) = r.id
        BY <1>3, <3>0, <3>2
      <4> QED
        BY <1>h, <2>2, <4>1, <4>2 DEF Salvados, Identidades
    <3> QED
      BY <3>1, <3>2
  <2> QED
    BY <2>1, <2>2
<1>6. Salvados'
  <2>1. ASSUME NEW g \in EnCurso', ~Limpio(hilo[g])', NEW c, c \in ContenidoDe(hilo[g].toca)',
               c \in acusados'
        PROVE  FALSE
    <3>1. hilo'[g] # OCIOSO /\ g \in Hilo /\ ~Limpio(hilo[g])
      BY <1>1, <2>1 DEF EnCurso
    <3>2. PICK k \in Clave, v \in Version : Archivo(k) \in hilo'[g].toca /\ disco'[k][v] = c
      BY <2>1 DEF ContenidoDe
    <3> QED
      BY <1>1, <1>5, <2>1, <3>1, <3>2
  <2> QED
    BY <1>4, <2>1 DEF Salvados
<1>7. ASSUME NEW k \in Clave, NEW v \in Version, disco'[k][v] # NADA
      PROVE  Autor(disco'[k][v]) \in 0..pedidos
  <2>1. CASE disco'[k] = disco[k]
    BY <1>7, <2>1 DEF Identidades
  <2>2. CASE disco'[k][v] \in ContenidoDe(r.toca)
    <3>1. PICK x \in Clave, w \in Version : disco[x][w] = disco'[k][v]
      BY <2>2, DeContenido
    <3> QED
      BY <1>7, <3>1 DEF Identidades
  <2>3. CASE Autor(disco'[k][v]) = r.id
    BY <1>h, <2>3
  <2> QED
    BY <1>3, <1>7, <2>1, <2>2, <2>3
<1>8. ASSUME NEW c \in acusados' PROVE c # NADA /\ \A g \in EnCurso' : Autor(c) # hilo'[g].id
  <2>1. CASE c \notin acusados
    BY <1>1, <1>h, <2>1 DEF Identidades, EnCurso
  <2>2. CASE c \in acusados
    BY <1>1, <2>2 DEF Identidades, EnCurso
  <2> QED
    BY <2>1, <2>2
<1>9. ASSUME NEW g \in EnCurso', Limpio(hilo[g])', NEW k \in Clave, NEW v \in Version,
             disco'[k][v] # NADA, Autor(disco'[k][v]) = hilo'[g].id
      PROVE  Archivo(k) \in hilo'[g].toca
  <2>0. /\ g \in EnCurso /\ hilo'[g].toca = hilo[g].toca /\ hilo'[g].id = hilo[g].id
        /\ Limpio(hilo[g])
    BY <1>1, <1>9 DEF EnCurso
  <2>1. CASE Archivo(k) \notin r.toca
    <3>1. disco'[k] = disco[k]
      BY <2>1 DEF Escribe
    <3> QED
      BY <1>9, <2>0, <3>1 DEF Identidades
  <2>2. CASE Archivo(k) \in r.toca /\ g # h
    <3>1. CASE disco'[k][v] \in ContenidoDe(r.toca)
      <4>1. PICK x \in Clave, w \in Version : Archivo(x) \in r.toca /\ disco[x][w] = disco'[k][v]
        BY <3>1, DeContenido
      <4>2. Archivo(x) \in hilo[g].toca
        BY <1>9, <2>0, <4>1 DEF Identidades
      <4> QED
        BY <1>2, <2>0, <2>2, <4>1, <4>2
    <3>2. CASE Autor(disco'[k][v]) = r.id
      BY <1>9, <1>h, <2>0, <2>2, <3>2 DEF Identidades
    <3> QED
      BY <1>3, <1>9, <2>2, <3>1, <3>2
  <2> QED
    BY <2>0, <2>1, <2>2
<1>10. Identidades'
  <2>1. \A g \in EnCurso' : hilo'[g].id \in 1..pedidos
    BY <1>1 DEF EnCurso, Identidades
  <2>2. \A f \in EnCurso', g \in EnCurso' : f # g => hilo'[f].id # hilo'[g].id
    BY <1>1 DEF EnCurso, Identidades
  <2> QED
    BY <1>7, <1>8, <1>9, <2>1, <2>2 DEF Identidades
<1> QED
  BY <1>6, <1>10

\* A step that leaves the disk and the promises as they are.
LEMMA SalvaQuieto ==
  ASSUME Aislados, Identidades, Salvados, NEW h \in Hilo, hilo[h] # OCIOSO, Prosigue(h),
         UNCHANGED <<disco, acusados, sucios, pedidos>>, pedidos \in Nat
  PROVE  Identidades' /\ Salvados'
<1>1. Escribe(hilo[h])
  <2>1. ASSUME NEW k \in Clave, NEW v \in Version, Archivo(k) \in hilo[h].toca
        PROVE  disco'[k][v] \in ContenidoDe(hilo[h].toca)
    BY <2>1, EnContenido
  <2> QED
    BY <2>1 DEF Escribe
<1>2. \A c \in acusados : \E k \in Clave, v \in Version : disco'[k][v] = c
  BY DEF Salvados, AcusadoGuardado
<1> QED
  BY <1>1, <1>2, SalvaAvanza

\* The steps that do.
Quieto(h) ==
  \/ validaVersion(h) \/ creaCarpeta(h) \/ hayMetadato(h) \/ subeGet(h) \/ subePut(h)
  \/ cargaGet(h)
  \/ borraGet(h) \/ secuencia(h) \/ leeInvitado(h) \/ loteBorra(h) \/ escribeLoteBorra(h)
  \/ recorre(h) \/ carpetaVacia(h)
  \/ purgaGet(h) \/ purgaErase(h)
  \/ restauraCarpeta(h) \/ puedoRestaurarA(h) \/ restauraGet(h) \/ restauraLee(h)
  \/ loteRestaura(h) \/ restauraEscribe(h)
  \/ Actualiza(h)
  \/ renombraHay(h) \/ renombraGet(h) \/ renombraIndice(h) \/ renombraModify(h)
  \/ renombraLote(h) \/ renombraEscribe(h)
  \/ busca(h)

\* Thread h goes on as q.
LEMMA SigueProsigue ==
  ASSUME Inv, NEW h \in Hilo, NEW q, Sigue(h, q),
         q # OCIOSO => q.toca = hilo[h].toca /\ q.id = hilo[h].id
  PROVE  Prosigue(h)
BY DEF Inv, Hilos, Sigue, Prosigue

LEMMA QuietoProsigue ==
  ASSUME Inv, NEW h \in Hilo, hilo[h] # OCIOSO, Quieto(h)
  PROVE  Prosigue(h) /\ UNCHANGED <<disco, acusados, sucios>>
<1> DEFINE r == hilo[h]
<1>0. r \in Pedido
  BY DEF Inv, Hilos
<1>l. \A q : Lee(h, q) => Sigue(h, q) /\ UNCHANGED <<disco, acusados, sucios>>
  BY DEF Lee
<1>b. \A q : EscribeDB(h, q) => Sigue(h, q) /\ UNCHANGED <<disco, acusados, sucios>>
  BY DEF EscribeDB
<1>s. ASSUME NEW q, Sigue(h, q), UNCHANGED <<disco, acusados, sucios>>,
             q # OCIOSO => q.toca = r.toca /\ q.id = r.id
      PROVE  Prosigue(h) /\ UNCHANGED <<disco, acusados, sucios>>
  BY <1>s, SigueProsigue
<1>v. Vuelve(r) # OCIOSO => Vuelve(r).toca = r.toca /\ Vuelve(r).id = r.id
  BY <1>0 DEF Vuelve, En, Pedido
<1>e. \A p : En(p, r).toca = r.toca /\ En(p, r).id = r.id
  BY <1>0 DEF En, Pedido
<1>1. CASE validaVersion(h)
  <2> DEFINE q == [En("carpeta", r) EXCEPT !.n = SiguienteVersion(r.clave)]
  <2>1. Lee(h, OCIOSO) \/ Lee(h, q) \/ Lee(h, En("carpeta", r))
    BY <1>0, <1>1 DEF validaVersion, En, Pedido
  <2>2. q.toca = r.toca /\ q.id = r.id
    BY <1>0 DEF En, Pedido
  <2> HIDE DEF q
  <2> QED
    BY <1>l, <1>s, <1>e, <2>1, <2>2
<1>2. CASE creaCarpeta(h) \/ hayMetadato(h) \/ subePut(h) \/ cargaGet(h)
  BY <1>2, <1>l, <1>b, <1>s, <1>e DEF creaCarpeta, hayMetadato, subePut, cargaGet
<1>3. CASE subeGet(h)
  BY <1>0, <1>3, <1>l, <1>s DEF subeGet, Get, En, Pedido
<1>4. CASE borraGet(h)
  BY <1>0, <1>4, <1>l, <1>s, <1>v DEF borraGet, Get, En, Pedido
<1>5. CASE secuencia(h)
  BY <1>0, <1>5, <1>l, <1>s DEF secuencia, En, Pedido
<1>6. CASE leeInvitado(h)
  BY <1>0, <1>6, <1>l, <1>s DEF leeInvitado, Pedido
<1>7. CASE loteBorra(h) \/ escribeLoteBorra(h)
  BY <1>7, <1>l, <1>b, <1>s, <1>e, <1>v DEF loteBorra, escribeLoteBorra
<1>8. CASE recorre(h)
  BY <1>0, <1>8, <1>l, <1>s DEF recorre, En, Pedido
<1>9. CASE carpetaVacia(h) \/ purgaGet(h) \/ purgaErase(h)
  BY <1>9, <1>l, <1>b, <1>s, <1>e DEF carpetaVacia, purgaGet, purgaErase, Get
<1>10. CASE restauraCarpeta(h) \/ puedoRestaurarA(h) \/ restauraEscribe(h)
  BY <1>10, <1>l, <1>b, <1>s, <1>e DEF restauraCarpeta, puedoRestaurarA, restauraEscribe
<1>11. CASE restauraGet(h) \/ restauraLee(h)
  BY <1>0, <1>11, <1>l, <1>s DEF restauraGet, restauraLee, Get, En, Pedido
<1>12. CASE actualizaGet(h)
  BY <1>0, <1>12, <1>s DEF actualizaGet, En, Pedido
<1>13. CASE siguientePermiso(h)
  BY <1>0, <1>13, <1>l, <1>s DEF siguientePermiso, En, Pedido
<1>14. CASE permisoGet(h)
  BY <1>0, <1>14, <1>l, <1>s DEF permisoGet, Get, En, Pedido
<1>15. CASE permisoIndice(h)
  BY <1>0, <1>15, <1>l, <1>s DEF permisoIndice, En, Pedido
<1>16. CASE permisoLote(h) \/ permisoEscribe(h) \/ actualizaModify(h) \/ actualizaPut(h)
  BY <1>16, <1>l, <1>b, <1>s, <1>e
     DEF permisoLote, permisoEscribe, actualizaModify, actualizaPut, Get
<1>17. CASE renombraHay(h) \/ renombraModify(h) \/ renombraLote(h) \/ renombraEscribe(h)
  BY <1>17, <1>l, <1>b, <1>s, <1>e
     DEF renombraHay, renombraModify, renombraLote, renombraEscribe
<1>18. CASE renombraGet(h)
  BY <1>0, <1>18, <1>l, <1>s DEF renombraGet, Get, En, Pedido
<1>19. CASE renombraIndice(h)
  BY <1>0, <1>19, <1>l, <1>s DEF renombraIndice, En, Pedido
<1>20. CASE busca(h)
  BY <1>0, <1>20, <1>l, <1>s DEF busca, Get, Pedido
<1>21. CASE loteRestaura(h)
  <2> DEFINE q == [En("deshace", r) EXCEPT !.n = 1]
  <2>1. Lee(h, En("rest_escribe", r)) \/ Lee(h, q)
    BY <1>21 DEF loteRestaura
  <2>2. q.toca = r.toca /\ q.id = r.id
    BY <1>0 DEF En, Pedido
  <2> HIDE DEF q
  <2> QED
    BY <1>l, <1>s, <1>e, <2>1, <2>2
<1> QED
  BY <1>1, <1>2, <1>3, <1>4, <1>5, <1>6, <1>7, <1>8, <1>9, <1>10, <1>11, <1>12, <1>13, <1>14,
     <1>15, <1>16, <1>17, <1>18, <1>19, <1>20, <1>21 DEF Quieto, Actualiza

-----------------------------------------------------------------------------
(* The steps that write the disk or answer *)

LEMMA SusArchivos ==
  ASSUME Inv, Aislados, NEW h \in Hilo, hilo[h] # OCIOSO, hilo[h].paso # "busca"
  PROVE  /\ hilo[h].clave \in Clave /\ hilo[h].destino \in Clave
         /\ Archivo(hilo[h].clave) \in hilo[h].toca
         /\ Archivo(hilo[h].destino) \in hilo[h].toca
         /\ disco \in Disco /\ pedidos \in Nat
         /\ Limpio(hilo[h]) => Cumple(hilo[h], disco, meta, carpetas)
BY UnidadesAssumption DEF Inv, Hilos, Tipos, Pedido, Aislados, EnCurso, Forma

\* A rename between two of its own files: on clean ones it overwrites nothing.
LEMMA RenombraSalva ==
  ASSUME Inv, Aislados, Identidades, Salvados, NEW h \in Hilo, hilo[h] # OCIOSO,
         hilo[h].paso # "busca", hilo[h].clave # hilo[h].destino, Prosigue(h),
         UNCHANGED <<sucios, pedidos, acusados>>,
         disco' \in {disco, Renombra(hilo[h].clave, hilo[h].destino, hilo[h].n)},
         Cumple(hilo[h], disco, meta, carpetas) =>
           disco' = disco \/ (hilo[h].n \in Version
                              /\ disco[hilo[h].destino][hilo[h].n] = NADA)
  PROVE  Identidades' /\ Salvados'
<1> DEFINE r == hilo[h]
           k == r.clave
           c == r.destino
           n == r.n
<1>0. /\ k \in Clave /\ c \in Clave /\ Archivo(k) \in r.toca /\ Archivo(c) \in r.toca
      /\ disco \in Disco /\ pedidos \in Nat
      /\ Limpio(r) => Cumple(r, disco, meta, carpetas)
  BY SusArchivos
<1>1. CASE disco' = disco
  BY <1>0, <1>1, SalvaQuieto
<1>2. CASE disco' # disco
  <2>1. /\ \A x \in Clave : x \notin {k, c} => disco'[x] = disco[x]
        /\ \A v \in Version : v # n => disco'[k][v] = disco[k][v] /\ disco'[c][v] = disco[c][v]
        /\ n \in Version => disco'[c][n] = disco[k][n] /\ disco'[k][n] = NADA
    BY <1>0, <1>2 DEF Renombra, Disco
  <2>2. Escribe(r)
    <3>1. \A x \in Clave : Archivo(x) \notin r.toca => disco'[x] = disco[x]
      BY <1>0, <2>1
    <3>2. ASSUME NEW x \in Clave, NEW v \in Version, Archivo(x) \in r.toca, disco'[x][v] # NADA
          PROVE  disco'[x][v] \in ContenidoDe(r.toca)
      <4>1. disco'[x][v] = disco[x][v] \/ disco'[x][v] = disco[k][v]
        BY <2>1, <3>2
      <4> QED
        BY <1>0, <3>2, <4>1, EnContenido
    <3> QED
      BY <3>1, <3>2 DEF Escribe
  <2>3. ASSUME Limpio(r), NEW a \in acusados
        PROVE  \E x \in Clave, v \in Version : disco'[x][v] = a
    <3>1. n \in Version /\ disco[c][n] = NADA /\ a # NADA
      BY <1>0, <1>2, <2>3 DEF Identidades
    <3>2. PICK x \in Clave, v \in Version : disco[x][v] = a
      BY DEF Salvados, AcusadoGuardado
    <3>3. CASE x \notin {k, c} \/ v # n
      BY <2>1, <3>2, <3>3
    <3>4. CASE x = k /\ v = n
      BY <1>0, <2>1, <3>2, <3>4
    <3> QED
      BY <3>1, <3>2, <3>3, <3>4
  <2> QED
    BY <1>0, <2>2, <2>3, SalvaAvanza
<1> QED
  BY <1>1, <1>2

\* An upload is written where nothing was, and it is there when it is answered.
LEMMA EscribeSalva ==
  ASSUME Inv, Aislados, Identidades, Salvados, NEW h \in Hilo, hilo[h] # OCIOSO,
         escribe(h), UNCHANGED pedidos
  PROVE  Identidades' /\ Salvados'
<1> DEFINE r == hilo[h]
           k == r.clave
           n == r.n
           nuevo == <<k, n, r.id>>
<1>p. r.paso = "escribe"
  BY DEF escribe
<1>0. /\ k \in Clave /\ Archivo(k) \in r.toca /\ disco \in Disco /\ pedidos \in Nat
      /\ Limpio(r) => Cumple(r, disco, meta, carpetas)
      /\ r \in Pedido
  BY <1>p, SusArchivos DEF Inv, Hilos
<1>1. /\ UNCHANGED sucios
      /\ disco' = IF HayCarpeta(k) /\ n \in Version
                  THEN [disco EXCEPT ![k][n] = nuevo] ELSE disco
      /\ acusados' = IF ~r.primera /\ Limpio(r) THEN acusados \cup {nuevo} ELSE acusados
      /\ Sigue(h, IF r.primera THEN En("carga_get", r) ELSE OCIOSO)
  BY DEF escribe, Acusa, Limpio
<1>2. Prosigue(h) /\ (~r.primera => hilo'[h] = OCIOSO)
  <2>1. En("carga_get", r).toca = r.toca /\ En("carga_get", r).id = r.id
    BY <1>0 DEF En, Pedido
  <2>2. ~r.primera => hilo'[h] = OCIOSO
    BY <1>1 DEF Sigue, Inv, Hilos
  <2> QED
    BY <1>1, <2>1, <2>2, SigueProsigue
<1>3. nuevo # NADA \/ n \notin Version
  BY <1>0, NadaHilosAssumption DEF Contenido, Pedido
<1>4. Autor(nuevo) = r.id
  BY DEF Autor
<1>5. Limpio(r) => HayCarpeta(k) /\ n \in Version /\ disco[k][n] = NADA
  <2> SUFFICES ASSUME Limpio(r) PROVE HayCarpeta(k) /\ n \in Version /\ disco[k][n] = NADA
    OBVIOUS
  <2>1. n \in Version /\ Tiene(disco, k, 1, n - 1) /\ EnSuCarpeta(carpetas, k)
    BY <1>0, <1>p DEF Cumple, Fiel, SabeSubir
  <2> QED
    BY <2>1, MaxVersionAssumption DEF Tiene, Version, HayCarpeta, EnSuCarpeta
<1> HIDE DEF nuevo
<1>6. \A x \in Clave, v \in Version :
        disco'[x][v] = disco[x][v] \/ (x = k /\ v = n /\ disco'[x][v] = nuevo)
  BY <1>0, <1>1 DEF Disco
<1>7. Limpio(r) => disco'[k][n] = nuevo
  BY <1>0, <1>1, <1>5 DEF Disco
<1>8. Escribe(r)
  <2>1. ASSUME NEW x \in Clave, Archivo(x) \notin r.toca PROVE disco'[x] = disco[x]
    BY <1>0, <1>1, <2>1 DEF Disco
  <2>2. ASSUME NEW x \in Clave, NEW v \in Version, Archivo(x) \in r.toca
        PROVE  disco'[x][v] \in ContenidoDe(r.toca) \/ Autor(disco'[x][v]) = r.id
    BY <1>4, <1>6, <2>2, EnContenido
  <2> QED
    BY <2>1, <2>2 DEF Escribe
<1>9. ASSUME Limpio(r), NEW a \in acusados
      PROVE  \E x \in Clave, v \in Version : disco'[x][v] = a
  <2>1. PICK x \in Clave, v \in Version : disco[x][v] = a
    BY DEF Salvados, AcusadoGuardado
  <2>2. ~(x = k /\ v = n)
    BY <1>5, <1>9, <2>1 DEF Identidades
  <2> QED
    BY <1>6, <2>1, <2>2
<1>10. ASSUME NEW a \in acusados' \ acusados
       PROVE  /\ a # NADA /\ Autor(a) = r.id /\ Limpio(r) /\ hilo'[h] = OCIOSO
              /\ \E x \in Clave, v \in Version : disco'[x][v] = a
  <2>1. a = nuevo /\ Limpio(r) /\ ~r.primera
    BY <1>1, <1>10
  <2> QED
    BY <1>0, <1>2, <1>3, <1>4, <1>5, <1>7, <2>1
<1> QED
  BY <1>0, <1>1, <1>2, <1>8, <1>9, <1>10, SalvaAvanza

LEMMA CargaSalva ==
  ASSUME Inv, Aislados, Identidades, Salvados, NEW h \in Hilo, hilo[h] # OCIOSO,
         cargaPut(h), UNCHANGED pedidos
  PROVE  Identidades' /\ Salvados'
<1> DEFINE r == hilo[h]
           k == r.clave
           nuevo == <<k, r.n, r.id>>
<1>p. r.paso = "carga_put"
  BY DEF cargaPut
<1>0. /\ k \in Clave /\ Archivo(k) \in r.toca /\ pedidos \in Nat /\ r \in Pedido
      /\ Limpio(r) => Cumple(r, disco, meta, carpetas)
  BY <1>p, SusArchivos DEF Inv, Hilos
<1>1. /\ UNCHANGED <<sucios, disco>> /\ Sigue(h, OCIOSO)
      /\ acusados' = IF Limpio(r) THEN acusados \cup {nuevo} ELSE acusados
  BY DEF cargaPut, Acusa, Limpio
<1>2. Prosigue(h) /\ hilo'[h] = OCIOSO
  BY <1>1, SigueProsigue DEF Sigue, Inv, Hilos
<1>3. Limpio(r) => disco[k][1] = nuevo /\ 1 \in Version /\ nuevo # NADA
  <2> SUFFICES ASSUME Limpio(r) PROVE disco[k][1] = nuevo /\ 1 \in Version /\ nuevo # NADA
    OBVIOUS
  <2>1. r.n = 1 /\ disco[k][1] = <<k, 1, r.id>>
    BY <1>0, <1>p DEF Cumple, Fiel, SabeSubir
  <2>2. 1 \in Version
    BY MaxVersionAssumption DEF Version
  <2> QED
    BY <1>0, <2>1, <2>2, NadaHilosAssumption DEF Contenido, Pedido
<1>4. Autor(nuevo) = r.id
  BY DEF Autor
<1> HIDE DEF nuevo
<1>5. Escribe(r)
  <2>1. ASSUME NEW x \in Clave, NEW v \in Version, Archivo(x) \in r.toca
        PROVE  disco'[x][v] \in ContenidoDe(r.toca)
    BY <1>1, <2>1, EnContenido
  <2> QED
    BY <1>1, <2>1 DEF Escribe
<1>6. \A a \in acusados : \E x \in Clave, v \in Version : disco'[x][v] = a
  BY <1>1 DEF Salvados, AcusadoGuardado
<1>7. ASSUME NEW a \in acusados' \ acusados
      PROVE  /\ a # NADA /\ Autor(a) = r.id /\ Limpio(r) /\ hilo'[h] = OCIOSO
             /\ \E x \in Clave, v \in Version : disco'[x][v] = a
  <2>1. a = nuevo /\ Limpio(r)
    BY <1>1, <1>7
  <2> QED
    BY <1>0, <1>1, <1>2, <1>3, <1>4, <2>1
<1> QED
  BY <1>0, <1>1, <1>2, <1>5, <1>6, <1>7, SalvaAvanza

LEMMA MueveSalva ==
  ASSUME Inv, Aislados, Identidades, Salvados, NEW h \in Hilo, hilo[h] # OCIOSO,
         mueve(h), UNCHANGED pedidos
  PROVE  Identidades' /\ Salvados'
<1> DEFINE r == hilo[h]
           falla == r.n > r.leido.ultimaVersion \/ disco[r.clave][r.n] = NADA
           q == IF falla \/ r.n >= r.leido.ultimaVersion THEN Vuelve(r)
                                                         ELSE [r EXCEPT !.n = @ + 1]
<1>1. /\ r.paso = "mueve" /\ UNCHANGED <<sucios, acusados>> /\ Sigue(h, q)
      /\ disco' \in {disco, Renombra(r.clave, r.destino, r.n)}
  BY DEF mueve, EscribeDisco
<1>2. r \in Pedido /\ Forma(r) /\ r.clave # r.destino
  BY <1>1, EnTarea DEF Forma, Borrando
<1>3. Prosigue(h)
  <2>1. q # OCIOSO => q.toca = r.toca /\ q.id = r.id
    BY <1>2 DEF Vuelve, En, Pedido
  <2> HIDE DEF q
  <2> QED
    BY <1>1, <2>1, SigueProsigue
<1>4. ASSUME Cumple(r, disco, meta, carpetas)
      PROVE  r.n \in Version /\ disco[r.destino][r.n] = NADA
  <2>1. SabeBorrar(r, disco, meta)
    BY <1>4 DEF Cumple, Fiel
  <2>2. /\ meta[r.destino].ultimaVersion \in Version
        /\ r.n \in 1..meta[r.destino].ultimaVersion /\ Tiene(disco, r.destino, 1, r.n - 1)
    BY <1>1, <2>1 DEF SabeBorrar
  <2>3. r.n \in Version
    BY <2>2, MaxVersionAssumption DEF Version
  <2> QED
    BY <2>2, <2>3, MaxVersionAssumption DEF Tiene, Version
<1> HIDE DEF q
<1> QED
  BY <1>1, <1>2, <1>3, <1>4, RenombraSalva

\* The loops of renames of a restoration and of a renaming.
LEMMA MoviendoSalva ==
  ASSUME Inv, Aislados, Identidades, Salvados, NEW h \in Hilo, hilo[h] # OCIOSO,
         hilo[h].paso \in Moviendo, hilo[h].clave # hilo[h].destino, ~Movidas(hilo[h]),
         NEW falla \in BOOLEAN,
         disco' = IF falla THEN disco
                           ELSE Renombra(hilo[h].clave, hilo[h].destino, hilo[h].n),
         EscribeDisco(h, IF falla THEN OCIOSO ELSE [hilo[h] EXCEPT !.n = @ + 1]),
         UNCHANGED pedidos
  PROVE  Identidades' /\ Salvados'
<1> DEFINE r == hilo[h]
           q == IF falla THEN OCIOSO ELSE [r EXCEPT !.n = @ + 1]
<1>1. /\ UNCHANGED <<sucios, acusados>> /\ Sigue(h, q)
      /\ disco' \in {disco, Renombra(r.clave, r.destino, r.n)} /\ r.paso # "busca"
  BY DEF EscribeDisco, Moviendo
<1>3. Prosigue(h)
  <2>1. q # OCIOSO => q.toca = r.toca /\ q.id = r.id
    BY EnTarea DEF Pedido
  <2> HIDE DEF q
  <2> QED
    BY <1>1, <2>1, SigueProsigue
<1>4. ASSUME Cumple(r, disco, meta, carpetas)
      PROVE  r.n \in Version /\ disco[r.destino][r.n] = NADA
  <2> DEFINE L == meta[r.clave].ultimaVersion
  <2>0. Fiel(r, disco, meta, carpetas)
    BY <1>4 DEF Cumple
  <2>1. /\ r.leido.ultimaVersion = L /\ L \in Version /\ r.n \in 1..(L + 1)
        /\ Tiene(disco, r.destino, 1, r.n - 1)
    BY <2>0, SabeMoviendo
  <2> HIDE DEF L
  <2>2. r.n \in Version
    BY <2>1, MaxVersionAssumption DEF Movidas, Version
  <2> QED
    BY <2>1, <2>2, MaxVersionAssumption DEF Tiene, Version
<1> HIDE DEF q
<1> QED
  BY <1>1, <1>3, <1>4, RenombraSalva

\* The rm -r of a folder found empty takes no upload away.
LEMMA RmSalva ==
  ASSUME Inv, Aislados, Identidades, Salvados, NEW h \in Hilo, hilo[h] # OCIOSO,
         deleteCarpeta(h), UNCHANGED pedidos
  PROVE  Identidades' /\ Salvados'
<1> DEFINE r == hilo[h]
           F == Bajo(r.user, CarpetaDe(r.clave.ruta))
<1>1. /\ r.paso = "rm" /\ UNCHANGED <<sucios, acusados>> /\ Sigue(h, OCIOSO)
      /\ disco' = [k \in Clave |-> IF k \in F THEN [v \in Version |-> NADA] ELSE disco[k]]
  BY DEF deleteCarpeta
<1>2. Prosigue(h)
  BY <1>1, SigueProsigue
<1>3. pedidos \in Nat /\ (Limpio(r) => Cumple(r, disco, meta, carpetas)) /\ Forma(r)
  BY <1>1, SusArchivos, EnTarea
<1>4. r.toca = {Archivo(c) : c \in F}
  BY <1>1, <1>3 DEF Forma, Borrando
<1>6. Limpio(r) => \A x \in F : Tiene(disco, x, 1, 0)
  BY <1>1, <1>3 DEF Cumple, Fiel, SabeBorrar
<1> HIDE DEF F
<1>5. Escribe(r)
  <2>1. \A x \in Clave : Archivo(x) \notin r.toca => disco'[x] = disco[x]
    BY <1>1, <1>4
  <2>2. ASSUME NEW x \in Clave, NEW v \in Version, Archivo(x) \in r.toca, disco'[x][v] # NADA
        PROVE  disco'[x][v] \in ContenidoDe(r.toca)
    BY <1>1, <2>2, EnContenido
  <2> QED
    BY <2>1, <2>2 DEF Escribe
<1>7. ASSUME Limpio(r), NEW a \in acusados
      PROVE  \E x \in Clave, v \in Version : disco'[x][v] = a
  <2>1. PICK x \in Clave, v \in Version : disco[x][v] = a
    BY DEF Salvados, AcusadoGuardado
  <2>2. x \notin F
    <3> SUFFICES ASSUME x \in F PROVE FALSE
      OBVIOUS
    <3>1. disco[x][v] = NADA
      BY <1>6, <1>7 DEF Tiene, Version
    <3> QED
      BY <2>1, <3>1 DEF Identidades
  <2> QED
    BY <1>1, <2>1, <2>2
<1> QED
  BY <1>1, <1>2, <1>3, <1>5, <1>7, SalvaAvanza

\* A purge gives its file up.
LEMMA PurgaSalva ==
  ASSUME Inv, Aislados, Identidades, Salvados, NEW h \in Hilo, hilo[h] # OCIOSO,
         purgaRm(h), UNCHANGED pedidos
  PROVE  Identidades' /\ Salvados'
<1> DEFINE r == hilo[h]
           k == r.clave
<1>1. /\ r.paso = "purga_rm" /\ UNCHANGED sucios /\ Sigue(h, OCIOSO)
      /\ disco' = [disco EXCEPT ![k] = [v \in Version |-> NADA]]
      /\ acusados' = acusados \ {disco[k][v] : v \in Version}
  BY DEF purgaRm
<1>2. Prosigue(h)
  BY <1>1, SigueProsigue
<1>0. k \in Clave /\ Archivo(k) \in r.toca /\ disco \in Disco /\ pedidos \in Nat
  BY <1>1, SusArchivos
<1>3. /\ \A x \in Clave : x # k => disco'[x] = disco[x]
      /\ \A v \in Version : disco'[k][v] = NADA
  BY <1>0, <1>1 DEF Disco
<1>5. Escribe(r)
  <2>1. \A x \in Clave : Archivo(x) \notin r.toca => disco'[x] = disco[x]
    BY <1>0, <1>3
  <2>2. ASSUME NEW x \in Clave, NEW v \in Version, Archivo(x) \in r.toca, disco'[x][v] # NADA
        PROVE  disco'[x][v] \in ContenidoDe(r.toca)
    BY <1>3, <2>2, EnContenido
  <2> QED
    BY <2>1, <2>2 DEF Escribe
<1>7. ASSUME NEW a \in acusados \cap acusados'
      PROVE  \E x \in Clave, v \in Version : disco'[x][v] = a
  <2>1. PICK x \in Clave, v \in Version : disco[x][v] = a
    BY DEF Salvados, AcusadoGuardado
  <2>2. x # k
    BY <1>1, <1>7, <2>1
  <2> QED
    BY <1>3, <2>1, <2>2
<1>8. acusados' \ acusados = {}
  BY <1>1
<1> QED
  BY <1>0, <1>1, <1>2, <1>5, <1>7, <1>8, SalvaAvanza

\* A restoration is undone only on disturbed files.
LEMMA DeshaceSalva ==
  ASSUME Inv, Aislados, Identidades, Salvados, NEW h \in Hilo, hilo[h] # OCIOSO,
         deshacerRestaurado(h), UNCHANGED pedidos
  PROVE  Identidades' /\ Salvados'
<1> DEFINE r == hilo[h]
           k == r.clave
           c == r.destino
           q == IF r.n >= r.leido.ultimaVersion THEN OCIOSO ELSE [r EXCEPT !.n = @ + 1]
<1>1. /\ r.paso = "deshace" /\ UNCHANGED <<sucios, acusados>> /\ Sigue(h, q)
      /\ disco' = disco \/ disco' = Renombra(c, k, r.n)
  BY DEF deshacerRestaurado, EscribeDisco
<1>2. Prosigue(h)
  <2>1. q # OCIOSO => q.toca = r.toca /\ q.id = r.id
    BY EnTarea DEF Pedido
  <2> HIDE DEF q
  <2> QED
    BY <1>1, <2>1, SigueProsigue
<1> HIDE DEF q
<1>0. /\ k \in Clave /\ c \in Clave /\ Archivo(k) \in r.toca /\ Archivo(c) \in r.toca
      /\ disco \in Disco /\ pedidos \in Nat
      /\ Limpio(r) => Cumple(r, disco, meta, carpetas)
  BY <1>1, SusArchivos
<1>k. k # c
  <2>1. Forma(r)
    BY EnTarea
  <2> QED
    BY <1>1, <2>1 DEF Forma, Restaurando, ClaveReal, Viva
<1>3. ~Limpio(r)
  BY <1>0, <1>1 DEF Cumple, Fiel, SabeMover
<1>4. /\ \A x \in Clave : x \notin {k, c} => disco'[x] = disco[x]
      /\ \A v \in Version : disco'[k][v] \in {disco[c][v], disco[k][v]}
                            /\ disco'[c][v] \in {NADA, disco[c][v]}
  BY <1>0, <1>k, <1>1 DEF Renombra, Disco
<1>5. Escribe(r)
  <2>1. \A x \in Clave : Archivo(x) \notin r.toca => disco'[x] = disco[x]
    BY <1>0, <1>4
  <2>2. ASSUME NEW x \in Clave, NEW v \in Version, Archivo(x) \in r.toca, disco'[x][v] # NADA
        PROVE  disco'[x][v] \in ContenidoDe(r.toca)
    <3>1. disco'[x][v] \in {disco[x][v], disco[c][v]}
      BY <1>4, <2>2
    <3> QED
      BY <1>0, <2>2, <3>1, EnContenido
  <2> QED
    BY <2>1, <2>2 DEF Escribe
<1> QED
  BY <1>0, <1>1, <1>2, <1>3, <1>5, SalvaAvanza

LEMMA PasoSalva ==
  ASSUME Inv, Aislados, Identidades, Salvados, NEW h \in Hilo, Paso(h)
  PROVE  Identidades' /\ Salvados'
<1>0. hilo[h] # OCIOSO /\ UNCHANGED pedidos /\ pedidos \in Nat
  BY UnidadesAssumption DEF Paso, Inv, Tipos
<1>1. CASE Quieto(h)
  BY <1>0, <1>1, QuietoProsigue, SalvaQuieto
<1>2. CASE escribe(h) \/ cargaPut(h) \/ mueve(h) \/ deleteCarpeta(h) \/ purgaRm(h)
           \/ deshacerRestaurado(h)
  BY <1>0, <1>2, EscribeSalva, CargaSalva, MueveSalva, RmSalva, PurgaSalva, DeshaceSalva
<1>3. CASE restauraMueve(h)
  <2> DEFINE r == hilo[h]
             falla == disco[r.clave][r.n] = NADA \/ ~HayCarpeta(r.destino)
  <2>1. /\ r.paso = "rest_mueve" /\ ~Movidas(r)
        /\ disco' = IF falla THEN disco ELSE Renombra(r.clave, r.destino, r.n)
        /\ EscribeDisco(h, IF falla THEN OCIOSO ELSE [r EXCEPT !.n = @ + 1])
    BY <1>3 DEF restauraMueve
  <2>2. Forma(r) /\ Inv
    BY <1>0, EnTarea
  <2>3. r.clave # r.destino /\ r.paso \in Moviendo
    BY <2>1, <2>2 DEF Forma, Restaurando, Moviendo, ClaveReal, Viva
  <2> QED
    BY <1>0, <2>1, <2>3, MoviendoSalva
<1>4. CASE renombraMueve(h)
  <2> DEFINE r == hilo[h]
             falla == disco[r.clave][r.n] = NADA \/ ~HayCarpeta(r.destino)
  <2>1. /\ r.paso = "ren_mueve" /\ ~Movidas(r)
        /\ disco' = IF falla THEN disco ELSE Renombra(r.clave, r.destino, r.n)
        /\ EscribeDisco(h, IF falla THEN OCIOSO ELSE [r EXCEPT !.n = @ + 1])
    BY <1>4 DEF renombraMueve
  <2>2. Forma(r) /\ Inv
    BY <1>0, EnTarea
  <2>3. r.clave # r.destino /\ r.paso \in Moviendo
    BY <2>1, <2>2 DEF Forma, Cambiando, Moviendo, TrasMover
  <2> QED
    BY <1>0, <2>1, <2>3, MoviendoSalva
<1> QED
  BY <1>1, <1>2, <1>3, <1>4 DEF Paso, Quieto, Sube, Borra, BorraCarpeta, Purga, Restaura,
     RenombraArchivo

-----------------------------------------------------------------------------
(* Requests, crashes, Init and Next *)

\* A request taken: no promise is kept for the files on which it meets another.
LEMMA TomaSalva ==
  ASSUME Inv, Aislados, Identidades, Salvados, NEW h \in Hilo, hilo[h] = OCIOSO,
         NEW r, Toma(h, r), r # OCIOSO, r.id = pedidos + 1
  PROVE  Identidades' /\ Salvados'
<1> DEFINE otros == UNION {hilo[g].toca : g \in {g \in Hilo : hilo[g].toca \cap r.toca # {}}}
<1>0. pedidos \in Nat /\ OCIOSO.toca = {}
  BY UnidadesAssumption DEF Inv, Tipos, OCIOSO
<1>1. /\ UNCHANGED disco /\ pedidos' = pedidos + 1
      /\ hilo'[h] = r /\ \A g \in Hilo : g # h => hilo'[g] = hilo[g]
  BY DEF Toma, Sigue, Inv, Hilos
<1>2. \/ r.toca \cap sucios = {} /\ UNCHANGED <<sucios, acusados>>
      \/ /\ sucios' = sucios \cup (r.toca \cup otros)
         /\ acusados' = acusados \ ContenidoDe(r.toca \cup otros)
  BY DEF Toma, Ensucia
<1>3. \A g \in Hilo : hilo[g].toca \cap r.toca # {} => hilo[g].toca \subseteq otros
  OBVIOUS
<1>4. \A x \in otros : \E g \in Hilo : x \in hilo[g].toca /\ hilo[g].toca \cap r.toca # {}
  OBVIOUS
<1> HIDE DEF otros
<1>5. acusados' \subseteq acusados /\ sucios \subseteq sucios'
  BY <1>2
<1>6. \A g \in EnCurso' : g = h \/ (g \in EnCurso /\ hilo'[g] = hilo[g])
  BY <1>1 DEF EnCurso
<1>7. \A c \in acusados : \E k \in Clave, v \in Version : disco[k][v] = c
  BY DEF Salvados, AcusadoGuardado
<1>8. AcusadoGuardado'
  BY <1>1, <1>5, <1>7 DEF AcusadoGuardado
<1>9. \A c \in acusados : Autor(c) \in 0..pedidos
  BY <1>7 DEF Identidades
<1>10. Identidades'
  <2>1. \A k \in Clave, v \in Version : disco[k][v] # NADA =>
          Autor(disco[k][v]) \in 0..pedidos' /\ Autor(disco[k][v]) # r.id
    <3>1. \A i \in 0..pedidos : i \in 0..pedidos' /\ i # r.id
      BY <1>0, <1>1
    <3> QED
      BY <3>1 DEF Identidades
  <2>2. \A g \in EnCurso : hilo[g].id \in 1..pedidos' /\ hilo[g].id # r.id
    <3>1. \A i \in 1..pedidos : i \in 1..pedidos' /\ i # r.id
      BY <1>0, <1>1
    <3> QED
      BY <3>1 DEF Identidades
  <2>3. \A c \in acusados : Autor(c) # r.id
    BY <1>0, <1>9
  <2>4. r.id \in 1..pedidos'
    BY <1>0, <1>1
  <2>5. \A g \in EnCurso' : hilo'[g].id \in 1..pedidos'
    BY <1>1, <1>6, <2>2, <2>4
  <2>6. \A f \in EnCurso', g \in EnCurso' : f # g => hilo'[f].id # hilo'[g].id
    BY <1>1, <1>6, <2>2 DEF Identidades
  <2>7. NADA \notin acusados' /\ \A c \in acusados', g \in EnCurso' : Autor(c) # hilo'[g].id
    BY <1>1, <1>5, <1>6, <2>3 DEF Identidades
  <2>8. ASSUME NEW g \in EnCurso', Limpio(hilo[g])', NEW k \in Clave, NEW v \in Version,
               disco[k][v] # NADA, Autor(disco[k][v]) = hilo'[g].id
        PROVE  Archivo(k) \in hilo'[g].toca
    <3>1. g \in EnCurso /\ hilo'[g] = hilo[g]
      BY <1>1, <1>6, <2>1, <2>8
    <3>2. Limpio(hilo[g])
      BY <1>5, <2>8, <3>1 DEF Limpio
    <3> QED
      BY <2>8, <3>1, <3>2 DEF Identidades
  <2> QED
    BY <1>1, <2>1, <2>5, <2>6, <2>7, <2>8 DEF Identidades
<1>11. ASSUME NEW g \in EnCurso', ~Limpio(hilo[g])', NEW c, c \in ContenidoDe(hilo[g].toca)',
              c \in acusados'
       PROVE  FALSE
  <2>1. PICK k \in Clave, v \in Version : Archivo(k) \in hilo'[g].toca /\ disco[k][v] = c
    BY <1>1, <1>11 DEF ContenidoDe
  <2>2. c \in acusados
    BY <1>5, <1>11
  <2>3. CASE g # h /\ ~Limpio(hilo[g])
    <3>1. g \in EnCurso /\ Archivo(k) \in hilo[g].toca
      BY <1>6, <2>1, <2>3
    <3>2. c \in ContenidoDe(hilo[g].toca)
      BY <2>1, <3>1, EnContenido
    <3> QED
      BY <2>2, <2>3, <3>1, <3>2 DEF Salvados
  <2>4. CASE ~(g # h /\ ~Limpio(hilo[g]))
    <3>1. hilo'[g].toca \cap sucios' # {}
      BY <1>11 DEF Limpio
    <3>2. /\ sucios' = sucios \cup (r.toca \cup otros)
          /\ acusados' = acusados \ ContenidoDe(r.toca \cup otros)
      BY <1>1, <1>2, <1>6, <2>4, <3>1 DEF Limpio
    <3>3. hilo'[g].toca \subseteq r.toca \cup otros
      <4>1. CASE g = h
        BY <1>1, <4>1
      <4>2. CASE g # h
        <5>0. g \in EnCurso /\ hilo'[g] = hilo[g] /\ Limpio(hilo[g])
          BY <1>6, <2>4, <4>2
        <5>1. PICK x \in hilo[g].toca : x \in r.toca \cup otros
          BY <3>1, <3>2, <5>0 DEF Limpio
        <5>2. CASE x \in r.toca
          BY <1>3, <5>0, <5>1, <5>2 DEF EnCurso
        <5>3. CASE x \in otros
          <6>1. PICK f \in Hilo : x \in hilo[f].toca /\ hilo[f].toca \cap r.toca # {}
            BY <1>4, <5>3
          <6>2. f \in EnCurso
            BY <1>0, <6>1 DEF EnCurso
          <6>3. f = g
            BY <5>0, <5>1, <6>1, <6>2 DEF Aislados, Separados, Limpio
          <6> QED
            BY <1>3, <5>0, <6>1, <6>3
        <5> QED
          BY <5>1, <5>2, <5>3
      <4> QED
        BY <4>1, <4>2
    <3>4. c \in ContenidoDe(r.toca \cup otros)
      BY <2>1, <3>3, EnContenido
    <3> QED
      BY <1>11, <3>2, <3>4
  <2> QED
    BY <2>3, <2>4
<1> QED
  BY <1>8, <1>10, <1>11 DEF Salvados

LEMMA PideSalva ==
  ASSUME Inv, Aislados, Identidades, Salvados, NEW h \in Hilo, Pide(h)
  PROVE  Identidades' /\ Salvados'
<1>0. hilo[h] = OCIOSO
  BY DEF Pide
<1>t. \A p, u, k, c : /\ Tarea(p, u, k, c).id = pedidos + 1 /\ Tarea(p, u, k, c) # OCIOSO
                      /\ "user" \in DOMAIN Tarea(p, u, k, c)
  BY DEF Tarea, OCIOSO
<1>1. PICK u \in Usuario :
        \/ \E k \in {c \in Clave : c.dueno \in Unidades} :
             \/ \E v \in Version, force \in BOOLEAN : PideSubir(h, u, k, v, force)
             \/ PideBorrar(h, u, k)
             \/ PidePurgar(h, u, k)
             \/ PideRestaurar(h, u, k)
             \/ \E c \in Clave, lista \in SUBSET Usuario : PideActualizar(h, u, k, c, lista)
        \/ \E dir \in Carpeta : PideBorrarCarpeta(h, u, dir)
        \/ PideBuscar(h, u)
  BY DEF Pide
<1>2. ASSUME NEW k \in Clave, NEW v \in Version, NEW force \in BOOLEAN,
             PideSubir(h, u, k, v, force)
      PROVE  Identidades' /\ Salvados'
  <2> DEFINE t == Tarea("carpeta", u, k, k)
             q == [En("version", t) EXCEPT !.n = IF force THEN 1 ELSE v, !.fuerza = force]
             s == [t EXCEPT !.primera = TRUE]
  <2>1. Toma(h, q) \/ Toma(h, s)
    BY <1>2 DEF PideSubir
  <2>2. q.id = pedidos + 1 /\ q # OCIOSO /\ s.id = pedidos + 1 /\ s # OCIOSO
    BY DEF Tarea, En, OCIOSO
  <2> HIDE DEF q, s
  <2> QED
    BY <1>0, <2>1, <2>2, TomaSalva
<1>3. ASSUME NEW k \in Clave, PideBorrar(h, u, k) \/ PidePurgar(h, u, k) \/ PideRestaurar(h, u, k)
      PROVE  Identidades' /\ Salvados'
  BY <1>0, <1>t, <1>3, TomaSalva DEF PideBorrar, PidePurgar, PideRestaurar
<1>4. ASSUME NEW k \in Clave, NEW c \in Clave, NEW lista \in SUBSET Usuario,
             PideActualizar(h, u, k, c, lista)
      PROVE  Identidades' /\ Salvados'
  <2> DEFINE q == [Tarea("act_get", u, k, c) EXCEPT !.lista = lista]
  <2>1. Toma(h, q)
    BY <1>4 DEF PideActualizar
  <2>2. q.id = pedidos + 1 /\ q # OCIOSO
    BY DEF Tarea, OCIOSO
  <2> HIDE DEF q
  <2> QED
    BY <1>0, <2>1, <2>2, TomaSalva
<1>5. ASSUME NEW dir \in Carpeta, PideBorrarCarpeta(h, u, dir) PROVE Identidades' /\ Salvados'
  <2>1. PICK k \in EnCarpeta(u, dir) :
          Toma(h, [Tarea("recorre", u, k, k) EXCEPT
                     !.borra = TRUE,
                     !.claves = {c \in EnCarpeta(u, dir) : HayEnDisco(c)},
                     !.toca = {Archivo(c) : c \in Bajo(u, dir)}])
    BY <1>5 DEF PideBorrarCarpeta
  <2> DEFINE q == [Tarea("recorre", u, k, k) EXCEPT
                     !.borra = TRUE,
                     !.claves = {c \in EnCarpeta(u, dir) : HayEnDisco(c)},
                     !.toca = {Archivo(c) : c \in Bajo(u, dir)}]
  <2>2. q.id = pedidos + 1 /\ q # OCIOSO
    BY DEF Tarea, OCIOSO
  <2>3. Toma(h, q)
    BY <2>1
  <2> HIDE DEF q
  <2> QED
    BY <1>0, <2>2, <2>3, TomaSalva
<1>6. CASE PideBuscar(h, u)
  <2>1. PICK k \in permisos[u] :
          Toma(h, [Tarea("busca", u, k, k) EXCEPT !.claves = permisos[u], !.toca = {}])
    BY <1>6 DEF PideBuscar
  <2> DEFINE q == [Tarea("busca", u, k, k) EXCEPT !.claves = permisos[u], !.toca = {}]
  <2>2. q.id = pedidos + 1 /\ q # OCIOSO
    BY DEF Tarea, OCIOSO
  <2>3. Toma(h, q)
    BY <2>1
  <2> HIDE DEF q
  <2> QED
    BY <1>0, <2>2, <2>3, TomaSalva
<1> QED
  BY <1>1, <1>2, <1>3, <1>4, <1>5, <1>6

LEMMA CaeSalva ==
  ASSUME Identidades, Salvados, Cae, UNCHANGED pedidos
  PROVE  Identidades' /\ Salvados'
<1>1. UNCHANGED <<disco, acusados>> /\ EnCurso' = {}
  BY DEF Cae, EnCurso
<1> QED
  BY <1>1 DEF Identidades, Salvados, AcusadoGuardado

LEMMA InitSalva == ASSUME Init PROVE Identidades /\ Salvados
<1>0. PICK K \in Iniciales : \E C \in SUBSET {k \in K : Viva(k)} : Guardados(K, C)
  BY DEF Init
<1>1. PICK C \in SUBSET {k \in K : Viva(k)} : Guardados(K, C)
  BY <1>0
<1>2. hilo = [h \in Hilo |-> OCIOSO] /\ pedidos = 0
  BY DEF Init
<1>3. EnCurso = {}
  BY <1>2 DEF EnCurso
<1>4. K \subseteq Clave /\ VersionInicial \in Version
  BY UnidadesAssumption
<1>5. \A k \in Clave, v \in Version :
        disco[k][v] = IF k \in K /\ v <= VersionInicial THEN <<k, v, 0>> ELSE NADA
  BY <1>1 DEF Guardados
<1>6. acusados = {<<k, v, 0>> : k \in K, v \in 1..VersionInicial}
  BY <1>1 DEF Guardados
<1>7. \A v \in 1..VersionInicial : v \in Version /\ v <= VersionInicial
  BY <1>4, MaxVersionAssumption DEF Version
<1>8. \A k \in Clave, v \in Version : <<k, v, 0>> # NADA /\ Autor(<<k, v, 0>>) = 0
  BY NadaHilosAssumption, UnidadesAssumption DEF Contenido, Autor
<1>9. \A k \in Clave, v \in Version : disco[k][v] # NADA => Autor(disco[k][v]) \in 0..pedidos
  <2> SUFFICES ASSUME NEW k \in Clave, NEW v \in Version, disco[k][v] # NADA
               PROVE  Autor(disco[k][v]) \in 0..pedidos
    OBVIOUS
  <2>1. disco[k][v] = <<k, v, 0>>
    BY <1>5
  <2>2. Autor(disco[k][v]) = 0
    BY <1>8, <2>1
  <2> QED
    BY <1>2, <2>2
<1>10. NADA \notin acusados
  BY <1>4, <1>6, <1>7, <1>8
<1>11. AcusadoGuardado
  <2> SUFFICES ASSUME NEW c \in acusados PROVE \E k \in Clave, v \in Version : disco[k][v] = c
    BY DEF AcusadoGuardado
  <2>1. PICK k \in K, v \in 1..VersionInicial : c = <<k, v, 0>>
    BY <1>6
  <2>2. disco[k][v] = c
    BY <1>4, <1>5, <1>7, <2>1
  <2> QED
    BY <1>4, <1>7, <2>2
<1> QED
  BY <1>3, <1>9, <1>10, <1>11 DEF Identidades, Salvados

LEMMA NextSalva ==
  ASSUME Inv, Aislados, Identidades, Salvados, [Next]_vars
  PROVE  Identidades' /\ Salvados'
<1>1. ASSUME NEW h \in Hilo, Pide(h) PROVE Identidades' /\ Salvados'
  BY <1>1, PideSalva
<1>2. ASSUME NEW h \in Hilo, Paso(h) PROVE Identidades' /\ Salvados'
  BY <1>2, PasoSalva
<1>3. ASSUME NEW h \in Hilo, Lanza(h) PROVE Identidades' /\ Salvados'
  BY <1>3, CaeSalva DEF Lanza
<1>4. CASE Caida
  BY <1>4, CaeSalva DEF Caida
<1>5. CASE UNCHANGED vars
  <2>1. UNCHANGED <<disco, hilo, sucios, acusados, pedidos>>
    BY <1>5 DEF vars
  <2> QED
    BY <2>1 DEF Identidades, Salvados, AcusadoGuardado, EnCurso, Limpio, ContenidoDe
<1> QED
  BY <1>1, <1>2, <1>3, <1>4, <1>5 DEF Next

-----------------------------------------------------------------------------

\* An upload that was answered 201 stays on disk, under its name, a new one or in the
\* trash, until its file is purged, for any number of threads, requests and crashes: the
\* write of guardarArchivoEnFileSystem, the renames of a deletion, a restoration or a
\* renaming and the rm -r of an empty folder overwrite or remove it only when two
\* requests overlap on its file, or one works on it after a crash cut another short.
THEOREM AcusadoGuardadoSiempre == Spec => []AcusadoGuardado
<1>1. Init => Identidades /\ Salvados
  BY InitSalva
<1>2. Inv /\ Aislados /\ Identidades /\ Salvados /\ [Next]_vars => (Identidades /\ Salvados)'
  BY NextSalva
<1>3. Salvados => AcusadoGuardado
  BY DEF Salvados
<1> QED
  BY <1>1, <1>2, <1>3, AisladosSiempre, PTL DEF Spec

-----------------------------------------------------------------------------
(* Owners and folders, however the requests interleave *)

DeSuDueno(m, k) == m # NADA => m.propietario = k.dueno

\* What a request holds, or is to write, names the owner of the drive it works on.
Suyo(r) ==
  r # OCIOSO => /\ DeSuDueno(r.leido, r.clave) /\ DeSuDueno(r.nuevo, r.clave)
                /\ r.destino.dueno = r.clave.dueno

Duenos ==
  /\ \A k \in Clave : DeSuDueno(meta[k], k) /\ DeSuDueno(antes.meta[k], k)
  /\ \A x \in compartidos : Viva(x[2])
  /\ \A h \in Hilo : Suyo(hilo[h])

\* A live file on disk is in a folder that is there.
EnSuSitio == \A k \in Clave : Viva(k) /\ HayEnDisco(k) => EnSuCarpeta(carpetas, k)

LEMMA DuenosSiguen ==
  ASSUME Inv, Duenos, NEW h \in Hilo, NEW q, Sigue(h, q), Suyo(q),
         \A k \in Clave : DeSuDueno(meta'[k], k),
         \A x \in compartidos' : Viva(x[2])
  PROVE  Duenos'
<1>1. \A g \in Hilo : Suyo(hilo'[g])
  BY DEF Sigue, Inv, Hilos, Duenos
<1>2. antes' = antes \/ antes' = Ahora'
  BY DEF Sigue
<1>3. \A k \in Clave : DeSuDueno(antes'.meta[k], k)
  BY <1>2 DEF Duenos, Ahora
<1> QED
  BY <1>1, <1>3 DEF Duenos, Suyo

LEMMA LeeDuenos ==
  ASSUME Inv, Duenos, NEW h \in Hilo, NEW q, Lee(h, q), Suyo(q)
  PROVE  Duenos'
<1>1. UNCHANGED <<meta, compartidos>> /\ Sigue(h, q)
  BY DEF Lee
<1> QED
  BY <1>1, DuenosSiguen DEF Duenos

\* A step that writes what its request holds.
LEMMA EscribeDuenos ==
  ASSUME Inv, Duenos, NEW h \in Hilo, NEW q, Sigue(h, q), Suyo(q), compartidos' = compartidos,
         NEW k \in Clave, NEW m, NEW c \in Clave, NEW n,
         meta' = [meta EXCEPT ![k] = m, ![c] = n], DeSuDueno(m, k), DeSuDueno(n, c)
  PROVE  Duenos'
<1>1. \A x \in Clave : DeSuDueno(meta'[x], x)
  BY DEF Duenos, Inv, Tipos
<1> QED
  BY <1>1, DuenosSiguen DEF Duenos

LEMMA Suyos ==
  ASSUME Inv, Aislados, Duenos, NEW h \in Hilo, hilo[h] # OCIOSO
  PROVE  /\ hilo[h] \in Pedido /\ Forma(hilo[h])
         /\ hilo[h].clave \in Clave /\ hilo[h].destino \in Clave
         /\ DeSuDueno(hilo[h].leido, hilo[h].clave) /\ DeSuDueno(hilo[h].nuevo, hilo[h].clave)
         /\ hilo[h].destino.dueno = hilo[h].clave.dueno
         /\ DeSuDueno(meta[hilo[h].clave], hilo[h].clave)
         /\ meta[hilo[h].clave] \in Metadato \cup {NADA}
         /\ DeSuDueno(NADA, hilo[h].clave) /\ DeSuDueno(NADA, hilo[h].destino)
         /\ Suyo(OCIOSO)
<1>1. /\ hilo[h] \in Pedido /\ Forma(hilo[h])
      /\ hilo[h].clave \in Clave /\ hilo[h].destino \in Clave
  BY EnTarea
<1>2. meta[hilo[h].clave] \in Metadato \cup {NADA}
  BY <1>1 DEF Inv, Tipos
<1> QED
  BY <1>1, <1>2 DEF Duenos, Suyo, DeSuDueno

LEMMA EnSuyo ==
  ASSUME NEW r \in Pedido, Suyo(r), r # OCIOSO, NEW p
  PROVE  /\ En(p, r) # OCIOSO
         /\ Suyo(En(p, r)) /\ Suyo(Vuelve(r))
         /\ \A n : Suyo([En(p, r) EXCEPT !.n = n]) /\ Suyo([r EXCEPT !.n = n])
         /\ \A s : Suyo([r EXCEPT !.claves = s]) /\ Suyo([En(p, r) EXCEPT !.pend = s])
         /\ \A m : DeSuDueno(m, r.clave) =>
              Suyo([En(p, r) EXCEPT !.leido = m]) /\ Suyo([En(p, r) EXCEPT !.nuevo = m])
<1>1. En(p, r).clave = r.clave /\ En(p, r).destino = r.destino /\ En(p, r).leido = r.leido
      /\ En(p, r).nuevo = r.nuevo /\ En(p, r).paso = p
  BY DEF En, Pedido
<1> QED
  BY <1>1 DEF En, Pedido, Suyo, Vuelve, OCIOSO

LEMMA SubeDuenos ==
  ASSUME Inv, Aislados, Duenos, NEW h \in Hilo, hilo[h] # OCIOSO, Sube(h)
  PROVE  Duenos'
<1> DEFINE r == hilo[h]
           k == r.clave
<1>0. /\ r \in Pedido /\ Suyo(r) /\ k \in Clave /\ Suyo(OCIOSO)
      /\ DeSuDueno(meta[k], k) /\ DeSuDueno(r.leido, k)
      /\ meta[k] \in Metadato \cup {NADA}
  BY Suyos DEF Duenos
<1> HIDE DEF r
<1>1. CASE validaVersion(h)
  BY <1>0, <1>1, EnSuyo, LeeDuenos DEF validaVersion, r
<1>2. CASE creaCarpeta(h)
  BY <1>0, <1>2, EnSuyo, DuenosSiguen DEF creaCarpeta, r, Duenos
<1>3. CASE hayMetadato(h)
  BY <1>0, <1>3, EnSuyo, LeeDuenos DEF hayMetadato, r
<1>4. CASE subeGet(h)
  <2>1. meta[k] \in Metadato
    BY <1>0, <1>4 DEF subeGet, Get, existeMetadato, r
  <2>2. DeSuDueno([meta[k] EXCEPT !.ultimaVersion = r.n], k)
    BY <1>0, <2>1, NadaHilosAssumption DEF DeSuDueno, Metadato
  <2> QED
    BY <1>0, <1>4, <2>2, EnSuyo, LeeDuenos DEF subeGet, Get, r
<1>5. CASE subePut(h)
  <2>1. /\ meta' = [meta EXCEPT ![k] = r.leido, ![k] = r.leido]
        /\ Sigue(h, En("escribe", r)) /\ compartidos' = compartidos
    BY <1>5 DEF subePut, EscribeDB, r
  <2> QED
    BY <1>0, <2>1, EnSuyo, EscribeDuenos DEF r
<1>6. CASE escribe(h)
  BY <1>0, <1>6, EnSuyo, DuenosSiguen DEF escribe, r, Duenos
<1>7. CASE cargaGet(h)
  BY <1>0, <1>7, EnSuyo, LeeDuenos DEF cargaGet, r
<1>8. CASE cargaPut(h)
  <2>1. /\ meta' = [meta EXCEPT ![k] = MetadatoNuevo(k), ![k] = MetadatoNuevo(k)]
        /\ Sigue(h, OCIOSO) /\ compartidos' = compartidos
    BY <1>8 DEF cargaPut, r
  <2>2. DeSuDueno(MetadatoNuevo(k), k)
    BY DEF DeSuDueno, MetadatoNuevo
  <2> QED
    BY <1>0, <2>1, <2>2, EscribeDuenos DEF r
<1> QED
  BY <1>1, <1>2, <1>3, <1>4, <1>5, <1>6, <1>7, <1>8 DEF Sube

LEMMA BorraDuenos ==
  ASSUME Inv, Aislados, Duenos, NEW h \in Hilo, hilo[h] # OCIOSO,
         Borra(h) \/ BorraCarpeta(h)
  PROVE  Duenos'
<1> DEFINE r == hilo[h]
           k == r.clave
<1>0. /\ r \in Pedido /\ Forma(r) /\ Suyo(r) /\ k \in Clave /\ Suyo(OCIOSO)
      /\ DeSuDueno(meta[k], k) /\ DeSuDueno(r.leido, k) /\ DeSuDueno(r.nuevo, k)
      /\ r.destino \in Clave /\ r.destino.dueno = k.dueno
  BY Suyos DEF Duenos
<1>o. r # OCIOSO
  OBVIOUS
<1> HIDE DEF r
<1>1. CASE borraGet(h)
  <2> DEFINE q == [En("secuencia", r) EXCEPT !.leido = meta[k],
                     !.pend = meta[k].usuarios \ {meta[k].propietario}]
  <2>1. Lee(h, q) \/ Lee(h, Vuelve(r))
    BY <1>1 DEF borraGet, Get, r
  <2>2. Suyo(q)
    BY <1>0, <1>o DEF Suyo, En, Pedido
  <2> HIDE DEF q
  <2> QED
    BY <1>0, <1>o, <2>1, <2>2, EnSuyo, LeeDuenos
<1>2. CASE secuencia(h)
  <2>1. PICK n \in Secuencia : Lee(h, [En("invitado", r) EXCEPT !.destino = EnPapelera(k, n)])
    BY <1>2 DEF secuencia, r
  <2>2. Suyo([En("invitado", r) EXCEPT !.destino = EnPapelera(k, n)])
    BY <1>0, <1>o DEF Suyo, En, Pedido, EnPapelera, Clave
  <2> QED
    BY <2>1, <2>2, LeeDuenos
<1>3. CASE leeInvitado(h)
  <2>1. PICK g \in r.pend :
          Lee(h, [r EXCEPT !.pend = @ \ {g}, !.indices[g] = permisos[g] \ {k}])
    BY <1>3 DEF leeInvitado, r
  <2>2. Suyo([r EXCEPT !.pend = @ \ {g}, !.indices[g] = permisos[g] \ {k}])
    BY <1>0, <1>o DEF Suyo, Pedido
  <2> QED
    BY <2>1, <2>2, LeeDuenos
<1>4. CASE loteBorra(h)
  BY <1>0, <1>o, <1>4, EnSuyo, LeeDuenos DEF loteBorra, r
<1>5. CASE escribeLoteBorra(h)
  <2> DEFINE n == [r.leido EXCEPT !.usuarios = {r.leido.propietario}]
  <2>1. /\ meta' = [meta EXCEPT ![k] = NADA, ![r.destino] = n]
        /\ Sigue(h, En("mueve", r)) /\ compartidos' = compartidos /\ r.paso = "lote_escribe"
    BY <1>5 DEF escribeLoteBorra, EscribeDB, r
  <2>2. r.leido \in Metadato
    BY <2>1, EnTrabajo DEF ConLeido, r
  <2>3. DeSuDueno(n, r.destino) /\ DeSuDueno(NADA, k)
    BY <1>0, <2>2, NadaHilosAssumption DEF DeSuDueno, Metadato
  <2> HIDE DEF n
  <2> QED
    BY <1>0, <1>o, <2>1, <2>3, EnSuyo, EscribeDuenos
<1>6. CASE mueve(h)
  <2> DEFINE falla == r.n > r.leido.ultimaVersion \/ disco[k][r.n] = NADA
             q == IF falla \/ r.n >= r.leido.ultimaVersion
                  THEN Vuelve(r) ELSE [r EXCEPT !.n = @ + 1]
  <2>1. UNCHANGED <<meta, compartidos>> /\ Sigue(h, q)
    BY <1>6 DEF mueve, EscribeDisco, r
  <2>2. Suyo(q)
    BY <1>0, <1>o, EnSuyo
  <2> HIDE DEF q
  <2> QED
    BY <2>1, <2>2, DuenosSiguen DEF Duenos
<1>7. CASE recorre(h)
  <2>1. PICK c \in r.claves :
          Lee(h, IF Existe(c) THEN En("borra_get", [r EXCEPT !.claves = @ \ {c},
                                                             !.clave = c, !.n = 1])
                              ELSE [r EXCEPT !.claves = @ \ {c}, !.clave = c, !.n = 1])
    BY <1>7 DEF recorre, r
  <2> DEFINE s == [r EXCEPT !.claves = @ \ {c}, !.clave = c, !.n = 1]
  <2>2. c.dueno = k.dueno
    BY <1>0, <1>7 DEF Forma, EnCarpeta, recorre, r, Borrando
  <2>3. Suyo(s) /\ Suyo(En("borra_get", s))
    BY <1>0, <1>o, <2>2 DEF Suyo, Pedido, En, DeSuDueno
  <2> HIDE DEF s
  <2>4. Lee(h, s) \/ Lee(h, En("borra_get", s))
    BY <2>1 DEF s
  <2> QED
    BY <2>3, <2>4, LeeDuenos
<1>8. CASE carpetaVacia(h)
  <2>1. Lee(h, En("rm", r)) \/ Lee(h, OCIOSO)
    BY <1>8 DEF carpetaVacia, r
  <2> QED
    BY <1>0, <1>o, <2>1, EnSuyo, LeeDuenos
<1>9. CASE deleteCarpeta(h)
  BY <1>0, <1>9, DuenosSiguen DEF deleteCarpeta, Duenos
<1> QED
  BY <1>1, <1>2, <1>3, <1>4, <1>5, <1>6, <1>7, <1>8, <1>9 DEF Borra, BorraCarpeta

LEMMA PurgaDuenos ==
  ASSUME Inv, Aislados, Duenos, NEW h \in Hilo, hilo[h] # OCIOSO, Purga(h)
  PROVE  Duenos'
<1> DEFINE r == hilo[h]
           k == r.clave
<1>0. r \in Pedido /\ Suyo(r) /\ k \in Clave /\ Suyo(OCIOSO) /\ DeSuDueno(NADA, k)
  BY Suyos DEF Duenos
<1>o. r # OCIOSO
  OBVIOUS
<1> HIDE DEF r
<1>1. CASE purgaGet(h)
  BY <1>0, <1>o, <1>1, EnSuyo, LeeDuenos DEF purgaGet, Get, r
<1>2. CASE purgaErase(h)
  <2>1. /\ meta' = [meta EXCEPT ![k] = NADA, ![k] = NADA]
        /\ Sigue(h, En("purga_rm", r)) /\ compartidos' = compartidos
    BY <1>2 DEF purgaErase, EscribeDB, r
  <2> QED
    BY <1>0, <1>o, <2>1, EnSuyo, EscribeDuenos
<1>3. CASE purgaRm(h)
  BY <1>0, <1>3, DuenosSiguen DEF purgaRm, Duenos
<1> QED
  BY <1>1, <1>2, <1>3 DEF Purga

LEMMA RestauraDuenos ==
  ASSUME Inv, Aislados, Duenos, NEW h \in Hilo, hilo[h] # OCIOSO, Restaura(h)
  PROVE  Duenos'
<1> DEFINE r == hilo[h]
           k == r.clave
<1>0. /\ r \in Pedido /\ Suyo(r) /\ k \in Clave /\ Suyo(OCIOSO) /\ r.destino \in Clave
      /\ DeSuDueno(meta[k], k) /\ DeSuDueno(r.nuevo, k) /\ DeSuDueno(NADA, k)
      /\ r.destino.dueno = k.dueno
  BY Suyos DEF Duenos
<1>o. r # OCIOSO
  OBVIOUS
<1>k. \A q : Suyo(q) /\ Sigue(h, q) /\ UNCHANGED <<meta, compartidos>> => Duenos'
  BY DuenosSiguen DEF Duenos
<1> HIDE DEF r
<1>1. CASE restauraCarpeta(h)
  BY <1>0, <1>o, <1>1, <1>k, EnSuyo DEF restauraCarpeta, r
<1>2. CASE puedoRestaurarA(h)
  <2>1. Lee(h, En("rest_get", r)) \/ Lee(h, OCIOSO)
    BY <1>2 DEF puedoRestaurarA, r
  <2> QED
    BY <1>0, <1>o, <2>1, EnSuyo, LeeDuenos
<1>3. CASE restauraGet(h)
  BY <1>0, <1>o, <1>3, EnSuyo, LeeDuenos DEF restauraGet, Get, r
<1>4. CASE restauraMueve(h)
  <2>1. UNCHANGED <<meta, compartidos>> /\ (Sigue(h, OCIOSO) \/ Sigue(h, [r EXCEPT !.n = @ + 1]))
    BY <1>4 DEF restauraMueve, EscribeDisco, r
  <2> QED
    BY <1>0, <1>o, <1>k, <2>1, EnSuyo
<1>5. CASE restauraLee(h)
  BY <1>0, <1>o, <1>5, EnSuyo, LeeDuenos DEF restauraLee, Get, r
<1>6. CASE loteRestaura(h)
  BY <1>0, <1>o, <1>6, EnSuyo, LeeDuenos DEF loteRestaura, r
<1>7. CASE restauraEscribe(h)
  <2>1. /\ meta' = [meta EXCEPT ![k] = NADA, ![r.destino] = r.nuevo]
        /\ Sigue(h, OCIOSO) /\ compartidos' = compartidos
    BY <1>7 DEF restauraEscribe, EscribeDB, r
  <2>2. DeSuDueno(r.nuevo, r.destino)
    BY <1>0 DEF DeSuDueno
  <2> QED
    BY <1>0, <2>1, <2>2, EscribeDuenos
<1>8. CASE deshacerRestaurado(h)
  <2>1. UNCHANGED <<meta, compartidos>> /\ (Sigue(h, OCIOSO) \/ Sigue(h, [r EXCEPT !.n = @ + 1]))
    BY <1>8 DEF deshacerRestaurado, EscribeDisco, r
  <2> QED
    BY <1>0, <1>o, <1>k, <2>1, EnSuyo
<1> QED
  BY <1>1, <1>2, <1>3, <1>4, <1>5, <1>6, <1>7, <1>8 DEF Restaura

LEMMA ActualizaDuenos ==
  ASSUME Inv, Aislados, Duenos, NEW h \in Hilo, hilo[h] # OCIOSO, Actualiza(h)
  PROVE  Duenos'
<1> DEFINE r == hilo[h]
           k == r.clave
<1>0. /\ r \in Pedido /\ Forma(r) /\ Suyo(r) /\ k \in Clave /\ Suyo(OCIOSO)
      /\ DeSuDueno(meta[k], k) /\ DeSuDueno(r.nuevo, k) /\ DeSuDueno(r.leido, k)
      /\ r.destino \in Clave /\ r.destino.dueno = k.dueno
      /\ meta[k] \in Metadato \cup {NADA}
  BY Suyos DEF Duenos
<1>o. r # OCIOSO
  OBVIOUS
<1> HIDE DEF r
<1>1. CASE actualizaGet(h)
  <2> DEFINE viejos == meta[k].usuarios
             lista == IF r.lista = {} THEN viejos ELSE r.lista
             q == [En("permiso", r) EXCEPT
                     !.leido = meta[k], !.lista = lista,
                     !.pend = (lista \ viejos) \cup (viejos \ lista)]
  <2>1. /\ compartidos' = compartidos \cup {<<g, r.destino>> : g \in lista}
                                      \cup {<<g, k>> : g \in lista}
        /\ Sigue(h, q) /\ meta' = meta /\ r.paso = "act_get"
    BY <1>1 DEF actualizaGet, r
  <2>2. Viva(k) /\ Viva(r.destino)
    BY <1>0, <2>1 DEF Forma, MismaCarpeta, Viva, Cambiando
  <2>3. Suyo(q)
    BY <1>0, <1>o DEF Suyo, En, Pedido
  <2> HIDE DEF q, lista
  <2>4. \A x \in compartidos' : Viva(x[2])
    BY <2>1, <2>2 DEF Duenos
  <2> QED
    BY <2>1, <2>3, <2>4, DuenosSiguen DEF Duenos
<1>2. CASE siguientePermiso(h)
  <2>1. PICK g : Lee(h, En("perm_get", [r EXCEPT !.pend = @ \ {g}, !.quien = g]))
                 \/ Lee(h, [r EXCEPT !.pend = @ \ {g}, !.quien = g])
    BY <1>2 DEF siguientePermiso, r
  <2>2. /\ Suyo(En("perm_get", [r EXCEPT !.pend = @ \ {g}, !.quien = g]))
        /\ Suyo([r EXCEPT !.pend = @ \ {g}, !.quien = g])
    BY <1>0, <1>o DEF Suyo, En, Pedido
  <2> QED
    BY <2>1, <2>2, LeeDuenos
<1>3. CASE permisoGet(h)
  <2> DEFINE m == [meta[k] EXCEPT !.usuarios =
                     IF r.quien \in r.lista THEN @ \cup {r.quien} ELSE @]
  <2>1. meta[k] \in Metadato /\ Lee(h, [En("perm_indice", r) EXCEPT !.nuevo = m])
    BY <1>0, <1>3 DEF permisoGet, Get, existeMetadato, r
  <2>2. DeSuDueno(m, k)
    BY <1>0, <2>1, NadaHilosAssumption DEF DeSuDueno, Metadato
  <2> HIDE DEF m
  <2> QED
    BY <1>0, <1>o, <2>1, <2>2, EnSuyo, LeeDuenos
<1>4. CASE permisoIndice(h)
  <2> DEFINE q == [En("perm_lote", r) EXCEPT
              !.indices[r.quien] = IF r.quien \in r.lista THEN permisos[r.quien] \cup {k}
                                                          ELSE permisos[r.quien] \ {k}]
  <2>1. Lee(h, q)
    BY <1>4 DEF permisoIndice, r
  <2>2. Suyo(q)
    BY <1>0, <1>o DEF Suyo, En, Pedido
  <2> HIDE DEF q
  <2> QED
    BY <2>1, <2>2, LeeDuenos
<1>5. CASE permisoLote(h)
  BY <1>0, <1>o, <1>5, EnSuyo, LeeDuenos DEF permisoLote, r
<1>6. CASE permisoEscribe(h)
  <2>1. /\ meta' = [meta EXCEPT ![k] = r.nuevo, ![k] = r.nuevo]
        /\ Sigue(h, En("permiso", r)) /\ compartidos' = compartidos
    BY <1>6 DEF permisoEscribe, EscribeDB, r
  <2> QED
    BY <1>0, <1>o, <2>1, EnSuyo, EscribeDuenos
<1>7. CASE actualizaModify(h)
  BY <1>0, <1>o, <1>7, EnSuyo, LeeDuenos DEF actualizaModify, Get, r
<1>8. CASE actualizaPut(h)
  <2>1. /\ meta' = [meta EXCEPT ![k] = Enviado(r), ![k] = Enviado(r)]
        /\ Sigue(h, OCIOSO) /\ compartidos' = compartidos
    BY <1>8 DEF actualizaPut, EscribeDB, r
  <2>2. DeSuDueno(Enviado(r), k)
    BY DEF DeSuDueno, Enviado
  <2> QED
    BY <1>0, <2>1, <2>2, EscribeDuenos
<1> QED
  BY <1>1, <1>2, <1>3, <1>4, <1>5, <1>6, <1>7, <1>8 DEF Actualiza

LEMMA RenombraDuenos ==
  ASSUME Inv, Aislados, Duenos, NEW h \in Hilo, hilo[h] # OCIOSO,
         RenombraArchivo(h) \/ busca(h)
  PROVE  Duenos'
<1> DEFINE r == hilo[h]
           k == r.clave
<1>0. /\ r \in Pedido /\ Suyo(r) /\ k \in Clave /\ Suyo(OCIOSO)
      /\ r.destino \in Clave /\ r.destino.dueno = k.dueno /\ DeSuDueno(NADA, k)
  BY Suyos DEF Duenos
<1>o. r # OCIOSO
  OBVIOUS
<1>k. \A q : Suyo(q) /\ Sigue(h, q) /\ UNCHANGED <<meta, compartidos>> => Duenos'
  BY DuenosSiguen DEF Duenos
<1> HIDE DEF r
<1>1. CASE renombraHay(h)
  BY <1>0, <1>o, <1>1, EnSuyo, LeeDuenos DEF renombraHay, r
<1>2. CASE renombraMueve(h)
  <2>1. UNCHANGED <<meta, compartidos>> /\ (Sigue(h, OCIOSO) \/ Sigue(h, [r EXCEPT !.n = @ + 1]))
    BY <1>2 DEF renombraMueve, EscribeDisco, r
  <2> QED
    BY <1>0, <1>o, <1>k, <2>1, EnSuyo
<1>3. CASE renombraGet(h)
  BY <1>0, <1>o, <1>3, EnSuyo, LeeDuenos DEF renombraGet, Get, r
<1>4. CASE renombraIndice(h)
  <2>1. PICK g \in r.pend :
          Lee(h, [En("ren_modify", r) EXCEPT
                    !.pend = @ \ {g}, !.quien = g,
                    !.indices[g] = (permisos[g] \ {k}) \cup {r.destino}])
    BY <1>4 DEF renombraIndice, r
  <2>2. Suyo([En("ren_modify", r) EXCEPT
                !.pend = @ \ {g}, !.quien = g,
                !.indices[g] = (permisos[g] \ {k}) \cup {r.destino}])
    BY <1>0, <1>o DEF Suyo, En, Pedido
  <2> QED
    BY <2>1, <2>2, LeeDuenos
<1>5. CASE renombraModify(h)
  <2>1. UNCHANGED <<meta, compartidos>> /\ Sigue(h, En("ren_indice", r))
    BY <1>5 DEF renombraModify, EscribeDB, r
  <2> QED
    BY <1>0, <1>o, <1>k, <2>1, EnSuyo
<1>6. CASE renombraLote(h)
  BY <1>0, <1>o, <1>6, EnSuyo, LeeDuenos DEF renombraLote, r
<1>7. CASE renombraEscribe(h)
  <2>1. /\ meta' = [meta EXCEPT ![k] = NADA, ![r.destino] = Enviado(r)]
        /\ Sigue(h, OCIOSO) /\ compartidos' = compartidos
    BY <1>7 DEF renombraEscribe, EscribeDB, r
  <2>2. DeSuDueno(Enviado(r), r.destino)
    BY <1>0 DEF DeSuDueno, Enviado
  <2> QED
    BY <1>0, <2>1, <2>2, EscribeDuenos
<1>8. CASE busca(h)
  <2>1. PICK c : Lee(h, OCIOSO) \/ Lee(h, [r EXCEPT !.claves = @ \ {c}])
    BY <1>8 DEF busca, Get, r
  <2> QED
    BY <1>0, <1>o, <2>1, EnSuyo, LeeDuenos
<1> QED
  BY <1>1, <1>2, <1>3, <1>4, <1>5, <1>6, <1>7, <1>8 DEF RenombraArchivo

LEMMA PideDuenos ==
  ASSUME Inv, Duenos, NEW h \in Hilo, Pide(h)
  PROVE  Duenos'
<1>1. ASSUME NEW q, q.leido = NADA, q.nuevo = NADA, q.destino.dueno = q.clave.dueno
      PROVE  Suyo(q)
  BY <1>1 DEF Suyo, DeSuDueno
<1>2. ASSUME NEW q, Toma(h, q), Suyo(q) PROVE Duenos'
  <2>1. UNCHANGED <<meta, compartidos>> /\ Sigue(h, q)
    BY <1>2 DEF Toma
  <2> QED
    BY <1>2, <2>1, DuenosSiguen DEF Duenos
<1>3. PICK u \in Usuario :
        \/ \E k \in {c \in Clave : c.dueno \in Unidades} :
             \/ \E v \in Version, force \in BOOLEAN : PideSubir(h, u, k, v, force)
             \/ PideBorrar(h, u, k)
             \/ PidePurgar(h, u, k)
             \/ PideRestaurar(h, u, k)
             \/ \E c \in Clave, lista \in SUBSET Usuario : PideActualizar(h, u, k, c, lista)
        \/ \E dir \in Carpeta : PideBorrarCarpeta(h, u, dir)
        \/ PideBuscar(h, u)
  BY DEF Pide
<1>4. ASSUME NEW k \in Clave, NEW v, NEW force, PideSubir(h, u, k, v, force) PROVE Duenos'
  <2> DEFINE t == Tarea("carpeta", u, k, k)
  <2>1. PICK n : \/ Toma(h, [En("version", t) EXCEPT !.n = n, !.fuerza = force])
                 \/ Toma(h, [t EXCEPT !.primera = TRUE])
    BY <1>4 DEF PideSubir
  <2>2. /\ Suyo([En("version", t) EXCEPT !.n = n, !.fuerza = force])
        /\ Suyo([t EXCEPT !.primera = TRUE])
    BY <1>1 DEF Tarea, En
  <2> HIDE DEF t
  <2> QED
    BY <1>2, <2>1, <2>2
<1>5. ASSUME NEW k \in Clave, PideBorrar(h, u, k) \/ PidePurgar(h, u, k) PROVE Duenos'
  <2>1. \A p : Suyo(Tarea(p, u, k, k))
    BY <1>1 DEF Tarea
  <2> QED
    BY <1>2, <1>5, <2>1 DEF PideBorrar, PidePurgar
<1>6. ASSUME NEW k \in Clave, PideRestaurar(h, u, k) PROVE Duenos'
  <2>1. ~Viva(k) /\ verificarPermisos(u, k)
        /\ Toma(h, Tarea("rest_carpeta", u, k, ClaveReal(u, k)))
    BY <1>6 DEF PideRestaurar
  <2>2. u = k.dueno
    <3>1. k \notin permisos[u]
      <4> SUFFICES ASSUME k \in permisos[u] PROVE FALSE
        OBVIOUS
      <4>1. <<u, k>> \in compartidos
        BY DEF Inv, SinIntrusos
      <4>2. Viva(<<u, k>>[2])
        BY <4>1 DEF Duenos
      <4> QED
        BY <2>1, <4>2
    <3> QED
      BY <2>1, <3>1 DEF verificarPermisos
  <2>3. ClaveReal(u, k) \in Clave /\ ClaveReal(u, k).dueno = k.dueno
    BY <2>2 DEF ClaveReal, Clave
  <2>4. Suyo(Tarea("rest_carpeta", u, k, ClaveReal(u, k)))
    BY <1>1, <2>3 DEF Tarea
  <2> QED
    BY <1>2, <2>1, <2>4
<1>7. ASSUME NEW k \in Clave, NEW c \in Clave, NEW lista, PideActualizar(h, u, k, c, lista)
      PROVE  Duenos'
  <2>1. k.dueno = c.dueno /\ Toma(h, [Tarea("act_get", u, k, c) EXCEPT !.lista = lista])
    BY <1>7 DEF PideActualizar, MismaCarpeta
  <2>2. Suyo([Tarea("act_get", u, k, c) EXCEPT !.lista = lista])
    BY <1>1, <2>1 DEF Tarea
  <2> QED
    BY <1>2, <2>1, <2>2
<1>8. ASSUME NEW dir, PideBorrarCarpeta(h, u, dir) PROVE Duenos'
  <2>1. PICK k, s, x :
          Toma(h, [Tarea("recorre", u, k, k) EXCEPT !.borra = TRUE, !.claves = s, !.toca = x])
    BY <1>8 DEF PideBorrarCarpeta
  <2>2. Suyo([Tarea("recorre", u, k, k) EXCEPT !.borra = TRUE, !.claves = s, !.toca = x])
    BY <1>1 DEF Tarea
  <2> QED
    BY <1>2, <2>1, <2>2
<1>9. ASSUME PideBuscar(h, u) PROVE Duenos'
  <2>1. PICK k, s, x : Toma(h, [Tarea("busca", u, k, k) EXCEPT !.claves = s, !.toca = x])
    BY <1>9 DEF PideBuscar
  <2>2. Suyo([Tarea("busca", u, k, k) EXCEPT !.claves = s, !.toca = x])
    BY <1>1 DEF Tarea
  <2> QED
    BY <1>2, <2>1, <2>2
<1> QED
  BY <1>3, <1>4, <1>5, <1>6, <1>7, <1>8, <1>9

LEMMA InitDuenos == ASSUME Init PROVE Duenos
<1>0. PICK K \in Iniciales : \E C \in SUBSET {k \in K : Viva(k)} : Guardados(K, C)
  BY DEF Init
<1>1. PICK C \in SUBSET {k \in K : Viva(k)} : Guardados(K, C)
  BY <1>0
<1>2. \A k \in Clave : DeSuDueno(meta[k], k)
  BY <1>1 DEF Guardados, DeSuDueno
<1>3. antes.meta = meta /\ \A h \in Hilo : hilo[h] = OCIOSO
  BY DEF Init, Ahora
<1>4. \A x \in compartidos : Viva(x[2])
  BY <1>1 DEF Guardados
<1> QED
  BY <1>2, <1>3, <1>4 DEF Duenos, Suyo

LEMMA NextDuenos == ASSUME Inv, Aislados, Duenos, [Next]_vars PROVE Duenos'
<1>1. ASSUME NEW h \in Hilo, Pide(h) PROVE Duenos'
  BY <1>1, PideDuenos
<1>2. ASSUME NEW h \in Hilo, Paso(h) PROVE Duenos'
  BY <1>2, SubeDuenos, BorraDuenos, PurgaDuenos, RestauraDuenos, ActualizaDuenos,
     RenombraDuenos DEF Paso
<1>3. ASSUME Cae PROVE Duenos'
  <2>1. /\ UNCHANGED <<meta, compartidos>> /\ antes' = Ahora
        /\ \A h \in Hilo : hilo'[h] = OCIOSO
    BY <1>3 DEF Cae
  <2> QED
    BY <2>1 DEF Duenos, Suyo, Ahora
<1>4. CASE UNCHANGED vars
  <2>1. UNCHANGED <<meta, compartidos, antes, hilo>>
    BY <1>4 DEF vars
  <2> QED
    BY <2>1 DEF Duenos, Suyo
<1> QED
  BY <1>1, <1>2, <1>3, <1>4 DEF Next, Lanza, Caida

LEMMA SitioSigue ==
  ASSUME Inv, EnSuSitio,
         \A k \in Clave : EnSuCarpeta(carpetas, k) => EnSuCarpeta(carpetas', k),
         \A k \in Clave : \A v \in Version :
           Viva(k) /\ disco'[k][v] # NADA => disco[k][v] # NADA \/ HayEnDisco(k) \/ EnSuCarpeta(carpetas, k)
  PROVE  EnSuSitio'
BY DEF EnSuSitio, HayEnDisco

\* A rename takes a file to its folder, or to the trash.
LEMMA RenombraSitio ==
  ASSUME Inv, EnSuSitio, carpetas' = carpetas, NEW k \in Clave, NEW c \in Clave,
         HayCarpeta(c), NEW n \in Int, disco' = disco \/ disco' = Renombra(k, c, n)
  PROVE  EnSuSitio'
<1>1. CASE disco' = disco
  BY <1>1, SitioSigue
<1>2. CASE disco' = Renombra(k, c, n)
  <2>1. \A x \in Clave : x # c => \A v \in Version : disco'[x][v] # NADA => disco[x][v] # NADA
    BY <1>2 DEF Renombra, Inv, Tipos, Disco
  <2>2. Viva(c) => EnSuCarpeta(carpetas, c)
    BY DEF HayCarpeta, EnSuCarpeta
  <2> QED
    BY <2>1, <2>2, SitioSigue
<1> QED
  BY <1>1, <1>2

LEMMA PasoSitio ==
  ASSUME Inv, Aislados, EnSuSitio, NEW h \in Hilo, Paso(h)
  PROVE  EnSuSitio'
<1> DEFINE r == hilo[h]
           k == r.clave
<1>0. /\ r \in Pedido /\ Forma(r) /\ k \in Clave /\ r.destino \in Clave /\ r.n \in Int
      /\ hilo[h] # OCIOSO /\ k.dueno \in Usuario /\ r.user \in Usuario
  BY EnTarea DEF Paso, Pedido, Clave
<1>q. UNCHANGED <<carpetas, disco>> => EnSuSitio'
  BY SitioSigue
<1>l. \A q : Lee(h, q) => EnSuSitio'
  BY <1>q DEF Lee
<1>e. \A q : EscribeDB(h, q) /\ UNCHANGED <<meta, permisos>> => EnSuSitio'
  BY <1>q DEF EscribeDB
<1>1. CASE Sube(h)
  <2>1. CASE creaCarpeta(h)
    <3>1. \A x \in Clave : EnSuCarpeta(carpetas, x) => EnSuCarpeta(carpetas', x)
      BY <1>0, <2>1, ConCarpetaSigue DEF creaCarpeta
    <3>2. disco' = disco
      BY <2>1 DEF creaCarpeta
    <3> QED
      BY <3>1, <3>2, SitioSigue
  <2>2. CASE escribe(h)
    <3>1. /\ carpetas' = carpetas /\ r.paso = "escribe"
          /\ disco' = IF HayCarpeta(k) /\ r.n \in Version
                      THEN [disco EXCEPT ![k][r.n] = <<k, r.n, r.id>>] ELSE disco
      BY <2>2 DEF escribe
    <3>2. HayCarpeta(k) => EnSuCarpeta(carpetas, k)
      BY <1>0, <3>1 DEF Forma, Subiendo, HayCarpeta, EnSuCarpeta
    <3>3. \A x \in Clave : x # k => disco'[x] = disco[x]
      BY <3>1 DEF Inv, Tipos, Disco
    <3>4. ~HayCarpeta(k) => disco' = disco
      BY <3>1
    <3> QED
      BY <3>1, <3>2, <3>3, <3>4, SitioSigue
  <2>3. CASE ~creaCarpeta(h) /\ ~escribe(h)
    <3>1. UNCHANGED <<carpetas, disco>>
      BY <1>1, <2>3 DEF Sube, validaVersion, hayMetadato, subeGet, Get, subePut, cargaGet,
                        cargaPut, EscribeDB, Lee
    <3> QED
      BY <1>q, <3>1
  <2> QED
    BY <2>1, <2>2, <2>3
<1>2. CASE Borra(h)
  <2>1. CASE mueve(h)
    <3>1. /\ carpetas' = carpetas /\ r.paso = "mueve"
          /\ disco' = disco \/ disco' = Renombra(k, r.destino, r.n)
      BY <2>1 DEF mueve, EscribeDisco
    <3>2. HayCarpeta(r.destino)
      BY <1>0, <3>1 DEF Forma, HayCarpeta
    <3> QED
      BY <1>0, <3>1, <3>2, RenombraSitio
  <2>2. CASE ~mueve(h)
    <3>1. UNCHANGED <<carpetas, disco>>
      BY <1>2, <2>2 DEF Borra, borraGet, Get, secuencia, leeInvitado, loteBorra,
                        escribeLoteBorra, EscribeDB, Lee
    <3> QED
      BY <1>q, <3>1
  <2> QED
    BY <2>1, <2>2
<1>3. CASE BorraCarpeta(h)
  <2>1. CASE deleteCarpeta(h)
    <3> DEFINE dir == CarpetaDe(k.ruta)
    <3>1. /\ carpetas' = [carpetas EXCEPT ![r.user] = {e \in @ : ~IsPrefix(dir, e)}]
          /\ disco' = [x \in Clave |-> IF x \in Bajo(r.user, dir)
                                       THEN [v \in Version |-> NADA] ELSE disco[x]]
      BY <2>1 DEF deleteCarpeta
    <3>2. ASSUME NEW x \in Clave, Viva(x), HayEnDisco(x)' PROVE EnSuCarpeta(carpetas', x)
      <4>1. x \notin Bajo(r.user, dir) /\ HayEnDisco(x)
        BY <3>1, <3>2 DEF HayEnDisco
      <4>2. EnSuCarpeta(carpetas, x)
        BY <3>2, <4>1 DEF EnSuSitio
      <4>3. ~(x.dueno = r.user /\ IsPrefix(dir, CarpetaDe(x.ruta)))
        BY <3>2, <4>1 DEF Bajo
      <4> HIDE DEF dir
      <4> QED
        BY <1>0, <3>1, <4>2, <4>3 DEF EnSuCarpeta, Inv, Tipos, Clave
    <3> QED
      BY <3>2 DEF EnSuSitio
  <2>2. CASE ~deleteCarpeta(h)
    <3>1. UNCHANGED <<carpetas, disco>>
      BY <1>3, <2>2 DEF BorraCarpeta, recorre, carpetaVacia, Lee
    <3> QED
      BY <1>q, <3>1
  <2> QED
    BY <2>1, <2>2
<1>4. CASE Purga(h)
  <2>1. CASE purgaRm(h)
    <3>1. carpetas' = carpetas /\ disco' = [disco EXCEPT ![k] = [v \in Version |-> NADA]]
      BY <2>1 DEF purgaRm
    <3>2. \A x \in Clave : \A v \in Version : disco'[x][v] # NADA => disco[x][v] # NADA
      BY <3>1 DEF Inv, Tipos, Disco
    <3> QED
      BY <3>1, <3>2, SitioSigue
  <2>2. CASE ~purgaRm(h)
    <3>1. UNCHANGED <<carpetas, disco>>
      BY <1>4, <2>2 DEF Purga, purgaGet, Get, purgaErase, EscribeDB, Lee
    <3> QED
      BY <1>q, <3>1
  <2> QED
    BY <2>1, <2>2
<1>5. CASE Restaura(h)
  <2>1. CASE restauraCarpeta(h)
    <3>1. carpetas' = ConCarpeta(r.user, CarpetaDe(k.ruta)) /\ disco' = disco
      BY <2>1 DEF restauraCarpeta
    <3>2. \A x \in Clave : EnSuCarpeta(carpetas, x) => EnSuCarpeta(carpetas', x)
      BY <1>0, <3>1, ConCarpetaSigue
    <3> QED
      BY <3>1, <3>2, SitioSigue
  <2>2. CASE restauraMueve(h)
    <3>1. /\ carpetas' = carpetas
          /\ disco' = disco \/ (HayCarpeta(r.destino) /\ disco' = Renombra(k, r.destino, r.n))
      BY <2>2 DEF restauraMueve, EscribeDisco
    <3> QED
      BY <1>0, <1>q, <3>1, RenombraSitio
  <2>3. CASE deshacerRestaurado(h)
    <3>1. /\ carpetas' = carpetas /\ r.paso = "deshace"
          /\ disco' = disco \/ disco' = Renombra(r.destino, k, r.n)
      BY <2>3 DEF deshacerRestaurado, EscribeDisco
    <3>2. HayCarpeta(k)
      BY <1>0, <3>1 DEF Forma, Restaurando, HayCarpeta
    <3> QED
      BY <1>0, <3>1, <3>2, RenombraSitio
  <2>4. CASE ~restauraCarpeta(h) /\ ~restauraMueve(h) /\ ~deshacerRestaurado(h)
    <3>1. UNCHANGED <<carpetas, disco>>
      BY <1>5, <2>4 DEF Restaura, puedoRestaurarA, restauraGet, restauraLee, Get,
                        loteRestaura, restauraEscribe, EscribeDB, Lee
    <3> QED
      BY <1>q, <3>1
  <2> QED
    BY <2>1, <2>2, <2>3, <2>4
<1>6. CASE Actualiza(h)
  <2>1. UNCHANGED <<carpetas, disco>>
    BY <1>6 DEF Actualiza, actualizaGet, siguientePermiso, permisoGet, permisoIndice,
                permisoLote, permisoEscribe, actualizaModify, actualizaPut, Get, EscribeDB, Lee
  <2> QED
    BY <1>q, <2>1
<1>7. CASE RenombraArchivo(h)
  <2>1. CASE renombraMueve(h)
    <3>1. /\ carpetas' = carpetas
          /\ disco' = disco \/ (HayCarpeta(r.destino) /\ disco' = Renombra(k, r.destino, r.n))
      BY <2>1 DEF renombraMueve, EscribeDisco
    <3> QED
      BY <1>0, <1>q, <3>1, RenombraSitio
  <2>2. CASE ~renombraMueve(h)
    <3>1. UNCHANGED <<carpetas, disco>>
      BY <1>7, <2>2 DEF RenombraArchivo, renombraHay, renombraGet, renombraIndice,
                        renombraModify, renombraLote, renombraEscribe, Get, EscribeDB, Lee
    <3> QED
      BY <1>q, <3>1
  <2> QED
    BY <2>1, <2>2
<1>8. CASE busca(h)
  BY <1>8, <1>l DEF busca, Get
<1> QED
  BY <1>1, <1>2, <1>3, <1>4, <1>5, <1>6, <1>7, <1>8 DEF Paso

LEMMA InitSitio == ASSUME Init PROVE EnSuSitio
<1>0. PICK K \in Iniciales : \E C \in SUBSET {k \in K : Viva(k)} : Guardados(K, C)
  BY DEF Init
<1>1. PICK C \in SUBSET {k \in K : Viva(k)} : Guardados(K, C)
  BY <1>0
<1>2. ASSUME NEW k \in Clave, HayEnDisco(k) PROVE EnSuCarpeta(carpetas, k)
  <2>1. k \in K
    BY <1>1, <1>2 DEF Guardados, HayEnDisco
  <2>2. k.dueno \in Unidades /\ k.dueno \in Usuario /\ k.ruta \in Ruta
    BY <2>1, UnidadesAssumption DEF Clave
  <2>3. carpetas[k.dueno] = Carpeta
    BY <2>2 DEF Init
  <2>4. CarpetaDe(k.ruta) \in Carpeta
    BY <2>2, CarpetaEnSi DEF Carpeta
  <2> QED
    BY <2>3, <2>4 DEF EnSuCarpeta
<1> QED
  BY <1>2 DEF EnSuSitio

LEMMA NextSitio == ASSUME Inv, Aislados, EnSuSitio, [Next]_vars PROVE EnSuSitio'
<1>1. ASSUME NEW h \in Hilo, Paso(h) PROVE EnSuSitio'
  BY <1>1, PasoSitio
<1>2. ASSUME UNCHANGED <<carpetas, disco>> PROVE EnSuSitio'
  BY <1>2, SitioSigue
<1>3. ASSUME NEW h \in Hilo, Pide(h) PROVE UNCHANGED <<carpetas, disco>>
  <2>1. \A q : Toma(h, q) => UNCHANGED <<carpetas, disco>>
    BY DEF Toma
  <2>2. PICK u \in Usuario :
          \/ \E k \in {c \in Clave : c.dueno \in Unidades} :
               \/ \E v \in Version, force \in BOOLEAN : PideSubir(h, u, k, v, force)
               \/ PideBorrar(h, u, k)
               \/ PidePurgar(h, u, k)
               \/ PideRestaurar(h, u, k)
               \/ \E c \in Clave, lista \in SUBSET Usuario : PideActualizar(h, u, k, c, lista)
          \/ \E dir \in Carpeta : PideBorrarCarpeta(h, u, dir)
          \/ PideBuscar(h, u)
    BY <1>3 DEF Pide
  <2>3. \A k, v, force : PideSubir(h, u, k, v, force) => UNCHANGED <<carpetas, disco>>
    BY <2>1 DEF PideSubir
  <2>4. \A k : PideBorrar(h, u, k) \/ PidePurgar(h, u, k) \/ PideRestaurar(h, u, k)
               => UNCHANGED <<carpetas, disco>>
    BY <2>1 DEF PideBorrar, PidePurgar, PideRestaurar
  <2>5. \A k, c, lista : PideActualizar(h, u, k, c, lista) => UNCHANGED <<carpetas, disco>>
    BY <2>1 DEF PideActualizar
  <2>6. \A dir : PideBorrarCarpeta(h, u, dir) => UNCHANGED <<carpetas, disco>>
    BY <2>1 DEF PideBorrarCarpeta
  <2>7. PideBuscar(h, u) => UNCHANGED <<carpetas, disco>>
    BY <2>1 DEF PideBuscar
  <2> QED
    BY <2>2, <2>3, <2>4, <2>5, <2>6, <2>7
<1>4. ASSUME Cae \/ UNCHANGED vars PROVE UNCHANGED <<carpetas, disco>>
  BY <1>4 DEF Cae, vars
<1> QED
  BY <1>1, <1>2, <1>3, <1>4 DEF Next, Lanza, Caida

\* What the stores and the requests keep, however they interleave.
Firme == Inv /\ Aislados /\ Duenos /\ EnSuSitio

LEMMA FirmeSiempre == Spec => []Firme
<1>1. Init => Firme
  BY InitInv, InitAislado, InitDuenos, InitSitio DEF Firme
<1>2. Firme /\ [Next]_vars => Firme'
  BY NextInv, NextAislado, NextDuenos, NextSitio DEF Firme
<1> QED
  BY <1>1, <1>2, PTL DEF Spec

\* Whatever the requests do to one another, the metadata of a file name the owner of
\* its drive, so mandarArchivoATrash never meets another one.
THEOREM PropietarioEsDuenoSiempre == Spec => []PropietarioEsDueno
<1>1. Firme => PropietarioEsDueno
  BY DEF Firme, Duenos, DeSuDueno, PropietarioEsDueno, existeMetadato
<1> QED
  BY <1>1, FirmeSiempre, PTL
=============================================================================
