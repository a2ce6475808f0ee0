--------------------------- MODULE ArchivosHilos ---------------------------
(***************************************************************************)
(* The requests of Archivos as the server's threads run them: nothing is   *)
(* locked, so between any two accesses of a request to the metadata        *)
(* database or to the disk the other threads go on, and the process may    *)
(* die.  A step of a thread reads or writes one store once; reads in a row *)
(* that no write of another thread can tell apart are one step.            *)
(*                                                                         *)
(* A get of a key that is gone throws KeyNotFound, which no thread         *)
(* catches: it ends the process as a crash does, and the server starts     *)
(* again on what the stores hold.                                          *)
(***************************************************************************)
EXTENDS Claves

CONSTANTS Hilo,           \* the threads
          Unidades,       \* bound: the users whose drives hold files
          Iniciales,      \* bound: the sets of files there may be at the start
          VersionInicial, \* bound: versions of each of them
          MaxPedidos,     \* bound: requests
          MaxCaidas       \* bound: crashes, the exceptions apart

ASSUME UnidadesAssumption ==
  /\ Unidades \subseteq Usuario /\ VersionInicial \in Version
  /\ MaxPedidos \in Nat /\ MaxCaidas \in Nat
  /\ Iniciales \subseteq SUBSET {k \in Clave : k.dueno \in Unidades /\ k.sec <= 0}

VARIABLES carpetas, disco, meta, permisos,  \* as in Archivos; disco[k][v] is a content
          hilo,         \* what each thread has read and what it does next
          pedidos,      \* requests taken so far
          caidas,       \* crashes so far
          acusados,     \* history: uploads answered 201, their files undisturbed
          sucios,       \* history: files two requests worked on at once, or a
                        \*   request that a crash cut short worked on
          compartidos,  \* history: who a request to share was for, and its path
          antes,        \* history: the stores when no request was running
          solo          \* history: the requests since then never overlapped

almacenes == <<carpetas, disco, meta, permisos>>
vars == <<carpetas, disco, meta, permisos, hilo, pedidos, caidas, acusados, sucios,
          compartidos, antes, solo>>

\* A content is known by where and by which request it was uploaded.
Contenido == Clave \X Version \X (0..MaxPedidos)

Metadato == [propietario : Usuario, ultimaVersion : (-1)..MaxVersion,
             usuarios : SUBSET Usuario]

\* NADA marks an absent file or key: no record or content is it.
ASSUME NadaHilosAssumption == NADA \notin Metadato \cup Contenido

\* A file, live or deleted, is a path of a drive.
Archivo(k) == <<k.dueno, k.ruta>>

OCIOSO == [paso |-> "ocioso", toca |-> {}]

Ahora == [carpetas |-> carpetas, disco |-> disco, meta |-> meta, permisos |-> permisos]

\* What the files of K leave in the stores, those of C shared with everybody.
Guardados(K, C) ==
  /\ disco = [k \in Clave |-> [v \in Version |->
                IF k \in K /\ v <= VersionInicial THEN <<k, v, 0>> ELSE NADA]]
  /\ meta = [k \in Clave |-> IF k \notin K THEN NADA ELSE
               [propietario |-> k.dueno, ultimaVersion |-> VersionInicial,
                usuarios |-> IF k \in C THEN Usuario ELSE {k.dueno}]]
  /\ permisos = [u \in Usuario |-> {k \in C : u # k.dueno}]
  /\ compartidos = {x \in Usuario \X C : x[1] # x[2].dueno}
  /\ acusados = {<<k, v, 0>> : k \in K, v \in 1..VersionInicial}

Init ==
  /\ \E K \in Iniciales : \E C \in SUBSET {k \in K : Viva(k)} : Guardados(K, C)
  /\ carpetas = [u \in Usuario |-> IF u \in Unidades THEN Carpeta ELSE {<<>>}]
  /\ hilo = [h \in Hilo |-> OCIOSO]
  /\ pedidos = 0 /\ caidas = 0
  /\ sucios = {}
  /\ antes = Ahora
  /\ solo = TRUE

-----------------------------------------------------------------------------
(* What the steps read *)

verificarPermisos(u, k) == u = k.dueno \/ k \in permisos[u]

existeMetadato(k) == meta[k] # NADA

existeArchivo(k) == disco[k][1] # NADA

Existe(k) == existeArchivo(k) /\ existeMetadato(k)

HayEnDisco(k) == \E v \in Version : disco[k][v] # NADA

\* The folder of the path is there: a trash always is.
HayCarpeta(k) == Viva(k) => CarpetaDe(k.ruta) \in carpetas[k.dueno]

EnCarpeta(u, dir) == {k \in Clave : Viva(k) /\ k.dueno = u /\ CarpetaDe(k.ruta) = dir}

\* The same, and in the folders below it.
Bajo(u, dir) == {k \in Clave : Viva(k) /\ k.dueno = u /\ IsPrefix(dir, CarpetaDe(k.ruta))}

HayCarpetaBajo(u, dir) == \E e \in carpetas[u] : IsStrictPrefix(dir, e)

\* The contents now on disk under the paths of F.
ContenidoDe(F) == {disco[k][v] : k \in {c \in Clave : Archivo(c) \in F}, v \in Version}

ConCarpeta(dueno, dir) == [carpetas EXCEPT ![dueno] = @ \cup Prefixes(dir)]

MetadatoNuevo(k) == [propietario |-> k.dueno, ultimaVersion |-> 1, usuarios |-> {k.dueno}]

EnCurso == {h \in Hilo : hilo[h] # OCIOSO}

\* Every version has been renamed.
Movidas(r) == r.n > r.leido.ultimaVersion

-----------------------------------------------------------------------------
(* How a thread goes on *)

\* Thread h goes on as r; antes is taken again when the last request ends.
Sigue(h, r) ==
  /\ hilo' = [hilo EXCEPT ![h] = r]
  /\ antes' = IF hilo' = [g \in Hilo |-> OCIOSO] THEN Ahora' ELSE antes

En(p, r) == [r EXCEPT !.paso = p]

\* A step that only reads.
Lee(h, r) ==
  /\ UNCHANGED <<carpetas, disco, meta, permisos, acusados, sucios, compartidos>>
  /\ Sigue(h, r)

\* A step that writes the metadata database.
EscribeDB(h, r) ==
  /\ UNCHANGED <<carpetas, disco, acusados, sucios, compartidos>>
  /\ Sigue(h, r)

\* A step that writes the disk.
EscribeDisco(h, r) ==
  /\ UNCHANGED <<carpetas, meta, permisos, acusados, sucios, compartidos>>
  /\ Sigue(h, r)

\* The files of F are disturbed, and no promise is kept for them.
Ensucia(F) == /\ sucios' = sucios \cup F
              /\ acusados' = acusados \ ContenidoDe(F)

\* The process dies: the stores stay, what the threads had read is lost.  The files
\* they worked on may be left broken, but none of their contents is given up.
Cae ==
  /\ UNCHANGED <<carpetas, disco, meta, permisos, acusados, compartidos>>
  /\ hilo' = [h \in Hilo |-> OCIOSO]
  /\ sucios' = sucios \cup UNION {hilo[h].toca : h \in Hilo}
  /\ antes' = Ahora /\ solo' = FALSE

Caida ==
  /\ caidas < MaxCaidas /\ EnCurso # {}
  /\ Cae
  /\ caidas' = caidas + 1
  /\ UNCHANGED pedidos

\* get: thread h goes on as r if the metadata of k are there.
Get(h, k, r) == existeMetadato(k) /\ Lee(h, r)

\* A request on the files k and c, which its checks let reach the step p.
Tarea(p, u, k, c) ==
  [paso |-> p, user |-> u, clave |-> k, destino |-> c, n |-> 1,
   fuerza |-> FALSE, primera |-> FALSE, lista |-> {}, leido |-> NADA, nuevo |-> NADA,
   quien |-> u,
   pend |-> {}, indices |-> [x \in Usuario |-> {}], claves |-> {}, borra |-> FALSE,
   id |-> pedidos + 1, toca |-> {Archivo(k), Archivo(c)}]

\* A thread takes a request.  The files it works on are disturbed when another
\* request is at work on one of them, or when one of them already was.
Toma(h, r) ==
  LET otros == UNION {hilo[g].toca : g \in {g \in Hilo : hilo[g].toca \cap r.toca # {}}}
  IN  /\ UNCHANGED <<carpetas, disco, meta, permisos, compartidos, caidas>>
      /\ Sigue(h, r)
      /\ pedidos' = pedidos + 1
      /\ solo' = (EnCurso = {})
      /\ IF otros = {} /\ r.toca \cap sucios = {}
         THEN UNCHANGED <<acusados, sucios>>
         ELSE Ensucia(r.toca \cup otros)

-----------------------------------------------------------------------------
(* subirArchivo *)

PideSubir(h, u, k, version, force) ==
  /\ Viva(k) /\ verificarPermisos(u, k)
  /\ LET r == Tarea("carpeta", u, k, k)
     IN  Toma(h, IF Existe(k)
                 THEN [En("version", r) EXCEPT !.n = IF force THEN 1 ELSE version,
                                               !.fuerza = force]
                 ELSE [r EXCEPT !.primera = TRUE])

\* getLatestVersion + 1: -1 when the metadata are gone.
SiguienteVersion(k) == IF existeMetadato(k) THEN meta[k].ultimaVersion + 1 ELSE -1

\* The check of the version; a forced upload takes the next one.  A full drive
\* (MaxVersion) refuses the upload.
\* Mutant: a version that was uploaded already is taken again.
validaVersionVieja(h) ==
  LET r == hilo[h]
      siguiente == SiguienteVersion(r.clave)
  IN  /\ r.paso = "version"
      /\ r.fuerza \/ existeMetadato(r.clave)
      /\ Lee(h, IF siguiente > MaxVersion \/ (~r.fuerza /\ r.n > siguiente)
                THEN OCIOSO
                ELSE [En("carpeta", r) EXCEPT !.n = IF r.fuerza THEN siguiente ELSE @])

\* Mutant: a full drive takes the upload.
validaVersionSinCuota(h) ==
  LET r == hilo[h]
      siguiente == SiguienteVersion(r.clave)
  IN  /\ r.paso = "version"
      /\ r.fuerza \/ existeMetadato(r.clave)
      /\ Lee(h, IF ~r.fuerza /\ r.n # siguiente
                THEN OCIOSO
                ELSE [En("carpeta", r) EXCEPT !.n = siguiente])

validaVersion(h) ==
  LET r == hilo[h]
      siguiente == SiguienteVersion(r.clave)
  IN  /\ r.paso = "version"
      /\ r.fuerza \/ existeMetadato(r.clave)
      /\ Lee(h, IF siguiente > MaxVersion \/ (~r.fuerza /\ r.n # siguiente)
                THEN OCIOSO
                ELSE [En("carpeta", r) EXCEPT !.n = siguiente])

\* guardarArchivo: the folder first.
creaCarpeta(h) ==
  LET r == hilo[h]
      k == r.clave
      puede == verificarPermisos(r.user, k) /\ (r.user = k.dueno \/ HayCarpeta(k))
  IN  /\ r.paso = "carpeta"
      /\ carpetas' = IF puede THEN ConCarpeta(k.dueno, CarpetaDe(k.ruta)) ELSE carpetas
      /\ UNCHANGED <<disco, meta, permisos, acusados, sucios, compartidos>>
      /\ Sigue(h, IF puede THEN En("hay", r) ELSE OCIOSO)

hayMetadato(h) ==
  /\ hilo[h].paso = "hay"
  /\ Lee(h, En(IF existeMetadato(hilo[h].clave) THEN "sube_get" ELSE "escribe", hilo[h]))

\* actualizarMetadatosPorActualizacionArchivo.
subeGet(h) ==
  LET r == hilo[h]
  IN  /\ r.paso = "sube_get"
      /\ Get(h, r.clave, [En("sube_put", r) EXCEPT
                            !.leido = [meta[r.clave] EXCEPT !.ultimaVersion = r.n]])

subePut(h) ==
  LET r == hilo[h]
  IN  /\ r.paso = "sube_put"
      /\ meta' = [meta EXCEPT ![r.clave] = r.leido]
      /\ UNCHANGED permisos
      /\ EscribeDB(h, En("escribe", r))

\* The answer 201 promises the content, unless another request disturbed the file.
Acusa(r) ==
  acusados' = IF r.toca \cap sucios = {} THEN acusados \cup {<<r.clave, r.n, r.id>>}
                                         ELSE acusados

\* guardarArchivoEnFileSystem: nothing is written, and nobody is told, when the
\* folder is gone.  (Version -1 goes to a name that nothing reads.)
escribe(h) ==
  LET r == hilo[h]
  IN  /\ r.paso = "escribe"
      /\ disco' = IF HayCarpeta(r.clave) /\ r.n \in Version
                  THEN [disco EXCEPT ![r.clave][r.n] = <<r.clave, r.n, r.id>>]
                  ELSE disco
      /\ UNCHANGED <<carpetas, meta, permisos, sucios, compartidos>>
      /\ IF r.primera THEN UNCHANGED acusados ELSE Acusa(r)
      /\ Sigue(h, IF r.primera THEN En("carga_get", r) ELSE OCIOSO)

\* cargarMetadato: a put refuses a key that is there.
cargaGet(h) ==
  LET r == hilo[h]
  IN  /\ r.paso = "carga_get"
      /\ Lee(h, IF existeMetadato(r.clave) THEN OCIOSO ELSE En("carga_put", r))

cargaPut(h) ==
  LET r == hilo[h]
  IN  /\ r.paso = "carga_put"
      /\ meta' = [meta EXCEPT ![r.clave] = MetadatoNuevo(r.clave)]
      /\ UNCHANGED <<carpetas, disco, permisos, sucios, compartidos>>
      /\ Acusa(r)
      /\ Sigue(h, OCIOSO)

Sube(h) ==
  \/ validaVersion(h) \/ creaCarpeta(h) \/ hayMetadato(h) \/ subeGet(h) \/ subePut(h)
  \/ escribe(h) \/ cargaGet(h) \/ cargaPut(h)

-----------------------------------------------------------------------------
(* eliminarArchivo of a live file; the walk of eliminarCarpeta goes through *)
(* it for each file, and goes on (borra) whatever came of it.              *)

Vuelve(r) == IF r.borra THEN En("recorre", r) ELSE OCIOSO

PideBorrar(h, u, k) ==
  /\ Viva(k) /\ verificarPermisos(u, k) /\ Existe(k)
  /\ Toma(h, Tarea("borra_get", u, k, k))

\* The get comes after a check of its own, that the metadata are still there.
borraGet(h) ==
  LET r == hilo[h]
  IN  /\ r.paso = "borra_get"
      /\ \/ Get(h, r.clave, [En("secuencia", r) EXCEPT
                 !.leido = meta[r.clave],
                 !.pend = meta[r.clave].usuarios \ {meta[r.clave].propietario}])
         \/ ~existeMetadato(r.clave) /\ Lee(h, Vuelve(r))

secuencia(h) ==
  LET r == hilo[h]
      usados == {m \in Secuencia : HayEnDisco(EnPapelera(r.clave, m))}
  IN  /\ r.paso = "secuencia"
      /\ \E n \in Secuencia :
           /\ \A m \in usados : m < n
           /\ n = 0 \/ n - 1 \in usados
           /\ Lee(h, [En("invitado", r) EXCEPT !.destino = EnPapelera(r.clave, n)])

\* armarBatchEliminarArchivo: the index of each guest is read on its own.
leeInvitado(h) ==
  LET r == hilo[h]
  IN  /\ r.paso = "invitado"
      /\ \E g \in r.pend :
           Lee(h, [r EXCEPT !.pend = @ \ {g}, !.indices[g] = permisos[g] \ {r.clave}])

\* The batch that moves the metadata is refused as a whole if a key to erase is
\* gone or one to put is there.
loteBorra(h) ==
  LET r == hilo[h]
  IN  /\ r.paso = "invitado" /\ r.pend = {}
      /\ Lee(h, IF existeMetadato(r.clave) /\ ~existeMetadato(r.destino)
                THEN En("lote_escribe", r) ELSE Vuelve(r))

escribeLoteBorra(h) ==
  LET r == hilo[h]
      m == r.leido
  IN  /\ r.paso = "lote_escribe"
      /\ meta' = [meta EXCEPT ![r.clave] = NADA,
                              ![r.destino] = [m EXCEPT !.usuarios = {m.propietario}]]
      /\ permisos' = [g \in Usuario |-> IF g \in m.usuarios \ {m.propietario}
                                        THEN r.indices[g] ELSE permisos[g]]
      /\ EscribeDB(h, En("mueve", r))

\* rename(2) of version n: what was under the new name is overwritten.
Renombra(k, c, n) == [disco EXCEPT ![c][n] = disco[k][n], ![k][n] = NADA]

\* Mutant: the loop forgets the last version.
mueveMenosUna(h) ==
  LET r == hilo[h]
      k == r.clave
      falla == r.n > r.leido.ultimaVersion \/ disco[k][r.n] = NADA
  IN  /\ r.paso = "mueve"
      /\ disco' = IF falla \/ r.n = r.leido.ultimaVersion THEN disco
                  ELSE Renombra(k, r.destino, r.n)
      /\ EscribeDisco(h, IF falla \/ r.n >= r.leido.ultimaVersion
                         THEN Vuelve(r) ELSE [r EXCEPT !.n = @ + 1])

mueve(h) ==
  LET r == hilo[h]
      k == r.clave
      falla == r.n > r.leido.ultimaVersion \/ disco[k][r.n] = NADA
  IN  /\ r.paso = "mueve"
      /\ disco' = IF falla THEN disco ELSE Renombra(k, r.destino, r.n)
      /\ EscribeDisco(h, IF falla \/ r.n >= r.leido.ultimaVersion
                         THEN Vuelve(r) ELSE [r EXCEPT !.n = @ + 1])

Borra(h) ==
  \/ borraGet(h) \/ secuencia(h) \/ leeInvitado(h) \/ loteBorra(h)
  \/ escribeLoteBorra(h) \/ mueve(h)

-----------------------------------------------------------------------------
(* eliminarCarpeta, of a folder with no folder in it: the names are read   *)
(* first, each file is deleted, and what is then empty is removed.         *)

PideBorrarCarpeta(h, u, dir) ==
  /\ dir # <<>> /\ dir \in carpetas[u]
  /\ ~HayCarpetaBajo(u, dir)
  /\ \E k \in EnCarpeta(u, dir) :
       Toma(h, [Tarea("recorre", u, k, k) EXCEPT
                  !.borra = TRUE,
                  !.claves = {c \in EnCarpeta(u, dir) : HayEnDisco(c)},
                  !.toca = {Archivo(c) : c \in Bajo(u, dir)}])

recorre(h) ==
  LET r == hilo[h]
  IN  /\ r.paso = "recorre"
      /\ \E c \in r.claves :
           LET q == [r EXCEPT !.claves = @ \ {c}, !.clave = c, !.n = 1]
           IN  Lee(h, IF Existe(c) THEN En("borra_get", q) ELSE q)

carpetaVacia(h) ==
  LET r == hilo[h]
      dir == CarpetaDe(r.clave.ruta)
      vacia == /\ ~HayCarpetaBajo(r.user, dir)
               /\ \A k \in EnCarpeta(r.user, dir) : ~HayEnDisco(k)
  IN  /\ r.paso = "recorre" /\ r.claves = {}
      /\ Lee(h, IF vacia THEN En("rm", r) ELSE OCIOSO)

\* rm -r: with whatever is in the folder, or below it, by now.
deleteCarpeta(h) ==
  LET r == hilo[h]
      dir == CarpetaDe(r.clave.ruta)
  IN  /\ r.paso = "rm"
      /\ carpetas' = [carpetas EXCEPT ![r.user] = {e \in @ : ~IsPrefix(dir, e)}]
      /\ disco' = [k \in Clave |-> IF k \in Bajo(r.user, dir)
                                   THEN [v \in Version |-> NADA] ELSE disco[k]]
      /\ UNCHANGED <<meta, permisos, acusados, sucios, compartidos>>
      /\ Sigue(h, OCIOSO)

BorraCarpeta(h) == recorre(h) \/ carpetaVacia(h) \/ deleteCarpeta(h)

-----------------------------------------------------------------------------
(* eliminarArchivo of a file in the trash: the metadata first.             *)

PidePurgar(h, u, k) ==
  /\ ~Viva(k) /\ verificarPermisos(u, k) /\ Existe(k)
  /\ Toma(h, Tarea("purga_get", u, k, k))

purgaGet(h) ==
  LET r == hilo[h]
  IN  r.paso = "purga_get" /\ Get(h, r.clave, En("purga_erase", r))

purgaErase(h) ==
  LET r == hilo[h]
  IN  /\ r.paso = "purga_erase"
      /\ meta' = [meta EXCEPT ![r.clave] = NADA]
      /\ UNCHANGED permisos
      /\ EscribeDB(h, En("purga_rm", r))

purgaRm(h) ==
  LET r == hilo[h]
  IN  /\ r.paso = "purga_rm"
      /\ disco' = [disco EXCEPT ![r.clave] = [v \in Version |-> NADA]]
      /\ acusados' = acusados \ {disco[r.clave][v] : v \in Version}
      /\ UNCHANGED <<carpetas, meta, permisos, sucios, compartidos>>
      /\ Sigue(h, OCIOSO)

Purga(h) == purgaGet(h) \/ purgaErase(h) \/ purgaRm(h)

-----------------------------------------------------------------------------
(* restaurar *)

PideRestaurar(h, u, k) ==
  /\ ~Viva(k) /\ verificarPermisos(u, k)
  /\ Toma(h, Tarea("rest_carpeta", u, k, ClaveReal(u, k)))

restauraCarpeta(h) ==
  LET r == hilo[h]
  IN  /\ r.paso = "rest_carpeta"
      /\ carpetas' = ConCarpeta(r.user, CarpetaDe(r.clave.ruta))
      /\ UNCHANGED <<disco, meta, permisos, acusados, sucios, compartidos>>
      /\ Sigue(h, En("puedo", r))

\* Mutant: whether the file is in the trash is not looked at.
puedoRestaurarASinMirar(h) ==
  LET r == hilo[h]
  IN  /\ r.paso = "puedo"
      /\ Lee(h, IF ~existeMetadato(r.destino) /\ ~existeArchivo(r.destino)
                THEN En("rest_get", r) ELSE OCIOSO)

puedoRestaurarA(h) ==
  LET r == hilo[h]
  IN  /\ r.paso = "puedo"
      /\ Lee(h, IF ~existeMetadato(r.destino) /\ ~existeArchivo(r.destino)
                   /\ Existe(r.clave)
                THEN En("rest_get", r) ELSE OCIOSO)

restauraGet(h) ==
  LET r == hilo[h]
  IN  /\ r.paso = "rest_get"
      /\ Get(h, r.clave, [En("rest_mueve", r) EXCEPT !.leido = meta[r.clave]])

\* restaurarArchivo: a rename that fails ends it, and undoes nothing.
restauraMueve(h) ==
  LET r == hilo[h]
      k == r.clave
      falla == disco[k][r.n] = NADA \/ ~HayCarpeta(r.destino)
  IN  /\ r.paso = "rest_mueve" /\ ~Movidas(r)
      /\ disco' = IF falla THEN disco ELSE Renombra(k, r.destino, r.n)
      /\ EscribeDisco(h, IF falla THEN OCIOSO ELSE [r EXCEPT !.n = @ + 1])

restauraLee(h) ==
  LET r == hilo[h]
  IN  /\ r.paso = "rest_mueve" /\ Movidas(r)
      /\ Get(h, r.clave, [En("rest_lote", r) EXCEPT !.nuevo = meta[r.clave]])

loteRestaura(h) ==
  LET r == hilo[h]
  IN  /\ r.paso = "rest_lote"
      /\ Lee(h, IF existeMetadato(r.clave) /\ ~existeMetadato(r.destino)
                THEN En("rest_escribe", r) ELSE [En("deshace", r) EXCEPT !.n = 1])

restauraEscribe(h) ==
  LET r == hilo[h]
  IN  /\ r.paso = "rest_escribe"
      /\ meta' = [meta EXCEPT ![r.clave] = NADA, ![r.destino] = r.nuevo]
      /\ UNCHANGED permisos
      /\ EscribeDB(h, OCIOSO)

\* The versions that the first get counted go back one by one, those that can.
deshacerRestaurado(h) ==
  LET r == hilo[h]
      falla == r.n > r.leido.ultimaVersion \/ disco[r.destino][r.n] = NADA
  IN  /\ r.paso = "deshace"
      /\ disco' = IF falla THEN disco ELSE Renombra(r.destino, r.clave, r.n)
      /\ EscribeDisco(h, IF r.n >= r.leido.ultimaVersion
                         THEN OCIOSO ELSE [r EXCEPT !.n = @ + 1])

Restaura(h) ==
  \/ restauraCarpeta(h) \/ puedoRestaurarA(h) \/ restauraGet(h) \/ restauraMueve(h)
  \/ restauraLee(h) \/ loteRestaura(h) \/ restauraEscribe(h) \/ deshacerRestaurado(h)

-----------------------------------------------------------------------------
(* actualizarMetadatos: the list, one user at a time, then the name.  An   *)
(* empty list keeps the old one.                                           *)

PideActualizar(h, u, k, c, lista) ==
  /\ Viva(k) /\ verificarPermisos(u, k) /\ existeMetadato(k)
  /\ MismaCarpeta(k, c)
  /\ lista # {} => k.dueno \in lista
  /\ Toma(h, [Tarea("act_get", u, k, c) EXCEPT !.lista = lista])

actualizaGet(h) ==
  LET r == hilo[h]
      viejos == meta[r.clave].usuarios
      lista == IF r.lista = {} THEN viejos ELSE r.lista
  IN  /\ r.paso = "act_get"
      /\ existeMetadato(r.clave)
      /\ compartidos' = compartidos \cup {<<g, r.destino>> : g \in lista}
                                    \cup {<<g, r.clave>> : g \in lista}
      /\ UNCHANGED <<carpetas, disco, meta, permisos, acusados, sucios>>
      /\ Sigue(h, [En("permiso", r) EXCEPT
                     !.leido = meta[r.clave], !.lista = lista,
                     !.pend = (lista \ viejos) \cup (viejos \ lista)])

\* The new users first, then those who are left out; each is skipped if the
\* requester reaches the file no more.
siguientePermiso(h) ==
  LET r == hilo[h]
      nuevos == r.pend \cap r.lista
  IN  /\ r.paso = "permiso"
      /\ \E g \in IF nuevos # {} THEN nuevos ELSE r.pend :
           LET q == [r EXCEPT !.pend = @ \ {g}, !.quien = g]
           IN  Lee(h, IF verificarPermisos(r.user, r.clave) /\ existeMetadato(r.clave)
                      THEN En("perm_get", q) ELSE q)

\* agregarPermiso, eliminarPermiso: the metadata, then the index; a user left out
\* is written back into the metadata.
permisoGet(h) ==
  LET r == hilo[h]
      k == r.clave
  IN  /\ r.paso = "perm_get"
      /\ Get(h, k, [En("perm_indice", r) EXCEPT
              !.nuevo = [meta[k] EXCEPT !.usuarios =
                           IF r.quien \in r.lista THEN @ \cup {r.quien} ELSE @]])

permisoIndice(h) ==
  LET r == hilo[h]
      g == r.quien
  IN  /\ r.paso = "perm_indice"
      /\ Lee(h, [En("perm_lote", r) EXCEPT
              !.indices[g] = IF g \in r.lista THEN permisos[g] \cup {r.clave}
                                              ELSE permisos[g] \ {r.clave}])

permisoLote(h) ==
  LET r == hilo[h]
  IN  /\ r.paso = "perm_lote"
      /\ Lee(h, En(IF existeMetadato(r.clave) THEN "perm_escribe" ELSE "permiso", r))

permisoEscribe(h) ==
  LET r == hilo[h]
  IN  /\ r.paso = "perm_escribe"
      /\ meta' = [meta EXCEPT ![r.clave] = r.nuevo]
      /\ permisos' = [permisos EXCEPT ![r.quien] = r.indices[r.quien]]
      /\ EscribeDB(h, En("permiso", r))

\* Mutant: the version is the one the client sent.
EnviadoSinVersion(r) == [propietario   |-> r.clave.dueno,
                         ultimaVersion |-> 1,
                         usuarios      |-> r.lista]

\* Mutant: the owner is the one who asks.
EnviadoPorOtro(r) == [propietario   |-> r.user,
                      ultimaVersion |-> r.leido.ultimaVersion,
                      usuarios      |-> r.lista]

\* What the client sends, with the version that the first get found.
Enviado(r) == [propietario   |-> r.clave.dueno,
               ultimaVersion |-> r.leido.ultimaVersion,
               usuarios      |-> r.lista]

PorModificar(r) == r.paso = "permiso" /\ r.pend = {} /\ r.destino = r.clave

actualizaModify(h) ==
  LET r == hilo[h]
  IN  PorModificar(r) /\ Get(h, r.clave, En("act_put", r))

actualizaPut(h) ==
  LET r == hilo[h]
  IN  /\ r.paso = "act_put"
      /\ meta' = [meta EXCEPT ![r.clave] = Enviado(r)]
      /\ UNCHANGED permisos
      /\ EscribeDB(h, OCIOSO)

Actualiza(h) ==
  \/ actualizaGet(h) \/ siguientePermiso(h) \/ permisoGet(h) \/ permisoIndice(h)
  \/ permisoLote(h) \/ permisoEscribe(h) \/ actualizaModify(h) \/ actualizaPut(h)

-----------------------------------------------------------------------------
(* renombrarArchivo and actualizarPermisosPorRenombrado *)

renombraHay(h) ==
  LET r == hilo[h]
  IN  /\ r.paso = "permiso" /\ r.pend = {} /\ r.destino # r.clave
      /\ Lee(h, IF existeMetadato(r.destino) THEN OCIOSO ELSE En("ren_mueve", r))

\* The look at the disk asks for <new>!i!1, a name no upload writes: whatever version
\* is under the new name is overwritten.
renombraMueve(h) ==
  LET r == hilo[h]
      k == r.clave
      falla == disco[k][r.n] = NADA \/ ~HayCarpeta(r.destino)
  IN  /\ r.paso = "ren_mueve" /\ ~Movidas(r)
      /\ disco' = IF falla THEN disco ELSE Renombra(k, r.destino, r.n)
      /\ EscribeDisco(h, IF falla THEN OCIOSO ELSE [r EXCEPT !.n = @ + 1])

\* Mutant: the new path goes into every index.
renombraGetATodos(h) ==
  LET r == hilo[h]
  IN  /\ r.paso = "ren_mueve" /\ Movidas(r)
      /\ Get(h, r.clave, [En("ren_indice", r) EXCEPT !.pend = Usuario \ {r.clave.dueno}])

renombraGet(h) ==
  LET r == hilo[h]
  IN  /\ r.paso = "ren_mueve" /\ Movidas(r)
      /\ Get(h, r.clave, [En("ren_indice", r) EXCEPT !.pend = r.lista \ {r.clave.dueno}])

\* Each guest's index is read and written on its own, outside the batch.
renombraIndice(h) ==
  LET r == hilo[h]
  IN  /\ r.paso = "ren_indice"
      /\ \E g \in r.pend :
           Lee(h, [En("ren_modify", r) EXCEPT
                     !.pend = @ \ {g}, !.quien = g,
                     !.indices[g] = (permisos[g] \ {r.clave}) \cup {r.destino}])

renombraModify(h) ==
  LET r == hilo[h]
  IN  /\ r.paso = "ren_modify"
      /\ permisos' = [permisos EXCEPT ![r.quien] = r.indices[r.quien]]
      /\ UNCHANGED meta
      /\ EscribeDB(h, En("ren_indice", r))

renombraLote(h) ==
  LET r == hilo[h]
  IN  /\ r.paso = "ren_indice" /\ r.pend = {}
      /\ Lee(h, IF existeMetadato(r.clave) /\ ~existeMetadato(r.destino)
                THEN En("ren_escribe", r) ELSE OCIOSO)

renombraEscribe(h) ==
  LET r == hilo[h]
  IN  /\ r.paso = "ren_escribe"
      /\ meta' = [meta EXCEPT ![r.clave] = NADA, ![r.destino] = Enviado(r)]
      /\ UNCHANGED permisos
      /\ EscribeDB(h, OCIOSO)

RenombraArchivo(h) ==
  \/ renombraHay(h) \/ renombraMueve(h) \/ renombraGet(h) \/ renombraIndice(h)
  \/ renombraModify(h) \/ renombraLote(h) \/ renombraEscribe(h)

-----------------------------------------------------------------------------
(* Buscador::buscar: the index, then the metadata of each path in it.      *)

PideBuscar(h, u) ==
  /\ permisos[u] # {}
  /\ \E k \in permisos[u] :
       Toma(h, [Tarea("busca", u, k, k) EXCEPT !.claves = permisos[u], !.toca = {}])

busca(h) ==
  LET r == hilo[h]
  IN  /\ r.paso = "busca"
      /\ \E c \in r.claves :
           Get(h, c, IF r.claves = {c} THEN OCIOSO ELSE [r EXCEPT !.claves = @ \ {c}])

-----------------------------------------------------------------------------
\* The gets of a request that may find the metadata of its own file gone.  (A forced
\* upload, and a deletion, look first whether they are there.)
PorLanzar(r) ==
  /\ \/ r.paso \in {"version", "sube_get", "borra_get", "purga_get", "rest_get",
                    "act_get", "perm_get"}
     \/ r.paso \in {"rest_mueve", "ren_mueve"} /\ Movidas(r)
     \/ PorModificar(r)
  /\ ~existeMetadato(r.clave)

\* KeyNotFound, that nothing catches.
Lanza(h) ==
  LET r == hilo[h]
  IN  /\ hilo[h] # OCIOSO
      /\ PorLanzar(r) \/ (r.paso = "busca" /\ \E c \in r.claves : ~existeMetadato(c))
      /\ Cae
      /\ UNCHANGED <<pedidos, caidas>>

Paso(h) ==
  /\ hilo[h] # OCIOSO
  /\ Sube(h) \/ Borra(h) \/ BorraCarpeta(h) \/ Purga(h) \/ Restaura(h)
     \/ Actualiza(h) \/ RenombraArchivo(h) \/ busca(h)
  /\ UNCHANGED <<pedidos, caidas, solo>>

Pide(h) ==
  /\ hilo[h] = OCIOSO /\ pedidos < MaxPedidos
  /\ \E u \in Usuario :
       \/ \E k \in {c \in Clave : c.dueno \in Unidades} :
            \/ \E v \in Version, force \in BOOLEAN : PideSubir(h, u, k, v, force)
            \/ PideBorrar(h, u, k)
            \/ PidePurgar(h, u, k)
            \/ PideRestaurar(h, u, k)
            \/ \E c \in Clave, lista \in SUBSET Usuario : PideActualizar(h, u, k, c, lista)
       \/ \E dir \in Carpeta : PideBorrarCarpeta(h, u, dir)
       \/ PideBuscar(h, u)

Next ==
  \/ Caida
  \/ \E h \in Hilo : Pide(h) \/ Paso(h) \/ Lanza(h)

Spec == Init /\ [][Next]_vars

-----------------------------------------------------------------------------
(* Properties *)

TypeOK ==
  /\ carpetas \in [Usuario -> SUBSET Carpeta]
  /\ disco \in [Clave -> [Version -> Contenido \cup {NADA}]]
  /\ meta \in [Clave -> Metadato \cup {NADA}]
  /\ permisos \in [Usuario -> SUBSET Clave]
  /\ \A h \in Hilo : hilo[h] # OCIOSO =>
       /\ hilo[h].user \in Usuario /\ {hilo[h].clave, hilo[h].destino} \subseteq Clave
       /\ hilo[h].leido \in Metadato \cup {NADA}
       /\ hilo[h].indices \in [Usuario -> SUBSET Clave]
  /\ pedidos \in 0..MaxPedidos /\ caidas \in 0..MaxCaidas
  /\ sucios \subseteq Usuario \X Ruta
  /\ compartidos \subseteq Usuario \X Clave

\* An upload that was answered 201 stays on disk, under its name, a new one or in the
\* trash, until its file is purged: whatever the other threads do meanwhile to other
\* files, and wherever a crash cuts short a request, on another file or on its own.
\* (The promise ends when two requests overlap on the file, or one works on it after
\* such a crash.)
AcusadoGuardado ==
  \A c \in acusados : \E k \in Clave, v \in Version : disco[k][v] = c

\* The disk and the database agree on every file that no request is at work on, if
\* no two requests ever worked on it at once and no crash cut one short: the
\* requests that run meanwhile on other files, in the same folder, trash or index,
\* do not disturb it.
ConsistenciaAislada ==
  \A k \in Clave :
    Archivo(k) \notin sucios \cup UNION {hilo[h].toca : h \in Hilo} =>
      {v \in Version : disco[k][v] # NADA} =
        IF existeMetadato(k) THEN 1..meta[k].ultimaVersion ELSE {}

\* Two threads that write one user's index lose or bring back each other's changes,
\* whatever files they work on, and nothing here excludes that; but no interleaving and
\* no crash gives a user a path that no request ever shared with him.
SinIntrusos ==
  \A u \in Usuario : \A k \in permisos[u] : <<u, k>> \in compartidos

\* Clients send back the owner they read, and the server's own copying of metadata
\* from key to key, cut short or interleaved as it may be, never puts another one in
\* its place: the exit of mandarArchivoATrash for a foreign owner, "no deberia suceder
\* nunca" (manejadorArchivosYMetadatos.cpp:274), is never taken.
PropietarioEsDueno ==
  \A k \in Clave : existeMetadato(k) => meta[k].propietario = k.dueno

\* "Las validaciones de existencia se hacen antes de llamarlo"
\* (manejadorMetadatos.cpp:222): a request's get of its own file throws only when
\* another request worked on the file at once, or a crash had left it broken.
LanzaSoloCruzado ==
  \A h \in Hilo : hilo[h] # OCIOSO /\ PorLanzar(hilo[h]) => Archivo(hilo[h].clave) \in sucios

\* The stores of antes, as Archivos has them.
A == INSTANCE Archivos WITH
       Descuidos <- {"se_quita", "renombra_y_quita"},
       registrados <- Usuario, papelera <- Usuario, trozos <- {}, caido <- FALSE,
       carpetas <- antes.carpetas, meta <- antes.meta, permisos <- antes.permisos,
       disco <- [k \in Clave |-> {v \in Version : antes.disco[k][v] # NADA}]

\* A request that ran alone did what Archivos says it does in one step, whatever
\* state the earlier interleavings and crashes had left.  (But one: a forced upload
\* that races a deletion may leave -1 as the last version, and Archivos, that runs a
\* request at a time, has no such metadata.)
SoloEsAtomico ==
  [][solo' /\ antes' # antes /\ A!TypeOK => A!Next \/ UNCHANGED A!vars]_vars

\* "Esta excepcion es lanzada cuando se quiere subir (sin forzar) un archivo a partir
\* de una version que no es la ultima" (excepciones.h:47): an upload that is not
\* forced does not write over a version that another upload left.
SubeSobreLaUltima ==
  \A h \in Hilo : hilo[h].paso = "escribe" /\ ~hilo[h].fuerza /\ ~hilo[h].primera
                   => disco[hilo[h].clave][hilo[h].n] = NADA
=============================================================================
