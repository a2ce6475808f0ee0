------------------------------ MODULE Archivos ------------------------------
(***************************************************************************)
(* ManejadorArchivosYMetadatos and the components it drives: the files on  *)
(* disk, the folders, the metadata database with the index of the files    *)
(* shared with each user ("!permisos/<user>"), and every request that      *)
(* changes them.  Each request is one atomic step here, as the code runs   *)
(* it when no other request interleaves.                                   *)
(*                                                                         *)
(* What a request may carry is the client's choice.  Descuidos names the   *)
(* mistakes clients make: without a word in it, requests are formed        *)
(* as the application forms them.                                          *)
(***************************************************************************)
EXTENDS Claves

CONSTANT Descuidos      \* the kinds of careless request the clients send

TodoDescuido == {"borra_papelera",      \* deletes the folder <user>/!trash itself
                 "comparte_papelera",   \* sends a user list for a file in the trash
                 "cambia_propietario",  \* sends another "propietario"
                 "omite_propietario",   \* sends a user list without the owner
                 "lista_desconocido",   \* lists a username nobody registered
                 "se_quita",            \* a guest sends a user list without himself
                 "renombra_y_quita"}    \* renames and revokes in one request

ASSUME DescuidosAssumption == Descuidos \subseteq TodoDescuido

VARIABLES registrados,  \* users whose "!permisos" key and drive exist
          carpetas,     \* carpetas[u]: the folders on disk in u's drive
          papelera,     \* users whose folder !trash is on disk
          disco,        \* disco[k]: the versions of k on disk (files path!i)
          meta,         \* the metadata database, by path
          permisos,     \* permisos[u]: the paths under "!permisos/u"
          trozos,       \* users whose "!permisos" holds pieces of a trash's key
          caido         \* the process has died

vars == <<registrados, carpetas, papelera, disco, meta, permisos, trozos, caido>>

TypeOK ==
  /\ registrados \subseteq Usuario
  /\ carpetas \in [Usuario -> SUBSET Carpeta]
  /\ papelera \subseteq Usuario
  /\ disco \in [Clave -> SUBSET Version]
  /\ meta \in [Clave -> MetadatoArchivo \cup {NADA}]
  /\ permisos \in [Usuario -> SUBSET Clave]
  /\ trozos \subseteq Usuario
  /\ caido \in BOOLEAN

Init ==
  /\ registrados = {}
  /\ carpetas = [u \in Usuario |-> {}]
  /\ papelera = {}
  /\ disco = [k \in Clave |-> {}]
  /\ meta = [k \in Clave |-> NADA]
  /\ permisos = [u \in Usuario |-> {}]
  /\ trozos = {}
  /\ caido = FALSE

-----------------------------------------------------------------------------
(* Validador *)

\* Mutant: nobody's permission is looked up.
verificarPermisosSiempre(username, k) == TRUE

verificarPermisos(username, k) == username = k.dueno \/ k \in permisos[username]

existeMetadato(k) == meta[k] # NADA

existeArchivo(k) == 1 \in disco[k]

\* No uploaded file is in a trash: the folder part of its path, which is what the
\* code looks at, does not hold the reserved character, and the trash's does.
\* Mutant: the character is not looked for.
esPathValidoSiempre(k) == TRUE

esPathValido(k) == Viva(k)

\* A file that eliminar finds: its first version on disk and its metadata.
Existe(k) == existeArchivo(k) /\ existeMetadato(k)

\* crearCarpeta makes the missing folders only in the user's own drive; no
\* folder is ever in the index of shared paths.
puedeCrearCarpeta(username, dueno, dir) ==
  username = dueno \/ dir \in carpetas[dueno]

ConCarpeta(dueno, dir) == [carpetas EXCEPT ![dueno] = @ \cup Prefixes(dir)]

\* obtenerNumeroSecuencia: one more than the last number in the trash, or 0.
\* The numbers are read from the folder, not from the database.
esNumeroSecuencia(k, n) ==
  LET usados == {m \in Secuencia : disco[EnPapelera(k, m)] # {}}
  IN  /\ \A m \in usados : m < n
      /\ n = 0 \/ n - 1 \in usados

\* Mutant: the loop stops before the last version.
RenombradasMenosUna(k, n) == {i \in 1..(n - 1) : \A j \in 1..i : j \in disco[k]}

\* The versions a loop of renames 1, 2, ... moves before the first that fails.
Renombradas(k, n) == {i \in 1..n : \A j \in 1..i : j \in disco[k]}

Mover(k1, k2, vs) == [disco EXCEPT ![k1] = @ \ vs, ![k2] = @ \cup vs]

-----------------------------------------------------------------------------
(* Users and folders *)

\* crearUsuario: the empty "!permisos" entry, the drive and its trash.
crearUsuario(username) ==
  /\ username \notin registrados
  /\ registrados' = registrados \cup {username}
  /\ carpetas' = ConCarpeta(username, <<>>)
  /\ papelera' = papelera \cup {username}
  /\ UNCHANGED <<disco, meta, permisos, trozos, caido>>

crearCarpetaSegura(username, dueno, dir) ==
  /\ puedeCrearCarpeta(username, dueno, dir)
  /\ carpetas' = ConCarpeta(dueno, dir)
  /\ UNCHANGED <<registrados, papelera, disco, meta, permisos, trozos, caido>>

-----------------------------------------------------------------------------
(* Uploads.  A quota that is exceeded, a refused folder or a version that  *)
(* is not the next one leave everything as it was.  esVersionValida also   *)
(* looks for the new version's file, but below the process's directory     *)
(* and not below the file system's, where there is none.                   *)

\* Mutant: any version is taken for the next one.
esVersionValidaSiempre(k, nuevaVersion) == TRUE

esVersionValida(k, nuevaVersion) == nuevaVersion = meta[k].ultimaVersion + 1

\* The version an upload writes: the next one where the file exists, the first
\* where the file or its metadata are missing.
VersionSubida(k, nuevaVersion, force) ==
  CASE ~Existe(k)          -> 1
    [] Existe(k) /\ force  -> meta[k].ultimaVersion + 1
    [] OTHER               -> nuevaVersion

\* Mutant: versions counted from 0.
MetadatoNuevoDesdeCero(k) ==
  [propietario |-> k.dueno, ultimaVersion |-> 0, usuarios |-> {k.dueno}]

MetadatoNuevo(k) ==
  [propietario |-> k.dueno, ultimaVersion |-> 1, usuarios |-> {k.dueno}]

subirArchivo(username, k, nuevaVersion, force) ==
  LET v == VersionSubida(k, nuevaVersion, force)
  IN  /\ esPathValido(k)
      /\ verificarPermisos(username, k)
      /\ Existe(k) => force \/ esVersionValida(k, nuevaVersion)
      /\ v \in Version
      /\ puedeCrearCarpeta(username, k.dueno, CarpetaDe(k.ruta))
      /\ carpetas' = ConCarpeta(k.dueno, CarpetaDe(k.ruta))
      /\ disco' = [disco EXCEPT ![k] = @ \cup {v}]
      /\ meta' = [meta EXCEPT ![k] = IF @ = NADA
                                     THEN MetadatoNuevo(k)
                                     ELSE [@ EXCEPT !.ultimaVersion = v]]
      /\ UNCHANGED <<registrados, papelera, permisos, trozos, caido>>

-----------------------------------------------------------------------------
(* Deletion: a live file goes to the trash of its owner, one in the trash  *)
(* is purged.                                                              *)

\* mandarATrash refuses a key that the trash has already, in the database.
Movibles(K, sec) == {k \in K : ~existeMetadato(EnPapelera(k, sec[k]))}

\* armarBatchEliminarArchivo: each guest in the metadata loses the path.
\* Mutant: the batch leaves the index alone.
PermisosSinDepurar(S) == permisos

PermisosDepurados(S) ==
  [u \in Usuario |-> permisos[u] \
     {k \in S : u \in meta[k].usuarios \ {meta[k].propietario}}]

\* mandarArchivoATrash for each file of S, in any order: the metadata move with
\* only the owner enabled, each guest loses the path, then the versions move.
MandarArchivosATrash(S, sec) ==
  LET vs(k)      == IF k.dueno \in papelera
                    THEN Renombradas(k, meta[k].ultimaVersion) ELSE {}
      Origen(c)  == [c EXCEPT !.sec = VIVA]
      Destino(c) == ~Viva(c) /\ Origen(c) \in S /\ sec[Origen(c)] = c.sec
      Depurado(m) == [m EXCEPT !.usuarios = {m.propietario}]
  IN  /\ meta' = [c \in Clave |-> IF c \in S THEN NADA
                                  ELSE IF Destino(c) THEN Depurado(meta[Origen(c)])
                                  ELSE meta[c]]
      /\ disco' = [c \in Clave |-> IF c \in S THEN disco[c] \ vs(c)
                                   ELSE IF Destino(c) THEN disco[c] \cup vs(Origen(c))
                                   ELSE disco[c]]
      /\ permisos' = PermisosDepurados(S)

eliminarArchivo(username, k) ==
  /\ Viva(k)
  /\ verificarPermisos(username, k)
  /\ Existe(k)
  /\ meta[k].propietario = k.dueno
  /\ \E sec \in [{k} -> Secuencia] :
       /\ esNumeroSecuencia(k, sec[k])
       /\ MandarArchivosATrash(Movibles({k}, sec), sec)
  /\ UNCHANGED <<registrados, carpetas, papelera, trozos, caido>>

eliminarDefinitivamente(username, k) ==
  /\ ~Viva(k)
  /\ verificarPermisos(username, k)
  /\ Existe(k)
  /\ meta' = [meta EXCEPT ![k] = NADA]
  /\ disco' = [disco EXCEPT ![k] = {}]
  /\ UNCHANGED <<registrados, carpetas, papelera, permisos, trozos, caido>>

\* The files that the walk of eliminarCarpeta deletes.
Contenido(username, dir) ==
  {k \in Clave : Viva(k) /\ k.dueno = username /\ Existe(k)
                         /\ IsPrefix(dir, CarpetaDe(k.ruta))}

\* eliminarCarpeta on a folder below the drive's root: every file goes to the
\* trash, and every folder left with no file in it is removed.
eliminarCarpeta(username, dir) ==
  LET K == Contenido(username, dir)
      Ocupada(e) == \E k \in Clave : /\ Viva(k) /\ k.dueno = username
                                     /\ IsPrefix(e, CarpetaDe(k.ruta))
                                     /\ disco'[k] # {}
  IN  /\ dir # <<>>
      /\ dir \in carpetas[username]
      /\ \A k \in K : meta[k].propietario = k.dueno
      /\ \E sec \in [K -> Secuencia] :
           /\ \A k \in K : esNumeroSecuencia(k, sec[k])
           /\ MandarArchivosATrash(Movibles(K, sec), sec)
      /\ carpetas' = [carpetas EXCEPT ![username] =
            {e \in @ : ~IsPrefix(dir, e) \/ Ocupada(e)}]
      /\ UNCHANGED <<registrados, papelera, trozos, caido>>

\* eliminarCarpeta on <user>/!trash: every file in it is purged, and the folder,
\* empty, is removed too.
eliminarPapelera(username) ==
  LET K == {k \in Clave : ~Viva(k) /\ k.dueno = username}
      P == {k \in K : Existe(k)}
  IN  /\ "borra_papelera" \in Descuidos
      /\ username \in papelera
      /\ meta' = [k \in Clave |-> IF k \in P THEN NADA ELSE meta[k]]
      /\ disco' = [k \in Clave |-> IF k \in P THEN {} ELSE disco[k]]
      /\ papelera' = IF \A k \in K : disco'[k] = {}
                     THEN papelera \ {username} ELSE papelera
      /\ UNCHANGED <<registrados, carpetas, permisos, trozos, caido>>

\* mandarArchivoATrash exits the process when the metadata name an owner that is
\* not the drive's ("no deberia suceder nunca"); the walk of eliminarCarpeta
\* reaches it too, on the first such file.
eliminarConOtroPropietario(username, k) ==
  /\ Viva(k)
  /\ verificarPermisos(username, k)
  /\ Existe(k)
  /\ meta[k].propietario # k.dueno
  /\ caido' = TRUE
  /\ UNCHANGED <<registrados, carpetas, papelera, disco, meta, permisos, trozos>>

-----------------------------------------------------------------------------
(* restaurar: the folders are made first, whatever happens next.           *)

\* Mutant: what is already at the path is not looked up.
puedoRestaurarASinMirar(k, real) == Existe(k)

puedoRestaurarA(k, real) ==
  ~existeMetadato(real) /\ ~existeArchivo(real) /\ Existe(k)

restaurar(username, k) ==
  LET real == ClaveReal(username, k)
      vs   == Renombradas(k, meta[k].ultimaVersion)
  IN  /\ ~Viva(k)
      /\ verificarPermisos(username, k)
      /\ carpetas' = ConCarpeta(username, CarpetaDe(k.ruta))
      /\ IF puedoRestaurarA(k, real)
         THEN /\ disco' = Mover(k, real, vs)
              /\ meta' = IF vs = 1..meta[k].ultimaVersion
                         THEN [meta EXCEPT ![k] = NADA, ![real] = meta[k]]
                         ELSE meta
         ELSE UNCHANGED <<disco, meta>>
      /\ UNCHANGED <<registrados, papelera, permisos, trozos, caido>>

-----------------------------------------------------------------------------
(* actualizarMetadatos.  An empty user list keeps the old one; the rest of *)
(* the metadata is replaced by what the client sends, "propietario" too.   *)

ListaFinal(k, lista) == IF lista = {} THEN meta[k].usuarios ELSE lista

\* agregarPermiso skips a username without a "!permisos" key.
Agregados(k, lista) == (ListaFinal(k, lista) \ meta[k].usuarios) \cap registrados

\* eliminarPermiso checks the requester's permission each time: once a guest has
\* revoked himself, what is left of the loop revokes nobody.  The order of the
\* loop is the order of the stored list.
Revocados(username, k, lista, quitados) ==
  LET sobran == (meta[k].usuarios \ ListaFinal(k, lista)) \cap registrados
  IN  IF username \in sobran /\ username # k.dueno
      THEN username \in quitados /\ quitados \subseteq sobran
      ELSE quitados = sobran

\* The index and the stored user list once both loops have run:
\* metadatosConPermisosDepurados writes the list back with nobody removed.
\* The index is one string, its paths joined by '!'.  The key of a file in the trash
\* holds that character: it is read back as pieces ("ana/", "trash/d", "a", "0"),
\* which name no file (no user is called "trash"; "ana/" is the root of the drive, which
\* no request here is about), and eliminarPermiso finds no element to take out.
\* Mutant: the revoking loop forgets the index.
PermisosTrasSinQuitar(k, lista, quitados) ==
  [u \in Usuario |->
     permisos[u] \cup (IF Viva(k) /\ u \in Agregados(k, lista) THEN {k} ELSE {})]

PermisosTras(k, lista, quitados) ==
  [u \in Usuario |->
     (permisos[u] \cup (IF Viva(k) /\ u \in Agregados(k, lista) THEN {k} ELSE {}))
       \ (IF u \in quitados THEN {k} ELSE {})]

TrozosTras(k, lista) == IF Viva(k) THEN trozos ELSE trozos \cup Agregados(k, lista)

\* Mutant: the list is not written back.
MetadatoTrasIgual(k, lista) == meta[k]

MetadatoTras(k, lista) == [meta[k] EXCEPT !.usuarios = @ \cup Agregados(k, lista)]

\* Mutant: the stored list wins over the one sent.
MetadatoEnviadoViejo(k, lista, propietario) ==
  [meta[k] EXCEPT !.propietario = propietario]

MetadatoEnviado(k, lista, propietario) ==
  [propietario   |-> propietario,
   ultimaVersion |-> meta[k].ultimaVersion,
   usuarios      |-> ListaFinal(k, lista)]

\* What the application sends; each word of Descuidos drops one habit of it.
Cuidadoso(username, k, lista, propietario, nueva) ==
  /\ Viva(k) \/ "comparte_papelera" \in Descuidos
  /\ propietario = k.dueno \/ "cambia_propietario" \in Descuidos
  /\ lista # {} => \/ k.dueno \in lista
                   \/ "omite_propietario" \in Descuidos
  /\ lista \subseteq registrados \/ "lista_desconocido" \in Descuidos
  /\ lista # {} => \/ username \in lista \cup {k.dueno}
                   \/ "se_quita" \in Descuidos
  /\ nueva # k => \/ meta[k].usuarios \subseteq ListaFinal(k, lista)
                  \/ "renombra_y_quita" \in Descuidos

PideActualizar(username, k, lista, propietario, nueva, quitados) ==
  /\ verificarPermisos(username, k)
  /\ existeMetadato(k)
  /\ Cuidadoso(username, k, lista, propietario, nueva)
  /\ Revocados(username, k, lista, quitados)

\* actualizarPermisos alone: the name does not change.
actualizarPermisos(username, k, lista, propietario, quitados) ==
  /\ PideActualizar(username, k, lista, propietario, k, quitados)
  /\ meta' = [meta EXCEPT ![k] = MetadatoEnviado(k, lista, propietario)]
  /\ permisos' = PermisosTras(k, lista, quitados)
  /\ trozos' = TrozosTras(k, lista)
  /\ UNCHANGED <<registrados, carpetas, papelera, disco, caido>>

\* renombrarArchivo: the versions moved before the first that fails.  Only metadata
\* under the new name refuse it: of the disk the loop asks for <new>!i!1, a name no
\* upload writes, and rename(2) overwrites a version left at the new path.
\* Mutant: the new name is not looked up at all.
RenombrablesSiempre(k, nueva) == Renombradas(k, meta[k].ultimaVersion)

Renombrables(k, nueva) ==
  IF existeMetadato(nueva) THEN {} ELSE Renombradas(k, meta[k].ultimaVersion)

Completo(k, nueva) == Renombrables(k, nueva) = 1..meta[k].ultimaVersion

renombrarFallido(username, k, lista, propietario, nueva, quitados) ==
  /\ Viva(k) /\ nueva # k /\ MismaCarpeta(k, nueva)
  /\ PideActualizar(username, k, lista, propietario, nueva, quitados)
  /\ ~Completo(k, nueva)
  /\ meta' = [meta EXCEPT ![k] = MetadatoTras(k, lista)]
  /\ permisos' = PermisosTras(k, lista, quitados)
  /\ disco' = Mover(k, nueva, Renombrables(k, nueva))
  /\ UNCHANGED <<registrados, carpetas, papelera, trozos, caido>>

\* actualizarPermisosPorRenombrado: each user of U gets the new path for the old.
\* Mutant: the old path stays.
PermisosConAmbos(U, tras, k, nueva) ==
  [u \in Usuario |-> IF u \in U THEN tras[u] \cup {nueva} ELSE tras[u]]

PermisosRenombrado(U, tras, k, nueva) ==
  [u \in Usuario |-> IF u \in U THEN (tras[u] \ {k}) \cup {nueva} ELSE tras[u]]

\* The rename succeeds: each listed user but the owner gets the new path, then
\* one batch moves the metadata.
renombrarArchivo(username, k, lista, propietario, nueva, quitados) ==
  LET otros == ListaFinal(k, lista) \ {propietario}
      tras  == PermisosTras(k, lista, quitados)
  IN  /\ Viva(k) /\ nueva # k /\ MismaCarpeta(k, nueva)
      /\ PideActualizar(username, k, lista, propietario, nueva, quitados)
      /\ Completo(k, nueva)
      /\ otros \subseteq registrados
      /\ meta' = [meta EXCEPT ![k] = NADA,
                              ![nueva] = MetadatoEnviado(k, lista, propietario)]
      /\ permisos' = PermisosRenombrado(otros, tras, k, nueva)
      /\ disco' = Mover(k, nueva, 1..meta[k].ultimaVersion)
      /\ UNCHANGED <<registrados, carpetas, papelera, trozos, caido>>

\* A listed username without "!permisos" key: dbMetadatos->get throws KeyNotFound
\* after the files were renamed, and nothing catches it.
renombrarConDesconocido(username, k, lista, propietario, nueva, quitados) ==
  LET otros == ListaFinal(k, lista) \ {propietario}
      tras  == PermisosTras(k, lista, quitados)
  IN  /\ Viva(k) /\ nueva # k /\ MismaCarpeta(k, nueva)
      /\ PideActualizar(username, k, lista, propietario, nueva, quitados)
      /\ Completo(k, nueva)
      /\ ~(otros \subseteq registrados)
      /\ meta' = [meta EXCEPT ![k] = MetadatoTras(k, lista)]
      /\ \E hechos \in SUBSET (otros \cap registrados) :
           permisos' = PermisosRenombrado(hechos, tras, k, nueva)
      /\ disco' = Mover(k, nueva, 1..meta[k].ultimaVersion)
      /\ caido' = TRUE
      /\ UNCHANGED <<registrados, carpetas, papelera, trozos>>

\* Buscador: a search, or the listing of what is shared, reads the metadata of
\* every path in the user's index; one without metadata throws KeyNotFound, and so
\* does a piece of a trash's key.
buscarCompartidoInexistente(username) ==
  /\ username \in trozos \/ \E k \in permisos[username] : ~existeMetadato(k)
  /\ caido' = TRUE
  /\ UNCHANGED <<registrados, carpetas, papelera, disco, meta, permisos, trozos>>

-----------------------------------------------------------------------------
PideEliminar(u) ==
  \/ \E k \in Clave : \/ eliminarArchivo(u, k)
                      \/ eliminarDefinitivamente(u, k)
                      \/ eliminarConOtroPropietario(u, k)
  \/ \E dir \in Carpeta : eliminarCarpeta(u, dir)
  \/ eliminarPapelera(u)

PideMetadatos(u) ==
  \E k \in {c \in Clave : existeMetadato(c)} :
  \E lista \in SUBSET Usuario, quitados \in SUBSET meta[k].usuarios,
     propietario \in Usuario :
    \/ actualizarPermisos(u, k, lista, propietario, quitados)
    \/ \E nueva \in Clave :
         \/ renombrarArchivo(u, k, lista, propietario, nueva, quitados)
         \/ renombrarFallido(u, k, lista, propietario, nueva, quitados)
         \/ renombrarConDesconocido(u, k, lista, propietario, nueva, quitados)

Pedido(u) ==
  \/ \E d \in Usuario, dir \in Carpeta : crearCarpetaSegura(u, d, dir)
  \/ \E k \in Clave, v \in Version, force \in BOOLEAN : subirArchivo(u, k, v, force)
  \/ PideEliminar(u)
  \/ \E k \in Clave : restaurar(u, k)
  \/ PideMetadatos(u)
  \/ buscarCompartidoInexistente(u)

\* Only a registered user has the token every request but the registration needs.
Next ==
  /\ ~caido
  /\ \/ \E u \in Usuario : crearUsuario(u)
     \/ \E u \in registrados : Pedido(u)

Spec == Init /\ [][Next]_vars

-----------------------------------------------------------------------------
(* Properties *)

\* The databases and the file system agree: a path has metadata exactly when it
\* has files, and the files are its versions 1..ultimaVersion, none missing and
\* none left over ("ambos dos mantienen una consistencia entre si",
\* mantenimiento.rst:11).  Deleting, restoring, renaming and re-uploading each
\* move the two stores separately.
Consistencia ==
  \A k \in Clave :
    disco[k] = IF existeMetadato(k) THEN 1..meta[k].ultimaVersion ELSE {}

\* The stored owner of every file is the user whose drive holds it, the case the
\* exit of mandarArchivoATrash says should never fail.
PropietarioCoincide ==
  \A k \in Clave : existeMetadato(k) => meta[k].propietario = k.dueno

\* Who may reach a file is kept twice: the index "!permisos/<user>", which
\* decides, and the user list of the metadata, which is shown and from which the
\* index is cleaned.  They name the same guests for every file, live or deleted:
\* no guest keeps a path that was deleted, moved or revoked, so nobody inherits
\* access to a file uploaded later under an old path.
IndiceExacto ==
  \A u \in registrados, k \in Clave :
    k \in permisos[u] <=>
      existeMetadato(k) /\ u \in meta[k].usuarios /\ u # k.dueno

\* No sequence of requests kills the process: neither the exit on a foreign
\* owner, nor a KeyNotFound of a search or of a rename.
NuncaCae == ~caido

\* No request but a purge makes a file vanish: a live file whose path loses its
\* metadata is, with all its versions, at one path of the same drive that was
\* free, its place in the trash or its new name.
NadaSePierde ==
  [][\A k \in Clave :
       Viva(k) /\ existeMetadato(k) /\ ~existeMetadato(k)' =>
         \E c \in Clave : /\ c.dueno = k.dueno
                          /\ c.ruta = k.ruta \/ MismaCarpeta(c, k)
                          /\ ~existeMetadato(c) /\ existeMetadato(c)'
                          /\ disco[c] = {} /\ disco[c]' = disco[k]]_vars

\* While a path keeps its file, its versions only grow, one at a time, on disk and
\* in the metadata: no upload, forced or not, overwrites or skips a version, and
\* no failed request loses one.
VersionesCrecen ==
  [][\A k \in Clave :
       existeMetadato(k) /\ existeMetadato(k)' =>
         \/ UNCHANGED <<disco[k], meta[k].ultimaVersion>>
         \/ /\ meta[k].ultimaVersion' = meta[k].ultimaVersion + 1
            /\ disco[k]' = disco[k] \cup {meta[k].ultimaVersion + 1}]_vars

\* The metadata of a file in the trash do not change until it is restored or
\* purged ("Los metadatos de la papelera son inaccesibles").
PapeleraInaccesible ==
  [][\A k \in Clave :
       ~Viva(k) /\ existeMetadato(k) /\ existeMetadato(k)' => meta[k]' = meta[k]]_vars

\* What the users see: the versions on disk, and for each file the guests whose
\* index has it.
Lectores == [k \in Clave |-> {u \in Usuario : k \in permisos[u]}]

U == INSTANCE Unidad WITH versiones <- disco, lectores <- Lectores

\* Every request of a careful client takes effect on the disk and in the index as
\* one step of Unidad, or leaves both alone: the metadata, the folders and the
\* sequence numbers that the code works through never show.
ImplementaUnidad == U!Spec

\* However careless the clients, the two stores agree until the process dies, as
\* long as every drive keeps its trash.
ConsistenciaHastaCaer == NuncaCae => Consistencia

\* However careless the clients, nobody comes to reach a file without its metadata
\* saying so: a path enters a user's index only in a step that leaves him listed in
\* the metadata under that path, or that renames the file away from it and leaves
\* him its owner; and the pieces of a trash's key, which name no file, enter the index
\* only of a user whom a file in the trash lists.  (A step in which the process dies
\* may stop between the two.)
AccesoListado ==
  [][~caido' =>
       /\ \A u \in Usuario, k \in Clave :
            k \in permisos'[u] \ permisos[u] =>
              \E c \in Clave :
                /\ existeMetadato(c)' /\ u \in meta[c]'.usuarios
                /\ c = k \/ (MismaCarpeta(c, k) /\ meta[c]'.propietario = u)
       /\ \A u \in trozos' \ trozos :
            \E c \in Clave : /\ ~Viva(c) /\ existeMetadato(c)'
                             /\ u \in meta[c]'.usuarios]_vars
=============================================================================
