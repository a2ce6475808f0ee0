# UDrive in TLA+

UDrive is a server that keeps the files of its users. The users reach it over a REST interface; it
stores the versions of each file below a folder of the file system, their metadata in a key-value
database (RocksDB, or `MapDB`, a map in memory), and the accounts in three more. This directory
models the core of that server, checks the model with TLC on small instances and proves its main
properties with TLAPS for all of them.

## The system

| part | source (below `src/`) | state | operations |
|---|---|---|---|
| `ManejadorArchivosYMetadatos` | `src/archivosYMetadatos/manejadorArchivosYMetadatos.cpp` | none of its own; drives the next four | `crearUsuario`, `crearCarpetaSegura`, `subirArchivo`, `eliminar`, `restaurar`, `actualizarMetadatos`, `consultarMetadatosArchivo`, `descargarArchivo`, `actualizarFotoPerfil` |
| `ManejadorArchivos` | `manejadorArchivos.cpp` | the file system: `<owner>/<path>!<version>`, `<owner>/!trash/<path with />!>!<seq>!<version>` | make, delete, measure folders; write, rename, restore, purge the versions of a file |
| `ManejadorMetadatos` | `manejadorMetadatos.cpp` | metadata database: `<path>` to the metadata, `!permisos/<user>` to the paths shared with him | batches for deleting, restoring, renaming; the loops that grant and revoke |
| `Validador` | `validador.cpp` | none | permissions, existence, version, sequence number in the trash, restore check |
| `Buscador` | `buscador.cpp` | none | folder listing, list of what is shared, searches |
| `ManejadorDeUsuarios` | `src/manejadorDeUsuarios.cpp` | passwords, profiles (and the list of users), sessions | register, log in and out, authenticate, read and change a profile |
| `BD`: `BaseDeDatos`, `MapDB`, `Batch` | `src/db/` | the map from keys to values | `put`, `get`, `modify`, `erase`, `contains`, `writeBatch` |
| `Server`, `lanzarServer` | `src/server.cpp`, `include/lanzarServer.h` | the flag `running`, one mongoose server and one thread per `cantThreads` | poll, dispatch, close |
| handlers (`File`, `Folder`, `Metadata`, `Profile`, `Session`) | `src/realizadoresDeEventos/` | none | turn a request into calls of the managers |
| `ParserURI`, `ParserJson`, `Logger` | `include/util/`, `src/util/` | the log file | splitting paths, (de)serialising, logging |

A request authenticates its token against the sessions, and a handler calls one operation of one of
the two managers. Every thread (ten by default) runs the same code over the same databases and file
system, and there is no lock anywhere.

What is hard here:

* **Two stores, no transaction over both.** A file lives in the file system and in the database.
  Uploads write the database first, deletions too; restores and renames start with the files. Every
  multi-version operation is a loop of `rename(2)` that stops at the first failure.
* **Access kept twice.** The index `!permisos/<user>` decides; the user list of the metadata is
  what is shown and what deletion and renaming use to clean the index. If they part, a path stays in
  an index after its file is gone, and whoever uploads there later shares it unknowingly; a search
  over that index throws, and nothing catches it.
* **Clients send whole metadata.** Owner, user list and name come from the request.
* **The trash.** Names are flattened, numbered from a listing of the folder, checked in the database.
* **Threads, crashes, time**: read-modify-write without locks, a `put` that reads and then writes, a
  login that retries until the second of the clock changes, a shutdown that joins busy threads.

`PROJECT.json` lists each hazard at its line with the properties that would catch it.

## Modules

| module | what it is |
|---|---|
| `Claves` | the keys under which a file is known (owner, path, number in the trash), folders, the record of metadata, the assumptions on the constants |
| `Unidad` | the promise: what a user can see of a drive, each request at once or not at all |
| `Archivos` | the core: files, folders, metadata and permission index, one action per request and outcome |
| `ArchivosHilos` | the same requests access by access, with several threads and crashes |
| `Usuarios` | registration, login, logout, profiles and pictures, one action per database call, with threads, crashes and a clock |
| `BaseDatos` | `MapDB` and RocksDB given the same calls and batches |
| `Servidor` | start, polling threads, signal, joins and destruction |
| `MCArchivos`, `MCArchivosHilos`, `MCUsuarios` | paths, initial files, bounds and symmetry sets for TLC |
| `Archivos_proof` (7 theorems), `Unidad_proof` (4), `ArchivosHilos_proof` (2), `Aislamiento_proof` (4), `Atomico_proof` (1), `Usuarios_proof` (8), `BaseDatos_proof` (3), `Servidor_proof` (2) | the theorems and their lemmas |

The files are modelled three times, each detailed model tied to the one above it. `Archivos` takes a request
as atomic and implements `Unidad`, which has neither metadata nor folders (`ImplementaUnidad`);
`ArchivosHilos` takes the accesses of a request to the stores one by one, and a request that runs alone
in it is one step of `Archivos` (`SoloEsAtomico`); both ties are proved. `Usuarios` takes the calls of RocksDB one by one;
`BaseDatos` is about one call or batch; `Servidor` about when threads may run at all. These three share no
state with the others.

### `Unidad` and the refinement

`versiones[k]` are the versions of `k` that can be read and `lectores[k]` the guests who reach it. A deletion
takes each file whole to a free place in its owner's trash, where nobody else reaches it; a restoration or
a renaming takes it whole to a free path; versions come one after the other. `Archivos` implements it with

    versiones <- disco        lectores <- Lectores, where Lectores[k] == {u \in Usuario : k \in permisos[u]}

that is, what is downloaded comes from the disk and who may from the index: the metadata that every
request reads and moves has to agree with both for the refinement to hold, and does if clients are careful.

### `Archivos`

State and code:

| variable | stands for |
|---|---|
| `registrados` | the users with a key `!permisos/<user>` |
| `carpetas[u]` | the folders below `<fs>/u`, as paths; `<<>>` is the drive |
| `papelera` | the users whose folder `!trash` is on disk |
| `disco[k]` | the version numbers `i` for which the file `<path of k>!i` exists |
| `meta[k]` | the metadata under the path of `k`, or `NADA` |
| `permisos[u]` | the paths in `!permisos/u` |
| `trozos` | the users whose `!permisos/u` holds pieces of the key of a file in the trash |
| `caido` | the process has exited or thrown out of a thread |

A key is a record `[dueno, ruta, sec]`; `sec = VIVA` is the live file and another number its place in
the trash. The flattened name of the trash determines the path because no component of a path holds
the reserved character; that is the assumption `NombresSinReservado`. The key in the trash does hold it, and the
index is a list joined by that character: if the user list of a file in the trash is updated,
`u/!trash/d!a!0` comes back as `u/`, `trash/d`, `a`, `0`. The guest does not get the file, nothing takes the pieces
out, and his next search throws (`trozos`, `TrozosTras`, `buscarCompartidoInexistente`). `ArchivoNoCarpeta` excludes a
file and a folder of one name.

Each action is a whole request, with every call that changes state, in the outcome its name says:
`eliminarArchivo`, `eliminarCarpeta`, `eliminarPapelera`, `eliminarDefinitivamente` and
`eliminarConOtroPropietario` are `eliminar` on a live file, a folder, the trash, a file in the trash
and a file whose stored owner is another; `actualizarPermisos`, `renombrarArchivo`,
`renombrarFallido` and `renombrarConDesconocido` are `actualizarMetadatos` without a new name, with
one, with one that is refused, and with one and an unregistered user in the list. A loop of renames
moves `Renombradas` (or `Renombrables`), the versions before the first that fails. Only metadata under the new
name refuse a renaming: the look at the disk (`manejadorArchivos.cpp:95`) appends a version to a path that ends in
one already, never finds a file, and `rename(2)` overwrites a version left at the new path, although the log
message after it says otherwise. While disk and metadata agree nothing is left there. The loop that
revokes goes in the order of the stored list, which the model does not keep: the set `quitados` of
users revoked is chosen among those some order gives. Refusals that change nothing are not actions.

What the clients send is their choice, and several properties depend on it. `Descuidos` is the set of
the mistakes they may make; with `Descuidos = {}` requests are as the application forms them.

### `ArchivosHilos`

The stores are those of `Archivos`, except that `disco[k][v]` holds a content: where, and by which request,
it was uploaded. `hilo[h]` is what thread `h` has read and the step it takes next (`paso`); each step reads or
writes one store once, and reads in a row that no write of another thread can tell apart are one step. `put`,
`modify` and `writeBatch` are a look and a write, as they are in RocksDB. The permissions and the existence
that a request looks at before its first write are checked as it is taken (`Pide`...); what it reads again
later is read again. A `get` of a key that is gone throws `KeyNotFound`, which nothing catches (`Lanza`): like
`Caida`, a crash, it leaves the stores as they are and loses what the threads had read. A folder is removed
with `rm -r`, with all that is in or below it by then. A refused restoration puts the versions back one by one.

History variables, which no step reads:

| variable | records |
|---|---|
| `acusados` | the contents of uploads answered 201, until their file is purged or two requests disturb it |
| `sucios` | the files that two requests worked on at once, or that a request cut short by a crash worked on |
| `compartidos` | whom a request to share named, and its path |
| `antes`, `solo` | the stores when no request was running, and whether those since then never overlapped |

The interleavings break much: two uploads of one version are both told they are stored (`v_version`), an
index loses entries, a search dies. The properties say where that damage ends.

### `Usuarios`

State: the three databases (`passwords`, `perfiles`, the key `USERLIST` as `lista`, `sesiones`), the
`!permisos` keys (`drives`), the pictures on disk, the clock, and for each thread the step it is about to
run with what it has read (`leida`, `vieja`, the second `t` of its token). `put` is a Get and a Put,
`erase` a Get and a Delete, and other threads run in between; calls are joined only where the first can no
longer become false (a profile, once there, stays). `registrar` to `carpetas` are `registrarUsuario` and
`crearUsuario`; `iniciarSesion`, `tokenGet`, `reintentar`, `tokenPut` a login; `cerrarSesion`, `eraseGet`,
`eraseDelete` a logout; the rest the changes of a profile, a new picture, and the position an upload
stores. `Reiniciar` is a crash at any point, or the restart of a dead process; what was written stays.
`altas`, `avisados`, `entradas`, `salidas` and `cerrados` record what clients were told and no action reads
them, but for the bound on logins and the seconds of closed tokens in `Segundero`.

### `BaseDatos` and `Servidor`

`BaseDatos` fills a `Batch` action by action and has it written by both implementations: both check every
action against the database as it is, then `MapDB` runs them one by one (`insert` does not replace, `at`
throws) and RocksDB writes all of them, later ones over earlier ones. A batch names
a key twice only to modify it both times: the deletion of a file whose stored list has a guest twice modifies
his index twice (`manejadorMetadatos.cpp:91`), and no other caller repeats a key. With other actions on one key
the two would differ: the check looks at the database before the batch, so in `MapDB` an erase followed by a
modify of the key passes it, erases and then throws.

`Servidor` has the main thread start the others one by one, wait for `running` to be cleared, join them in
order and free servers, databases, managers and handlers. A signal may come at any moment, also during
the start.

### Properties

| property | kind | says |
|---|---|---|
| `TypeOK` | invariant | types |
| `Consistencia` | invariant | a path has metadata exactly when it has files, and these are versions `1..ultimaVersion` |
| `ConsistenciaHastaCaer` | invariant | the same until the process dies, however careless the clients |
| `PropietarioCoincide` | invariant | the stored owner is the drive's |
| `IndiceExacto` | invariant | the permission index and the user lists name the same guests of the same files |
| `NuncaCae` | invariant | no request kills the process |
| `NadaSePierde` | action | a file that leaves its path is, whole, at one free path of the same drive |
| `VersionesCrecen` | action | versions only grow, one at a time, on disk and in the metadata together |
| `PapeleraInaccesible` | action | the metadata of a file in the trash change only by restoring or purging it |
| `AccesoListado` | action | while the process lives, a path enters an index only in a step that leaves the user listed in the metadata under that path, or owner of the file renamed from it; and the pieces of a trash key, only in one that leaves him listed by a file in the trash |
| `ImplementaUnidad` | refinement | `Archivos` does what `Unidad` promises |
| `AcusadoGuardado` | invariant | `ArchivosHilos`: an upload answered 201 stays on disk under some name until its file is purged, whatever runs on other files and wherever a crash falls; the promise ends when two requests meet on the file |
| `ConsistenciaAislada` | invariant | disk and metadata agree on every file that no two requests worked on at once, whatever runs on other files of the folder, trash or index |
| `SinIntrusos` | invariant | no interleaving and no crash gives a user a path that was never shared with him; entries lost and revoked entries written back, the other effects of that race, do happen and no property excludes them |
| `PropietarioEsDueno` | invariant | clients that send back the owner they read, and requests that copy metadata from key to key, interleaved or cut short, leave the metadata with the owner of the drive, so the deletion never takes its exit for another one, a step the module leaves out |
| `LanzaSoloCruzado` | invariant | the `get` of a request's own file throws only after requests overlapped on it or a crash left it broken |
| `SoloEsAtomico` | action | a request that ran alone is one step of `Archivos`, or changed nothing, from whatever state earlier races and crashes left, versions at the new path of a renaming among it, if `Archivos` can represent it: a forced upload that races a deletion may store -1 as the last version |
| `SubeSobreLaUltima` | invariant | an upload that is not forced writes over no version (refuted) |
| `AltaOrdenada` | invariant | `Usuarios`: a drive or a listed name has a profile, a profile a password, an answered registration a drive; sessions are of registered users |
| `AltaEntera` | invariant | without crashes, when the registrations of a name are over it has a profile and a drive |
| `UnaAlta`, `ListaCompleta` | invariant | a name is registered once; whoever was told so is in the list |
| `FotoDelPerfil` | invariant | without crashes, between requests a user has one picture on disk, the one his profile names |
| `UnTokenPorSesion` | invariant | as many tokens as logins answered and not closed |
| `NuncaLanza` | invariant | no exception ends the process |
| `TodoTermina` | liveness | every request is answered, unless the process dies |
| `Indistinguibles` | invariant | `BaseDatos`: the two implementations hold and answer the same |
| `TodoONada` | action | a batch leaves each key as the last action on it says and the others alone, or changes nothing |
| `NadaBorradoEnUso` | invariant | `Servidor`: while a thread has not ended nothing has been freed |
| `CierraAlFin` | liveness | after a signal the server ends |

Fairness. The models of files and databases are safety models: requests come from clients, no step is
obliged to happen, and `ArchivosHilos` may stop anywhere, as a crash does. `Usuarios` assumes weak fairness of
each busy thread (the operating system runs it; nothing blocks) and of the clock; the login that finds its
token taken sleeps and reads the clock again, so without a clock that moves it would not end, and with other
logins of the same user for ever it could starve, which the bound on logins excludes. `Servidor` assumes weak
fairness of the main thread and of each other: a poll returns after `pollMilisec` and a request is answered
(`TodoTermina`). Nobody need ask or signal.

## Runs

| run | question | bounds |
|---|---|---|
| `archivos` | do all properties hold, and is the promise of `Unidad` kept, when requests are formed as the application forms them? | 2 users, 2 files that can be renamed to each other in a folder, 2 versions, 2 places in the trash, 3 files at once |
| `archivos_invitados` | what holds with two guests of one file, and trash folders deleted | 3 users, 1 version, 2 files at once |
| `archivos_descuidos` | what holds whatever clients send, but for the deletion of a trash folder | 2 users, 2 files in the root, 2 versions, 1 place in the trash, 1 file and 2 index entries at once; no deadlock check, since the process may die |
| `hilos` | what survives every interleaving of two requests and a crash? | 2 threads, 2 requests, 1 crash and any exceptions, 1 drive with 2 files in a folder and a guest, 3 versions, 3 places in the trash |
| `v_version` | "without forcing, from a version that is not the last" is refused, says a header | the same with no crash: two uploads of one version refute it |
| `v_consistencia` | disk and metadata agree, says the administrator's manual | the deletion of `<user>/!trash` refutes it |
| `v_indice` | a full list "is the new list of enabled users", says a comment | a guest who removes himself and another refutes it |
| `usuarios` | does one thread keep registrations, pictures, tokens and the process as they should be, with a crash at any point, and is every request answered? | 2 users, 3 logins, 1 restart |
| `usuarios_hilos` | what order survives races and crashes, and does one of several racing registrations go all the way? | 2 users, 2 threads, 1 login, 1 restart; the process may die, so deadlock is not checked |
| `v_salir` | erase does not throw after `autenticarToken`, says a comment | two logouts refute it |
| `base_datos` | can the two databases be told apart, and are batches all or nothing? | 3 keys, 2 values, batches of 3 actions, one key three times if all modify it |
| `servidor` | is anything freed in use, and does the server end? | 3 threads, 2 requests in a poll; the server ends, so deadlock is not checked |

A property that holds only of careful clients or of one thread fails elsewhere, and four runs show it for what
the repository states. More follow from the same models and have no run. With two threads `ListaCompleta`
fails (two registrations lose a name from the list), so does `FotoDelPerfil`, and so does `UnaAlta`: `put` reads
and then writes (`basededatos.cpp:30`), both registrations of a name find it free, and both clients are told it
is theirs. With `cambia_propietario` in `Descuidos`, `PropietarioCoincide` fails; with `comparte_papelera`,
`PapeleraInaccesible` does, and the pieces of the key that the guest is left with end the process at his next search.

Two versions are enough for a loop of renames to stop in the middle and for a version to be skipped or
overwritten; two files in one folder for a rename to collide and for a folder deletion to move several
files; two places in the trash for a second deletion of one path; two users for sharing, three for a
request that treats two guests differently. `MaxVersion` and `MaxSec` bound the model itself (an
upload or a deletion beyond them is not taken); `MaxArchivos` and `MaxCompartidos` are constraints of
the runs. Users are symmetric.

In `hilos` every race is of two requests. They meet in what an earlier history can have left: `Iniciales`
is every pair of the two files, live, deleted or one of each, with two versions each (`VersionInicial`), so that a
loop of renames can be cut in the middle and the third version still be uploaded, and every choice of which are shared.
`MaxPedidos` of two gives the pair; a request after a crash meets what the first left. `MaxSec` of two leaves a
place for each deletion after the initial ones. Threads are symmetric.

In `Usuarios` every race is of two threads, and a name lost from the list takes two users; three logins
give a retry, a logout and a login in the same second. `MaxEntradas` bounds the logins begun,
`MaxReinicios` the restarts. The clock needs no bound of its own: it leaves only a second that some token or thread
has, since the others are alike. Three actions are enough for a batch to put, change and erase; three threads
for one to be joined, one joining and one not yet; `MaxPedidos` bounds the requests of a poll.

## Proofs

`Archivos_proof` proves, for any sets of users and paths and any bounds:

* `TipoCorrecto`: `Spec => []TypeOK`.
* `ConsistenciaCorrecta`: if no client deletes a trash folder, `Spec => []ConsistenciaHastaCaer`,
  whatever else clients do. `Consistencia` is not inductive: a deletion moves the files only if the
  owner's trash is on disk. `InvDisco` adds that every owner of a file, and of every path in an index,
  is registered, and that each registered user's trash exists. `MandarConsistente` (deletions),
  `MoverConsistente` (restores and renames) and `RenombrablesTodas` (a rename is refused before
  it moves a file, or moves every version) carry the argument.
* `IndiceCorrecto`, `DuenosCorrectos`, `NadieLoCae`, `ConsistenciaSiempre`: if requests are formed as the
  application forms them, `IndiceExacto`, `PropietarioCoincide`, `NuncaCae` and `Consistencia` always hold.
  They need each other: the process
  survives because every indexed path has metadata and every owner matches, the index is cleaned because
  every guest is listed and registered, a file of the trash is only restored by its owner because it has
  no guest. `InvIndice` adds to `InvDisco` the index for unregistered users (`IndiceTotal`), the
  shape of user lists (`ListasSanas`) and that no index holds pieces of a trash key (`SinTrozos`); `Sana` states it path by path, so that a step that
  touches one or two paths needs to be checked on these only (`IndexadoSi`).
* `AccesoSiempre`: `Spec => AccesoListado` with no assumption on clients at all. Most
  requests only take paths out of an index; a change of permissions and a renaming also write the metadata that
  list whoever comes in (`AccesoMetadatos`). `AccesoPaths` and `AccesoTrozos` are its two halves. The exception for
  a renamed file is needed: a list that names another owner grants him the old path, and the loop that
  changes paths skips the owner.

`Unidad_proof` proves, with careful clients (`Descuidos = {}`):

* `ImplementacionCorrecta`: `Spec => ImplementaUnidad`. Under `InvIndice`, each action of `Archivos` is the
  action of `Unidad` of its name, or changes neither `disco` nor an index of a guest (`PasoDeUnidad`).
* `VersionesSiempreCrecen`, `NadaSePierdeSiempre`, `PapeleraSiempreInaccesible`: the action properties. What
  they say of the disk is proved of a step of the promise, where it is short (`UnidadCrece`, `UnidadMueve`), and
  carried over by the refinement; `InvIndice` ties the metadata to it.

`ArchivosHilos_proof` proves, for any users, paths, threads, requests and crashes:

* `TipoHilos`, `SinIntrusosSiempre`: `Spec => []TypeOK` and `Spec => []SinIntrusos`. The invariant `Inv` says of
  every busy thread (`Bien`) that each index it has read and changed, but not yet written, names only paths
  that were shared with its user: the writes of indices read long ago then bring no stranger in.

`Aislamiento_proof` proves, for any users, paths, threads, requests and crashes:

* `ConsistenciaAisladaSiempre`, `LanzaSoloCruzadoSiempre`: `Spec => []ConsistenciaAislada` and
  `Spec => []LanzaSoloCruzado`. Neither is inductive: in the middle of a request its own file is split between the
  stores. `Aislados` says where. `Forma` keeps what a request fixed as it was taken, the files it may touch
  among it; `Separados`, that two requests at work on one file have disturbed all of theirs. A request that nobody met
  (`Limpio`) is `Fiel`: at each step the stores stand as its program counter says, the first `n` versions moved
  and the others not, the metadata already there or still there, the folder created. Its other files, and all
  files nobody works on, agree (`Acorde`). `Avanza` is the rule for a step: it may change only the step's own files and
  has to leave its own request `Fiel` or finished; `FielSigue` says that the others do not notice,
  since the step leaves their stores and the folders of their files as they were. A folder deletion
  works on all the files of the folder, so that one removed with `rm -r` under an upload is a meeting of two
  requests.
* `AcusadoGuardadoSiempre`: `Spec => []AcusadoGuardado`, on top of `Aislados`.
  `Identidades` says that contents carry the number of the request that uploaded them, that running requests have
  different numbers and nothing promised yet, and that an undisturbed one has its content only under its own files.
  `Salvados` adds that the files of a disturbed request hold nothing promised. An undisturbed one moves contents
  from name to name only onto names it knows to be free, which is what `Fiel` is for. The module uses
  `NadaHilosAssumption`: absence is neither a metadata record nor a content.
* `PropietarioEsDuenoSiempre`: `Spec => []PropietarioEsDueno`, for clients that send back the owner they read, as
  those of this module do. `Duenos` says it also of the metadata that each
  running request has read or is about to write (`Suyo`).

`Atomico_proof` proves, for any users, paths, threads, requests and crashes:

* `SoloEsAtomicoSiempre`: `Spec => SoloEsAtomico`. The module is no refinement of `Archivos`, since requests that
  overlap do what no order of them would; the theorem is about each request that nobody met. `Hecho(r, antes, Ahora)` says
  how far such a request has come: what the stores are now, as a function of what they were and of its program
  counter (`HechoSubir`: the version checked, the folders made, the metadata written and the file not yet;
  `Mandado`, `Movido`, `Repartidos`, `Renombrados`: the first `n` versions moved, the permissions
  granted and revoked so far). Each step of a lone request keeps it (`SubeSolo`, `BorraSolo`, `RestauraSolo`...), and where
  the request ends, the lemmas `Hace...` find the action of `Archivos` with the same effect. Earlier races may
  have left files split between disk and metadata, so `Hecho` follows the failing branches too: a restoration undone version by version, a
  renaming that overwrites what a crash left at the new path, or is refused after the permissions changed, a folder deletion that skips the broken files. Two things it needs of any
  state are kept by every interleaving, and proved in `Aislamiento_proof`: `Duenos`, and `EnSuSitio`, that a live file is
  in a folder that is on disk. The invariant is `Firme /\ Solos`, with `Firme == Inv /\ Aislados /\ Duenos /\ EnSuSitio`.
  It was checked with TLC on a small instance before it was proved.
  An earlier form of the property had no condition on `antes` and was false once four requests may run, two
  more than in `hilos`: a forced upload that races a deletion leaves the -1, and a later request works on it.

`Usuarios_proof` proves, for any users, threads, logins and restarts:

* `AltaCorrecta`, `TipoUsuarios`: `Spec => [](TypeOK /\ AltaOrdenada)`. `AltaOrdenada` is not inductive: a
  thread about to
  write a profile must know that its password is there. `HiloBien` says of a request what its earlier steps
  have written, and `OtrosHilos` that it stays true while others run, because passwords, profiles and
  drives are only added (`Crece`).
* `AltaEnteraSiempre`: `Spec => []AltaEntera`, with any number of threads. `InvEntera` says which thread is on
  its way to each thing that an account does not have yet.
* With one thread, `AltaUnica`, `ListaSiempreCompleta`: `Spec => [](UnaAlta /\ ListaCompleta)`. `InvUno` adds what
  only a lone thread knows: the name is still free, the list is still the one read.
* With one thread, `TokenSiempre`, `NuncaLanzaUno`: `Spec => [](UnTokenPorSesion /\ NuncaLanza)`; `InvSesion`
  counts the tokens stored and says of the token a request holds whether it is among them.
* With one thread, `FotoSiempre`: `Spec => []FotoDelPerfil`. `InvFoto` follows the pictures of a user through the
  steps of a change: the old one deleted, the new one written, the profile not yet.

`BaseDatos_proof` proves, for any keys, values and length of batches:

* `TipoBaseDatos`, `SiempreIndistinguibles`: `Spec => [](TypeOK /\ Indistinguibles)`. The invariant `Inv` adds
  `RepiteModificando`: two actions of a batch on one key both modify it. Both implementations are folds over the
  batch, and what they compute is proved to be `Tras(D, Len(batch))`, the database with each key as the last action on
  it says (`EscritoEs`, `EjecutadoEs`): RocksDB in one go, `MapDB` without an exception, since a key that an earlier
  action named is there as it was when the batch was checked (`TrasHay`).
* `LotesTodoONada`: `Spec => TodoONada`, from the same two lemmas.

The prover cannot instantiate the library's induction theorems, so the induction over the length of a batch rests on
`Induccion`, which says it of sets of naturals (`NatLessThanWellFounded`, `WFMin`). `FoldLeft` is opened down to
its recursive function, whose existence `Pliegue` and `Peldanos` prove by that lemma.

`Servidor_proof` proves `TipoServidor` and `NadaBorrado`: `Spec => []NadaBorradoEnUso` for any number of threads;
what has been joined has ended, and nothing is freed before all have.

Only model-checked: `TodoTermina` and `CierraAlFin`, since liveness under fairness and ENABLED are beyond the
prover. Every other property of a passing run is a theorem.

## Not modelled

* Searches over the list of users; hash collisions of tokens; errors of RocksDB; data races inside `MapDB`
  when the build without RocksDB runs several threads.
* In `ArchivosHilos`, the requests of careless clients and those on folders with folders in them, which
  `Archivos` has, and registrations, which `Usuarios` has.
* The root of a drive as argument of a deletion: `pathSinNroSecuencia` turns `u/!trash` into `u/` and
  `eliminar` recurses without end. The piece `u/` of a trash key in a guest's index
  names that root too: what he may then ask of the drive is left out with it. The rename of a file in the trash,
  which loses its number. The restoration of a path that is not in the trash, which finds nothing to restore.
* Names with the reserved character, sequence numbers above 999 (a three-digit buffer), sizes and quotas.
* Contents other than their identity, dates, tags, JSON, HTTP responses, logging: no property depends on them.
* Vendored code, and `docs/**/_build`: HTML that Sphinx generated, with its copies of jQuery, underscore and a
  stemmer. That is all the JavaScript of the repository; the program is the C++ below `src/src` and
  `src/include`, and only that is mapped.

## Plan

1. (done) `Claves`, `Archivos`, their runs and theorems.
2. (done) `Usuarios`, its runs with threads, crashes and liveness, and its theorems.
3. (done) `BaseDatos` and `Servidor`, and their theorems.
4. (done) `Unidad`, implemented by `Archivos`: checked and proved.
5. (done) `ArchivosHilos`: two threads and crashes, checked; its types and `SinIntrusos` proved.
6. (done) The action properties of `Archivos`; `AltaEntera`, `FotoDelPerfil`, `UnTokenPorSesion` and
   `NuncaLanza` of `Usuarios`.
7. (done) Proofs of `ConsistenciaAislada`, `LanzaSoloCruzado`, `AcusadoGuardado`, `PropietarioEsDueno` and
   `SoloEsAtomico`.
8. (left) `Rutas`: `parsear`, `join`, `pathSinNroSecuencia` and the names of the trash against a reference.
