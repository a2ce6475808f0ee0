------------------------------ MODULE Usuarios ------------------------------
(***************************************************************************)
(* ManejadorDeUsuarios and the requests that reach it: registration, login, *)
(* logout, changes of a profile and its picture.  The threads of the server *)
(* share three RocksDB databases, the "!permisos" keys of the metadata and  *)
(* the folder of pictures, and nothing locks them: an action is one call of *)
(* a database or one file operation.  Sequences of calls whose first ones   *)
(* only read what never changes back are joined into one action.            *)
(*                                                                          *)
(* A process may crash between any two steps; databases and files persist.  *)
(***************************************************************************)
EXTENDS Naturals, FiniteSets

CONSTANTS Usuario,      \* usernames that are valid
          NADIE,        \* no username
          Hilo,         \* the threads of the server
          MaxEntradas,  \* bound: logins that are begun
          MaxReinicios  \* bound: restarts of the process

ASSUME NadieAssumption == NADIE \notin Usuario
ASSUME CotasAssumption == MaxEntradas \in Nat /\ MaxReinicios \in Nat

Foto == {"jpg", "png"}  \* the pictures ^fotos/<user>.<extension> of a user
DEFECTO == "jpg"        \* the one crearFotoPerfilDefault copies
SINFOTO == ""           \* pathFotoPerfil of a profile that was never stored
NADA == "NADA"          \* no such key

VARIABLES passwords,    \* users with a key in the database of passwords
          perfiles,     \* perfiles[u]: the picture named by u's profile, or NADA
          lista,        \* the names under the key USERLIST; {} when it is absent
          drives,       \* users with a "!permisos" key
          fotos,        \* the pictures on disk
          sesiones,     \* tokens in the database: <<user, second>>
          reloj,        \* the second the clock shows
          hilo,         \* hilo[h]: the request thread h is working on
          caido,        \* an exception was not caught: the process is dead
          reinicios     \* restarts so far

(* What clients were told, for the properties only. *)
VARIABLES altas,        \* altas[u]: times registrarUsuario returned true for u
          avisados,     \* users whose registration was answered as done
          entradas,     \* logins answered with a token
          salidas,      \* logouts answered as done
          cerrados      \* the tokens of those logouts

bases == <<passwords, perfiles, lista, drives, fotos, sesiones>>
avisos == <<altas, avisados, entradas, salidas, cerrados>>
proceso == <<reloj, caido, reinicios>>
vars == <<bases, proceso, hilo, avisos>>

Pasos == {"libre",
          "passwordPut", "perfilGet", "perfilPut", "listaGet", "listaModify",
          "listaPutGet", "listaPut", "permisosGet", "permisosPut", "carpetas",
          "tokenGet", "tokenPut", "reintento", "eraseGet", "eraseDelete",
          "fotoBorrar", "fotoGuardar", "perfilModify"}

DeAlta == {"passwordPut", "perfilGet", "perfilPut", "listaGet", "listaModify",
           "listaPutGet", "listaPut", "permisosGet", "permisosPut", "carpetas"}
DeEntrada == {"tokenGet", "tokenPut", "reintento"}

Pedido == [paso : Pasos, u : Usuario \cup {NADIE},
           leida : SUBSET Usuario,              \* the list as read
           t : Nat,                             \* the second of the token
           vieja : Foto \cup {SINFOTO},         \* pathFotoPerfil as read
           nueva : Foto \cup {SINFOTO}]         \* pathFotoPerfil to be stored

LIBRE == [paso |-> "libre", u |-> NADIE, leida |-> {}, t |-> 0,
          vieja |-> SINFOTO, nueva |-> SINFOTO]

\* Types of the databases, of the threads and of the histories.
TypeOK ==
  /\ passwords \subseteq Usuario
  /\ perfiles \in [Usuario -> Foto \cup {SINFOTO, NADA}]
  /\ lista \subseteq Usuario
  /\ drives \subseteq Usuario
  /\ fotos \subseteq Usuario \X Foto
  /\ sesiones \subseteq Usuario \X Nat
  /\ reloj \in Nat
  /\ hilo \in [Hilo -> Pedido]
  /\ caido \in BOOLEAN
  /\ reinicios \in Nat
  /\ altas \in [Usuario -> Nat]
  /\ avisados \subseteq Usuario
  /\ entradas \in Nat /\ salidas \in Nat
  /\ cerrados \subseteq Usuario \X Nat

Init ==
  /\ passwords = {} /\ lista = {} /\ drives = {} /\ fotos = {} /\ sesiones = {}
  /\ perfiles = [u \in Usuario |-> NADA]
  /\ reloj = 0 /\ caido = FALSE /\ reinicios = 0
  /\ hilo = [h \in Hilo |-> LIBRE]
  /\ altas = [u \in Usuario |-> 0]
  /\ avisados = {} /\ cerrados = {} /\ entradas = 0 /\ salidas = 0

-----------------------------------------------------------------------------
(* Threads and databases *)

\* Thread h goes on with its request as r.
Seguir(h, r) == hilo' = [hilo EXCEPT ![h] = r]

Ir(h, paso) == Seguir(h, [hilo[h] EXCEPT !.paso = paso])

Terminar(h) == Seguir(h, LIBRE)

\* Thread h is free and takes a request; En: it is about to run a step.
Libre(h) == ~caido /\ hilo[h].paso = "libre"
En(h, paso) == ~caido /\ hilo[h].paso = paso

\* Mutant: put does not look for the key.
contieneNunca(base, k) == FALSE

\* The Get of BaseDeDatos::put: the key is taken.
contiene(base, k) == k \in base

conPerfil == {u \in Usuario : perfiles[u] # NADA}

-----------------------------------------------------------------------------
(* POST /profile: registrarUsuario, then crearUsuario *)

\* passwords->put: the Get.  A name that is taken is refused.
registrar(h, u) ==
  /\ Libre(h)
  /\ IF contiene(passwords, u)
     THEN UNCHANGED hilo
     ELSE Seguir(h, [LIBRE EXCEPT !.paso = "passwordPut", !.u = u])
  /\ UNCHANGED <<bases, proceso, avisos>>

\* Mutant: the name is listed before its profile is stored.
passwordPutYLista(h) ==
  /\ En(h, "passwordPut")
  /\ passwords' = passwords \cup {hilo[h].u}
  /\ Ir(h, "listaGet")
  /\ UNCHANGED <<perfiles, lista, drives, fotos, sesiones, proceso, avisos>>

\* passwords->put: the Put, whatever another thread put meanwhile.
passwordPut(h) ==
  /\ En(h, "passwordPut")
  /\ passwords' = passwords \cup {hilo[h].u}
  /\ Ir(h, "perfilGet")
  /\ UNCHANGED <<perfiles, lista, drives, fotos, sesiones, proceso, avisos>>

\* perfiles->put: the Get.
perfilGet(h) ==
  /\ En(h, "perfilGet")
  /\ IF contiene(conPerfil, hilo[h].u) THEN Terminar(h) ELSE Ir(h, "perfilPut")
  /\ UNCHANGED <<bases, proceso, avisos>>

\* perfiles->put: the Put.  The profile names the default picture.
perfilPut(h) ==
  /\ En(h, "perfilPut")
  /\ perfiles' = [perfiles EXCEPT ![hilo[h].u] = DEFECTO]
  /\ Ir(h, "listaGet")
  /\ UNCHANGED <<passwords, lista, drives, fotos, sesiones, proceso, avisos>>

\* perfiles->get(USERLIST): read, or KeyNotFound, which is caught.
listaGet(h) ==
  /\ En(h, "listaGet")
  /\ IF lista = {}
     THEN Ir(h, "listaPutGet")
     ELSE Seguir(h, [hilo[h] EXCEPT !.paso = "listaModify", !.leida = lista])
  /\ UNCHANGED <<bases, proceso, avisos>>

\* registrarUsuario returns true; crearUsuario comes next.
Registrado(h) ==
  /\ altas' = [altas EXCEPT ![hilo[h].u] = @ + 1]
  /\ Ir(h, "permisosGet")
  /\ UNCHANGED <<avisados, entradas, salidas, cerrados>>

\* Mutant: the new list is the new name.
ListaConSoloEl(leida, u) == {u}

\* The list that is written: the one read and the new name.
ListaCon(leida, u) == leida \cup {u}

\* perfiles->modify(USERLIST): what was read, with the name.
listaModify(h) ==
  /\ En(h, "listaModify")
  /\ lista' = ListaCon(hilo[h].leida, hilo[h].u)
  /\ Registrado(h)
  /\ UNCHANGED <<passwords, perfiles, drives, fotos, sesiones, proceso>>

\* Mutant: registrarUsuario returns what this put returns.
listaPutGetRechaza(h) ==
  /\ En(h, "listaPutGet")
  /\ IF lista = {} THEN Ir(h, "listaPut") ELSE Terminar(h)
  /\ UNCHANGED <<bases, proceso, avisos>>

\* perfiles->put(USERLIST): the Get.  When another thread has put the list,
\* put returns false, which nobody looks at: the name is not listed.
listaPutGet(h) ==
  /\ En(h, "listaPutGet")
  /\ IF lista = {}
     THEN Ir(h, "listaPut") /\ UNCHANGED avisos
     ELSE Registrado(h)
  /\ UNCHANGED <<bases, proceso>>

\* perfiles->put(USERLIST): the Put.
listaPut(h) ==
  /\ En(h, "listaPut")
  /\ lista' = {hilo[h].u}
  /\ Registrado(h)
  /\ UNCHANGED <<passwords, perfiles, drives, fotos, sesiones, proceso>>

\* agregarPermisosABD: the Get of its put.
permisosGet(h) ==
  /\ En(h, "permisosGet")
  /\ IF contiene(drives, hilo[h].u) THEN Terminar(h) ELSE Ir(h, "permisosPut")
  /\ UNCHANGED <<bases, proceso, avisos>>

\* agregarPermisosABD: the Put.
permisosPut(h) ==
  /\ En(h, "permisosPut")
  /\ drives' = drives \cup {hilo[h].u}
  /\ Ir(h, "carpetas")
  /\ UNCHANGED <<passwords, perfiles, lista, fotos, sesiones, proceso, avisos>>

\* The folders of the drive and the default picture; the request is answered.
carpetas(h) ==
  /\ En(h, "carpetas")
  /\ fotos' = fotos \cup {<<hilo[h].u, DEFECTO>>}
  /\ avisados' = avisados \cup {hilo[h].u}
  /\ Terminar(h)
  /\ UNCHANGED <<passwords, perfiles, lista, drives, sesiones, proceso,
                 altas, entradas, salidas, cerrados>>

-----------------------------------------------------------------------------
(* POST /session: validarLogin, then iniciarSesion *)

\* Logins that were begun and are not over.
EnCurso == {h \in Hilo : hilo[h].paso \in DeEntrada}

\* validarLogin finds the password (it never changes), iniciarSesion reads the
\* clock.
iniciarSesion(h, u) ==
  /\ Libre(h)
  /\ u \in passwords
  /\ entradas + Cardinality(EnCurso) < MaxEntradas
  /\ Seguir(h, [LIBRE EXCEPT !.paso = "tokenGet", !.u = u, !.t = reloj])
  /\ UNCHANGED <<bases, proceso, avisos>>

\* The token of the request: a hash of the username and the second.
Token(h) == <<hilo[h].u, hilo[h].t>>

\* sesiones->put: the Get.  A token that is taken sends the thread to sleep.
tokenGet(h) ==
  /\ En(h, "tokenGet")
  /\ Ir(h, IF contiene(sesiones, Token(h)) THEN "reintento" ELSE "tokenPut")
  /\ UNCHANGED <<bases, proceso, avisos>>

\* Mutant: the clock is read once, before the first try.
reintentarIgual(h) ==
  /\ En(h, "reintento")
  /\ Ir(h, "tokenGet")
  /\ UNCHANGED <<bases, proceso, avisos>>

\* After 100 ms iniciarSesion calls itself, which reads the clock again.
reintentar(h) ==
  /\ En(h, "reintento")
  /\ Seguir(h, [hilo[h] EXCEPT !.paso = "tokenGet", !.t = reloj])
  /\ UNCHANGED <<bases, proceso, avisos>>

\* sesiones->put: the Put; the token is sent.
tokenPut(h) ==
  /\ En(h, "tokenPut")
  /\ sesiones' = sesiones \cup {Token(h)}
  /\ entradas' = entradas + 1
  /\ Terminar(h)
  /\ UNCHANGED <<passwords, perfiles, lista, drives, fotos, proceso,
                 altas, avisados, salidas, cerrados>>

-----------------------------------------------------------------------------
(* DELETE /session: cerrarSesion *)

\* Mutant: the token is not looked up.
autenticarTokenSiempre(u, t) == t \in 0..reloj

\* The token is that of a session of u.
autenticarToken(u, t) == <<u, t>> \in sesiones

cerrarSesion(h, u, t) ==
  /\ Libre(h)
  /\ autenticarToken(u, t)
  /\ Seguir(h, [LIBRE EXCEPT !.paso = "eraseGet", !.u = u, !.t = t])
  /\ UNCHANGED <<bases, proceso, avisos>>

\* sesiones->erase: the Get.  A token that is gone throws KeyNotFound, which
\* neither the handler nor the server catches.
eraseGet(h) ==
  /\ En(h, "eraseGet")
  /\ IF Token(h) \in sesiones
     THEN Ir(h, "eraseDelete") /\ UNCHANGED caido
     ELSE caido' = TRUE /\ UNCHANGED hilo
  /\ UNCHANGED <<bases, reloj, reinicios, avisos>>

\* sesiones->erase: the Delete; the request is answered.
eraseDelete(h) ==
  /\ En(h, "eraseDelete")
  /\ sesiones' = sesiones \ {Token(h)}
  /\ salidas' = salidas + 1
  /\ cerrados' = cerrados \cup {Token(h)}
  /\ Terminar(h)
  /\ UNCHANGED <<passwords, perfiles, lista, drives, fotos, proceso,
                 altas, avisados, entradas>>

-----------------------------------------------------------------------------
(* PUT /profile, and the position an upload stores in the profile *)

\* Mutant: the profile is taken to exist.
PerfilSupuesto(u) == perfiles[u]

\* The picture in the profile, as deserialised: empty when there is no profile.
PerfilLeido(u) == IF u \in conPerfil THEN perfiles[u] ELSE SINFOTO

\* PUT /profile without a picture: the rest of the profile is changed.
modificarDatos(h, u, t) ==
  /\ Libre(h)
  /\ autenticarToken(u, t)
  /\ Seguir(h, [LIBRE EXCEPT !.paso = "perfilModify", !.u = u,
                             !.nueva = PerfilLeido(u)])
  /\ UNCHANGED <<bases, proceso, avisos>>

\* An upload, whose token was authenticated some time ago, reads the profile of
\* the user to store his position in it.
actualizarUltimaUbicacion(h, u) ==
  /\ Libre(h)
  /\ \E tok \in sesiones \cup cerrados : tok[1] = u
  /\ Seguir(h, [LIBRE EXCEPT !.paso = "perfilModify", !.u = u,
                             !.nueva = PerfilLeido(u)])
  /\ UNCHANGED <<bases, proceso, avisos>>

\* PUT /profile with a picture of extension e.
modificarFoto(h, u, t, e) ==
  /\ Libre(h)
  /\ autenticarToken(u, t)
  /\ Seguir(h, [LIBRE EXCEPT !.paso = "fotoBorrar", !.u = u,
                             !.vieja = PerfilLeido(u), !.nueva = e])
  /\ UNCHANGED <<bases, proceso, avisos>>

\* actualizarFotoPerfil: the old picture is removed ...
fotoBorrar(h) ==
  /\ En(h, "fotoBorrar")
  /\ fotos' = fotos \ {<<hilo[h].u, hilo[h].vieja>>}
  /\ Ir(h, "fotoGuardar")
  /\ UNCHANGED <<passwords, perfiles, lista, drives, sesiones, proceso, avisos>>

\* ... and the new one written.
fotoGuardar(h) ==
  /\ En(h, "fotoGuardar")
  /\ fotos' = fotos \cup {<<hilo[h].u, hilo[h].nueva>>}
  /\ Ir(h, "perfilModify")
  /\ UNCHANGED <<passwords, perfiles, lista, drives, sesiones, proceso, avisos>>

\* Mutant: the profile keeps the picture it had.
perfilModifyViejo(h) ==
  /\ En(h, "perfilModify")
  /\ Terminar(h)
  /\ UNCHANGED <<bases, proceso, avisos>>

\* modifyPerfil: the whole profile is written, if there is one.
perfilModify(h) ==
  /\ En(h, "perfilModify")
  /\ perfiles' = IF hilo[h].u \in conPerfil
                 THEN [perfiles EXCEPT ![hilo[h].u] = hilo[h].nueva]
                 ELSE perfiles
  /\ Terminar(h)
  /\ UNCHANGED <<passwords, lista, drives, fotos, sesiones, proceso, avisos>>

-----------------------------------------------------------------------------
(* The clock, crashes, the specification *)

\* A second passes.  Seconds that no token has are all alike, so the clock only
\* leaves one that a token has, or that a thread has read.
Segundero ==
  /\ \/ \E u \in Usuario : <<u, reloj>> \in sesiones \cup cerrados
     \/ \E h \in EnCurso : hilo[h].t = reloj
  /\ reloj' = reloj + 1
  /\ UNCHANGED <<bases, hilo, caido, reinicios, avisos>>

\* The process is killed, or is dead, and is started again.
Reiniciar ==
  /\ reinicios < MaxReinicios
  /\ reinicios' = reinicios + 1
  /\ hilo' = [h \in Hilo |-> LIBRE]
  /\ caido' = FALSE
  /\ UNCHANGED <<bases, reloj, avisos>>

\* What the clients ask of a free thread.
Pedir(h) ==
  \E u \in Usuario :
    \/ registrar(h, u)
    \/ iniciarSesion(h, u)
    \/ actualizarUltimaUbicacion(h, u)
    \/ \E t \in 0..reloj : \/ cerrarSesion(h, u, t)
                           \/ modificarDatos(h, u, t)
                           \/ \E e \in Foto : modificarFoto(h, u, t, e)

\* A busy thread runs its next step.
Paso(h) ==
  \/ passwordPut(h) \/ perfilGet(h) \/ perfilPut(h)
  \/ listaGet(h) \/ listaModify(h) \/ listaPutGet(h) \/ listaPut(h)
  \/ permisosGet(h) \/ permisosPut(h) \/ carpetas(h)
  \/ tokenGet(h) \/ reintentar(h) \/ tokenPut(h)
  \/ eraseGet(h) \/ eraseDelete(h)
  \/ fotoBorrar(h) \/ fotoGuardar(h) \/ perfilModify(h)

Next ==
  \/ \E h \in Hilo : Pedir(h) \/ Paso(h)
  \/ Segundero
  \/ Reiniciar

Spec == Init /\ [][Next]_vars

\* The operating system runs every thread and time goes on; clients need not
\* ask for anything.
FairSpec == Spec /\ (\A h \in Hilo : WF_vars(Paso(h))) /\ WF_vars(Segundero)

-----------------------------------------------------------------------------
(* Safety *)

\* registrarUsuario and crearUsuario fill the databases in one order, so what
\* exists in a later one exists in the earlier ones, through any interleaving
\* and any crash; a client told that he is registered has all of it, and only
\* a user with a password ever has a session.
AltaOrdenada ==
  /\ lista \cup drives \subseteq conPerfil
  /\ conPerfil \subseteq passwords
  /\ avisados \subseteq drives
  /\ \A tok \in sesiones \cup cerrados : tok[1] \in passwords

\* A registration is being run for u.
DandoDeAlta(u) == \E h \in Hilo : hilo[h].u = u /\ hilo[h].paso \in DeAlta

\* However many registrations of one name run at once, when they are over the
\* name has a profile and a drive: one of them goes all the way, unless a crash
\* stopped it.
AltaEntera ==
  reinicios = 0 =>
    \A u \in passwords : DandoDeAlta(u) \/ (u \in conPerfil /\ u \in drives)

\* registrarUsuario says yes to a name once: "ante usernames ya existentes"
\* it returns false.
UnaAlta == \A u \in Usuario : altas[u] <= 1

\* Everyone who was told that he is registered is in the list that
\* buscarUsuariosCon searches.
ListaCompleta == avisados \subseteq lista

\* Between requests on it, a user with a drive has one picture on disk, the one
\* his profile names: actualizarFotoPerfil removed the others.  A crash between
\* the two writes undoes it.
FotoDelPerfil ==
  reinicios = 0 =>
    \A u \in drives : \/ \E h \in Hilo : hilo[h].u = u
                      \/ {e \in Foto : <<u, e>> \in fotos} = {perfiles[u]}

\* Each login that was answered and not closed has a token of its own.
UnTokenPorSesion == entradas = salidas + Cardinality(sesiones)

\* The erase of cerrarSesion finds the token it authenticated; no request
\* ends the process.
NuncaLanza == ~caido

(* Liveness *)

\* Every request is answered, unless the process dies; for a login, the thread
\* that waits for a second with no token finds one.
TodoTermina ==
  \A h \in Hilo : hilo[h].paso # "libre" ~> (hilo[h].paso = "libre" \/ caido)
=============================================================================
