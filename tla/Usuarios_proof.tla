--------------------------- MODULE Usuarios_proof ---------------------------
(* Proofs about Usuarios, for any users, threads, logins and restarts. *)
EXTENDS Usuarios, FiniteSetTheorems, TLAPS

-----------------------------------------------------------------------------
(* The invariant: what a thread has done before the step it is about to run *)

TrasPerfil == {"listaGet", "listaModify", "listaPutGet", "listaPut",
               "permisosGet", "permisosPut", "carpetas"}
ConClave == (DeAlta \ {"passwordPut"}) \cup DeEntrada \cup {"eraseGet", "eraseDelete"}

HiloBien(r, claves, conPerf, conDrive) ==
  /\ r.paso # "libre" => r.u \in Usuario
  /\ r.paso \in ConClave => r.u \in claves
  /\ r.paso \in TrasPerfil => r.u \in conPerf
  /\ r.paso = "carpetas" => r.u \in conDrive
  /\ r.paso \in {"fotoBorrar", "fotoGuardar"} => r.nueva \in Foto
  /\ r.leida \subseteq conPerf

InvHilos == \A h \in Hilo : HiloBien(hilo[h], passwords, conPerfil, drives)

Inv == TypeOK /\ InvHilos /\ AltaOrdenada

\* Passwords, profiles and drives are only added.
Crece == passwords \subseteq passwords' /\ conPerfil \subseteq conPerfil' /\ drives \subseteq drives'

\* A step of one thread leaves what holds of the others.
LEMMA OtrosHilos ==
  ASSUME TypeOK, InvHilos, Crece, NEW h \in Hilo, NEW r \in Pedido,
         HiloBien(r, passwords', conPerfil', drives'), Seguir(h, r)
  PROVE  hilo' \in [Hilo -> Pedido] /\ InvHilos'
<1>1. hilo \in [Hilo -> Pedido]
  BY DEF TypeOK
<1>2. hilo' = [hilo EXCEPT ![h] = r]
  BY DEF Seguir
<1>3. hilo' \in [Hilo -> Pedido]
  BY <1>1, <1>2
<1>4. ASSUME NEW g \in Hilo PROVE HiloBien(hilo'[g], passwords', conPerfil', drives')
  <2>1. CASE g = h
    BY <1>1, <1>2, <2>1
  <2>2. CASE g # h
    <3>1. hilo'[g] = hilo[g]
      BY <1>1, <1>2, <2>2
    <3>2. HiloBien(hilo[g], passwords, conPerfil, drives)
      BY DEF InvHilos
    <3> QED
      BY <3>1, <3>2 DEF HiloBien, Crece
  <2> QED
    BY <2>1, <2>2
<1> QED
  BY <1>3, <1>4 DEF InvHilos

\* A free thread, and a thread whose request is over, owe nothing.
LEMMA LibreBien ==
  LIBRE \in Pedido /\ \A P, C, D : HiloBien(LIBRE, P, C, D)
BY DEF LIBRE, Pedido, Pasos, HiloBien, TrasPerfil, ConClave, DeAlta, DeEntrada, SINFOTO

\* The thread terminates its request.
LEMMA TerminarBien ==
  ASSUME TypeOK, InvHilos, Crece, NEW h \in Hilo, Terminar(h)
  PROVE  hilo' \in [Hilo -> Pedido] /\ InvHilos'
BY LibreBien, OtrosHilos DEF Terminar

\* The thread goes on to another step of its request.
LEMMA IrBien ==
  ASSUME TypeOK, InvHilos, Crece, NEW h \in Hilo, NEW paso \in Pasos, Ir(h, paso),
         hilo[h].u \in Usuario,
         paso \in ConClave => hilo[h].u \in passwords',
         paso \in TrasPerfil => hilo[h].u \in conPerfil',
         paso = "carpetas" => hilo[h].u \in drives',
         paso \in {"fotoBorrar", "fotoGuardar"} => hilo[h].nueva \in Foto
  PROVE  hilo' \in [Hilo -> Pedido] /\ InvHilos'
<1> DEFINE r == [hilo[h] EXCEPT !.paso = paso]
<1>1. hilo[h] \in Pedido /\ hilo[h].leida \subseteq conPerfil
  BY DEF TypeOK, InvHilos, HiloBien
<1>2. r \in Pedido /\ r.paso = paso /\ r.u = hilo[h].u /\ r.nueva = hilo[h].nueva /\ r.leida = hilo[h].leida
  BY <1>1 DEF Pedido
<1>3. HiloBien(r, passwords', conPerfil', drives')
  BY <1>1, <1>2 DEF HiloBien, Crece
<1>4. Seguir(h, r)
  BY DEF Ir
<1> HIDE DEF r
<1> QED
  BY <1>2, <1>3, <1>4, OtrosHilos

-----------------------------------------------------------------------------
(* Every step keeps the invariant *)

\* What a busy thread knows of its request.
LEMMA DeUnPaso ==
  ASSUME Inv, NEW h \in Hilo
  PROVE  /\ hilo[h] \in Pedido
         /\ hilo[h].paso # "libre" => hilo[h].u \in Usuario
         /\ hilo[h].paso \in ConClave => hilo[h].u \in passwords
         /\ hilo[h].paso \in TrasPerfil => hilo[h].u \in conPerfil
         /\ hilo[h].paso = "carpetas" => hilo[h].u \in drives
         /\ hilo[h].paso \in {"fotoBorrar", "fotoGuardar"} => hilo[h].nueva \in Foto
         /\ hilo[h].leida \subseteq conPerfil
         /\ hilo[h].leida \subseteq Usuario /\ hilo[h].t \in Nat
         /\ hilo[h].nueva \in Foto \cup {SINFOTO}
BY DEF Inv, TypeOK, InvHilos, HiloBien, Pedido

\* A thread that only reads: its next step and nothing else changes.
LEMMA SoloHilo ==
  ASSUME Inv, UNCHANGED <<bases, proceso, avisos>>,
         hilo' \in [Hilo -> Pedido] /\ InvHilos'
  PROVE  Inv'
BY DEF Inv, TypeOK, AltaOrdenada, bases, proceso, avisos, conPerfil

LEMMA SinCambioCrece == ASSUME UNCHANGED bases PROVE Crece
BY DEF bases, Crece, conPerfil

LEMMA PedirInv == ASSUME Inv, NEW h \in Hilo, Pedir(h) PROVE Inv'
<1> USE DEF LIBRE
<1>0. TypeOK /\ InvHilos /\ AltaOrdenada
  BY DEF Inv
<1>1. PICK u \in Usuario :
        \/ registrar(h, u)
        \/ iniciarSesion(h, u)
        \/ actualizarUltimaUbicacion(h, u)
        \/ \E t \in 0..reloj : \/ cerrarSesion(h, u, t)
                               \/ modificarDatos(h, u, t)
                               \/ \E e \in Foto : modificarFoto(h, u, t, e)
  BY DEF Pedir
<1> DEFINE leido == PerfilLeido(u)
           r1 == [LIBRE EXCEPT !.paso = "passwordPut", !.u = u]
           r2 == [LIBRE EXCEPT !.paso = "tokenGet", !.u = u, !.t = reloj]
           r3 == [LIBRE EXCEPT !.paso = "perfilModify", !.u = u, !.nueva = PerfilLeido(u)]
           r4(t) == [LIBRE EXCEPT !.paso = "eraseGet", !.u = u, !.t = t]
           r5(e) == [LIBRE EXCEPT !.paso = "fotoBorrar", !.u = u, !.vieja = PerfilLeido(u), !.nueva = e]
<1>2. UNCHANGED <<bases, proceso, avisos>>
  BY <1>1 DEF registrar, iniciarSesion, actualizarUltimaUbicacion, cerrarSesion, modificarDatos, modificarFoto
<1>3. Crece
  BY <1>2, SinCambioCrece DEF bases
<1>4. passwords' = passwords /\ conPerfil' = conPerfil /\ drives' = drives
  BY <1>2 DEF bases, conPerfil
<1>5. leido \in Foto \cup {SINFOTO}
  BY <1>0 DEF PerfilLeido, TypeOK, conPerfil
<1> HIDE DEF leido
<1> USE DEF Pedido, Pasos, HiloBien, ConClave, TrasPerfil, DeAlta, DeEntrada
<1>6. CASE registrar(h, u)
  <2>1. CASE UNCHANGED hilo
    BY <1>0, <1>2, <1>4, <2>1, SoloHilo DEF InvHilos, TypeOK
  <2>2. CASE Seguir(h, r1)
    <3>1. r1 \in Pedido /\ HiloBien(r1, passwords', conPerfil', drives')
      OBVIOUS
    <3> QED
      BY <1>0, <1>2, <1>3, <2>2, <3>1, OtrosHilos, SoloHilo
  <2> QED
    BY <1>6, <2>1, <2>2 DEF registrar
<1>7. CASE iniciarSesion(h, u)
  <2>1. r2 \in Pedido /\ HiloBien(r2, passwords', conPerfil', drives') /\ Seguir(h, r2)
    BY <1>0, <1>4, <1>7 DEF iniciarSesion, TypeOK
  <2> QED
    BY <1>0, <1>2, <1>3, <2>1, OtrosHilos, SoloHilo
<1>8. CASE actualizarUltimaUbicacion(h, u)
  <2>1. Seguir(h, r3)
    BY <1>8 DEF actualizarUltimaUbicacion
  <2>2. r3 \in Pedido /\ HiloBien(r3, passwords', conPerfil', drives')
    BY <1>5 DEF leido
  <2> QED
    BY <1>0, <1>2, <1>3, <2>1, <2>2, OtrosHilos, SoloHilo
<1>9. ASSUME NEW t \in 0..reloj, cerrarSesion(h, u, t) PROVE Inv'
  <2>1. <<u, t>> \in sesiones /\ Seguir(h, r4(t))
    BY <1>9 DEF cerrarSesion, autenticarToken
  <2>2. u \in passwords /\ t \in Nat
    BY <1>0, <2>1 DEF AltaOrdenada, TypeOK
  <2>3. r4(t) \in Pedido /\ HiloBien(r4(t), passwords', conPerfil', drives')
    BY <1>4, <2>2
  <2> QED
    BY <1>0, <1>2, <1>3, <2>1, <2>3, OtrosHilos, SoloHilo
<1>10. ASSUME NEW t \in 0..reloj, modificarDatos(h, u, t) PROVE Inv'
  <2>1. Seguir(h, r3)
    BY <1>10 DEF modificarDatos
  <2>2. r3 \in Pedido /\ HiloBien(r3, passwords', conPerfil', drives')
    BY <1>5 DEF leido
  <2> QED
    BY <1>0, <1>2, <1>3, <2>1, <2>2, OtrosHilos, SoloHilo
<1>11. ASSUME NEW t \in 0..reloj, NEW e \in Foto, modificarFoto(h, u, t, e) PROVE Inv'
  <2>1. Seguir(h, r5(e))
    BY <1>11 DEF modificarFoto
  <2>2. r5(e) \in Pedido /\ HiloBien(r5(e), passwords', conPerfil', drives')
    BY <1>5 DEF leido
  <2> QED
    BY <1>0, <1>2, <1>3, <2>1, <2>2, OtrosHilos, SoloHilo
<1> QED
  BY <1>1, <1>6, <1>7, <1>8, <1>9, <1>10, <1>11

LEMMA PasoInv == ASSUME Inv, NEW h \in Hilo, Paso(h) PROVE Inv'
<1>0. TypeOK /\ InvHilos /\ AltaOrdenada
  BY DEF Inv
<1> DEFINE r == hilo[h]
<1>1. /\ r \in Pedido /\ r.paso \in Pasos /\ r.leida \subseteq Usuario /\ r.t \in Nat
      /\ r.nueva \in Foto \cup {SINFOTO}
      /\ r.paso # "libre" => r.u \in Usuario
      /\ r.paso \in ConClave => r.u \in passwords
      /\ r.paso \in TrasPerfil => r.u \in conPerfil
      /\ r.paso = "carpetas" => r.u \in drives
      /\ r.paso \in {"fotoBorrar", "fotoGuardar"} => r.nueva \in Foto
      /\ r.leida \subseteq conPerfil
  BY DeUnPaso DEF Pedido
<1> USE DEF Pasos, ConClave, TrasPerfil, DeAlta, DeEntrada, En
\* The types and the order of the databases, when the threads are as they should.
<1>2. ASSUME hilo' \in [Hilo -> Pedido] /\ InvHilos',
             passwords' \subseteq Usuario, perfiles' \in [Usuario -> Foto \cup {SINFOTO, NADA}],
             lista' \subseteq Usuario, drives' \subseteq Usuario,
             fotos' \subseteq Usuario \X Foto, sesiones' \subseteq Usuario \X Nat,
             UNCHANGED <<reloj, reinicios>>, caido' \in BOOLEAN,
             altas' \in [Usuario -> Nat], avisados' \subseteq Usuario,
             entradas' \in Nat, salidas' \in Nat, cerrados' \subseteq Usuario \X Nat,
             AltaOrdenada'
      PROVE  Inv'
  BY <1>0, <1>2 DEF Inv, TypeOK
<1>3. CASE passwordPut(h)
  <2>1. r.u \in Usuario /\ Ir(h, "perfilGet") /\ passwords' = passwords \cup {r.u}
    BY <1>1, <1>3 DEF passwordPut
  <2>2. UNCHANGED <<perfiles, lista, drives, fotos, sesiones, proceso, avisos>>
    BY <1>3 DEF passwordPut
  <2>3. Crece
    BY <2>1, <2>2 DEF Crece, conPerfil
  <2>4. hilo' \in [Hilo -> Pedido] /\ InvHilos'
    BY <1>0, <1>1, <2>1, <2>3, IrBien
  <2>5. AltaOrdenada'
    BY <1>0, <2>1, <2>2 DEF AltaOrdenada, conPerfil, avisos
  <2> QED
    BY <1>0, <1>2, <2>1, <2>2, <2>4, <2>5 DEF TypeOK, proceso, avisos
<1>4. CASE perfilGet(h)
  <2>1. r.u \in passwords /\ r.u \in Usuario /\ UNCHANGED <<bases, proceso, avisos>>
    BY <1>1, <1>4 DEF perfilGet
  <2>2. Crece /\ passwords' = passwords
    BY <2>1, SinCambioCrece DEF bases
  <2>3. CASE Terminar(h)
    BY <1>0, <2>1, <2>2, <2>3, TerminarBien, SoloHilo
  <2>4. CASE Ir(h, "perfilPut")
    <3>1. hilo' \in [Hilo -> Pedido] /\ InvHilos'
      BY <1>0, <2>1, <2>2, <2>4, IrBien
    <3> QED
      BY <2>1, <3>1, SoloHilo
  <2> QED
    BY <1>4, <2>3, <2>4 DEF perfilGet
<1>5. CASE perfilPut(h)
  <2>1. r.u \in passwords /\ r.u \in Usuario /\ Ir(h, "listaGet")
        /\ perfiles' = [perfiles EXCEPT ![r.u] = DEFECTO]
    BY <1>1, <1>5 DEF perfilPut
  <2>2. UNCHANGED <<passwords, lista, drives, fotos, sesiones, proceso, avisos>>
    BY <1>5 DEF perfilPut
  <2>3. conPerfil' = conPerfil \cup {r.u} /\ perfiles' \in [Usuario -> Foto \cup {SINFOTO, NADA}]
    BY <1>0, <2>1 DEF conPerfil, TypeOK, DEFECTO, NADA, Foto
  <2>4. Crece
    BY <2>2, <2>3 DEF Crece
  <2>5. hilo' \in [Hilo -> Pedido] /\ InvHilos'
    BY <1>0, <2>1, <2>2, <2>3, <2>4, IrBien
  <2>6. AltaOrdenada'
    BY <1>0, <2>1, <2>2, <2>3 DEF AltaOrdenada, avisos
  <2> QED
    BY <1>0, <1>2, <2>2, <2>3, <2>5, <2>6 DEF TypeOK, proceso, avisos
<1>6. CASE listaGet(h)
  <2>1. r.u \in conPerfil /\ r.u \in passwords /\ r.u \in Usuario /\ UNCHANGED <<bases, proceso, avisos>>
    BY <1>1, <1>6 DEF listaGet
  <2>2. Crece /\ passwords' = passwords /\ conPerfil' = conPerfil /\ drives' = drives
    BY <2>1, SinCambioCrece DEF bases, conPerfil
  <2>3. CASE Ir(h, "listaPutGet")
    <3>1. hilo' \in [Hilo -> Pedido] /\ InvHilos'
      BY <1>0, <2>1, <2>2, <2>3, IrBien
    <3> QED
      BY <2>1, <3>1, SoloHilo
  <2>4. CASE Seguir(h, [r EXCEPT !.paso = "listaModify", !.leida = lista])
    <3> DEFINE q == [r EXCEPT !.paso = "listaModify", !.leida = lista]
    <3>1. lista \subseteq conPerfil /\ lista \subseteq Usuario
      BY <1>0 DEF AltaOrdenada, TypeOK
    <3>2. q \in Pedido /\ HiloBien(q, passwords', conPerfil', drives')
      BY <1>1, <2>1, <2>2, <3>1 DEF Pedido, HiloBien
    <3> HIDE DEF q
    <3>3. hilo' \in [Hilo -> Pedido] /\ InvHilos'
      BY <1>0, <2>2, <2>4, <3>2, OtrosHilos DEF q
    <3> QED
      BY <2>1, <3>3, SoloHilo
  <2> QED
    BY <1>6, <2>3, <2>4 DEF listaGet
\* registrarUsuario returns true, with the databases the action leaves.
<1>7. ASSUME Registrado(h), Crece, r.u \in passwords', r.u \in Usuario, r.u \in conPerfil'
      PROVE  /\ hilo' \in [Hilo -> Pedido] /\ InvHilos'
             /\ altas' \in [Usuario -> Nat]
             /\ UNCHANGED <<avisados, entradas, salidas, cerrados>>
  <2>1. Ir(h, "permisosGet") /\ altas' = [altas EXCEPT ![r.u] = @ + 1]
        /\ UNCHANGED <<avisados, entradas, salidas, cerrados>>
    BY <1>7 DEF Registrado
  <2>2. altas' \in [Usuario -> Nat]
    <3>1. altas \in [Usuario -> Nat] /\ altas[r.u] + 1 \in Nat
      BY <1>0, <1>7 DEF TypeOK
    <3> HIDE DEF r
    <3> QED
      BY <2>1, <3>1
  <2> QED
    BY <1>0, <1>7, <2>1, <2>2, IrBien
\* A step of registrarUsuario that writes the list and returns true.
<1>8. ASSUME Registrado(h), r.u \in conPerfil, r.u \in passwords, r.u \in Usuario,
             lista' \subseteq conPerfil, lista' \subseteq Usuario,
             UNCHANGED <<passwords, perfiles, drives, fotos, sesiones, proceso>>
      PROVE  Inv'
  <2>1. Crece /\ passwords' = passwords /\ conPerfil' = conPerfil /\ drives' = drives
    BY <1>8 DEF Crece, conPerfil
  <2>2. /\ hilo' \in [Hilo -> Pedido] /\ InvHilos'
        /\ altas' \in [Usuario -> Nat]
        /\ UNCHANGED <<avisados, entradas, salidas, cerrados>>
    BY <1>7, <1>8, <2>1
  <2>3. AltaOrdenada'
    BY <1>0, <1>8, <2>1, <2>2 DEF AltaOrdenada
  <2> QED
    BY <1>0, <1>2, <1>8, <2>2, <2>3 DEF TypeOK, proceso
<1>9. CASE listaModify(h)
  <2>1. r.u \in conPerfil /\ r.u \in passwords /\ r.u \in Usuario
    BY <1>1, <1>9 DEF listaModify
  <2>2. lista' = r.leida \cup {r.u}
    BY <1>9 DEF listaModify, ListaCon
  <2> QED
    BY <1>1, <1>8, <1>9, <2>1, <2>2 DEF listaModify
<1>10. CASE listaPutGet(h)
  <2>1. r.u \in conPerfil /\ r.u \in passwords /\ r.u \in Usuario /\ UNCHANGED <<bases, proceso>>
    BY <1>1, <1>10 DEF listaPutGet
  <2>2. CASE Registrado(h)
    <3>1. lista \subseteq conPerfil /\ lista \subseteq Usuario
      BY <1>0 DEF AltaOrdenada, TypeOK
    <3> QED
      BY <1>8, <2>1, <2>2, <3>1 DEF bases
  <2>3. CASE Ir(h, "listaPut") /\ UNCHANGED avisos
    <3>1. Crece /\ passwords' = passwords /\ conPerfil' = conPerfil
      BY <2>1, SinCambioCrece DEF bases, conPerfil
    <3>2. hilo' \in [Hilo -> Pedido] /\ InvHilos'
      BY <1>0, <2>1, <2>3, <3>1, IrBien
    <3> QED
      BY <2>1, <2>3, <3>2, SoloHilo
  <2> QED
    BY <1>10, <2>2, <2>3 DEF listaPutGet
<1>11. CASE listaPut(h)
  <2>1. r.u \in conPerfil /\ r.u \in passwords /\ r.u \in Usuario /\ lista' = {r.u}
    BY <1>1, <1>11 DEF listaPut
  <2> QED
    BY <1>8, <1>11, <2>1 DEF listaPut
<1>12. CASE permisosGet(h)
  <2>1. /\ r.u \in conPerfil /\ r.u \in passwords /\ r.u \in Usuario
        /\ UNCHANGED <<bases, proceso, avisos>>
    BY <1>1, <1>12 DEF permisosGet
  <2>2. Crece /\ passwords' = passwords /\ conPerfil' = conPerfil
    BY <2>1, SinCambioCrece DEF bases, conPerfil
  <2>3. CASE Terminar(h)
    BY <1>0, <2>1, <2>2, <2>3, TerminarBien, SoloHilo
  <2>4. CASE Ir(h, "permisosPut")
    <3>1. hilo' \in [Hilo -> Pedido] /\ InvHilos'
      BY <1>0, <2>1, <2>2, <2>4, IrBien
    <3> QED
      BY <2>1, <3>1, SoloHilo
  <2> QED
    BY <1>12, <2>3, <2>4 DEF permisosGet
<1>13. CASE permisosPut(h)
  <2>1. /\ r.u \in conPerfil /\ r.u \in passwords /\ r.u \in Usuario
        /\ drives' = drives \cup {r.u} /\ Ir(h, "carpetas")
        /\ UNCHANGED <<passwords, perfiles, lista, fotos, sesiones, proceso, avisos>>
    BY <1>1, <1>13 DEF permisosPut
  <2>2. Crece /\ passwords' = passwords /\ conPerfil' = conPerfil
    BY <2>1 DEF Crece, conPerfil
  <2>3. hilo' \in [Hilo -> Pedido] /\ InvHilos'
    BY <1>0, <2>1, <2>2, IrBien
  <2>4. AltaOrdenada'
    BY <1>0, <2>1, <2>2 DEF AltaOrdenada, avisos
  <2> QED
    BY <1>0, <1>2, <2>1, <2>3, <2>4 DEF TypeOK, proceso, avisos
<1>14. CASE carpetas(h)
  <2>1. /\ r.u \in drives /\ r.u \in Usuario /\ Terminar(h)
        /\ fotos' = fotos \cup {<<r.u, DEFECTO>>} /\ avisados' = avisados \cup {r.u}
        /\ UNCHANGED <<passwords, perfiles, lista, drives, sesiones, proceso,
                       altas, entradas, salidas, cerrados>>
    BY <1>1, <1>14 DEF carpetas
  <2>2. Crece /\ passwords' = passwords /\ conPerfil' = conPerfil
    BY <2>1 DEF Crece, conPerfil
  <2>3. hilo' \in [Hilo -> Pedido] /\ InvHilos'
    BY <1>0, <2>1, <2>2, TerminarBien
  <2>4. AltaOrdenada'
    BY <1>0, <2>1, <2>2 DEF AltaOrdenada
  <2>5. fotos' \subseteq Usuario \X Foto /\ avisados' \subseteq Usuario
    BY <1>0, <2>1 DEF TypeOK, DEFECTO, Foto
  <2> QED
    BY <1>0, <1>2, <2>1, <2>3, <2>4, <2>5 DEF TypeOK, proceso
<1>15. CASE tokenGet(h)
  <2>1. r.u \in passwords /\ r.u \in Usuario /\ UNCHANGED <<bases, proceso, avisos>>
    BY <1>1, <1>15 DEF tokenGet
  <2>2. Crece /\ passwords' = passwords
    BY <2>1, SinCambioCrece DEF bases
  <2>3. PICK paso \in {"reintento", "tokenPut"} : Ir(h, paso)
    BY <1>15 DEF tokenGet
  <2>4. hilo' \in [Hilo -> Pedido] /\ InvHilos'
    BY <1>0, <2>1, <2>2, <2>3, IrBien
  <2> QED
    BY <2>1, <2>4, SoloHilo
<1>16. CASE reintentar(h)
  <2> DEFINE q == [r EXCEPT !.paso = "tokenGet", !.t = reloj]
  <2>1. r.u \in passwords /\ r.u \in Usuario /\ UNCHANGED <<bases, proceso, avisos>> /\ Seguir(h, q)
    BY <1>1, <1>16 DEF reintentar
  <2>2. Crece /\ passwords' = passwords /\ conPerfil' = conPerfil
    BY <2>1, SinCambioCrece DEF bases, conPerfil
  <2>3. reloj \in Nat
    BY <1>0 DEF TypeOK
  <2>4. q \in Pedido /\ HiloBien(q, passwords', conPerfil', drives')
    BY <1>1, <2>1, <2>2, <2>3 DEF Pedido, HiloBien
  <2> HIDE DEF q
  <2>5. hilo' \in [Hilo -> Pedido] /\ InvHilos'
    BY <1>0, <2>1, <2>2, <2>4, OtrosHilos
  <2> QED
    BY <2>1, <2>5, SoloHilo
<1>17. CASE tokenPut(h)
  <2>1. /\ r.u \in passwords /\ r.u \in Usuario /\ Terminar(h)
        /\ sesiones' = sesiones \cup {<<r.u, r.t>>} /\ entradas' = entradas + 1
        /\ UNCHANGED <<passwords, perfiles, lista, drives, fotos, proceso,
                       altas, avisados, salidas, cerrados>>
    BY <1>1, <1>17 DEF tokenPut, Token
  <2>2. Crece /\ passwords' = passwords /\ conPerfil' = conPerfil
    BY <2>1 DEF Crece, conPerfil
  <2>3. hilo' \in [Hilo -> Pedido] /\ InvHilos'
    BY <1>0, <2>1, <2>2, TerminarBien
  <2>4. AltaOrdenada'
    BY <1>0, <2>1, <2>2 DEF AltaOrdenada
  <2>5. sesiones' \subseteq Usuario \X Nat /\ entradas' \in Nat
    BY <1>0, <1>1, <2>1 DEF TypeOK
  <2> QED
    BY <1>0, <1>2, <2>1, <2>3, <2>4, <2>5 DEF TypeOK, proceso
<1>18. CASE eraseGet(h)
  <2>1. r.u \in passwords /\ r.u \in Usuario /\ UNCHANGED <<bases, reloj, reinicios, avisos>>
    BY <1>1, <1>18 DEF eraseGet
  <2>2. Crece /\ passwords' = passwords /\ conPerfil' = conPerfil /\ drives' = drives
    BY <2>1, SinCambioCrece DEF bases, conPerfil
  <2>3. CASE caido' = TRUE /\ UNCHANGED hilo
    BY <1>0, <2>1, <2>2, <2>3 DEF Inv, TypeOK, InvHilos, AltaOrdenada, bases, avisos
  <2>4. CASE Ir(h, "eraseDelete") /\ UNCHANGED caido
    <3>1. hilo' \in [Hilo -> Pedido] /\ InvHilos'
      BY <1>0, <2>1, <2>2, <2>4, IrBien
    <3> QED
      BY <2>1, <2>4, <3>1, SoloHilo DEF proceso
  <2> QED
    BY <1>18, <2>3, <2>4 DEF eraseGet
<1>19. CASE eraseDelete(h)
  <2>1. /\ r.u \in passwords /\ r.u \in Usuario /\ Terminar(h)
        /\ sesiones' = sesiones \ {<<r.u, r.t>>} /\ salidas' = salidas + 1
        /\ cerrados' = cerrados \cup {<<r.u, r.t>>}
        /\ UNCHANGED <<passwords, perfiles, lista, drives, fotos, proceso,
                       altas, avisados, entradas>>
    BY <1>1, <1>19 DEF eraseDelete, Token
  <2>2. Crece /\ passwords' = passwords /\ conPerfil' = conPerfil
    BY <2>1 DEF Crece, conPerfil
  <2>3. hilo' \in [Hilo -> Pedido] /\ InvHilos'
    BY <1>0, <2>1, <2>2, TerminarBien
  <2>4. AltaOrdenada'
    BY <1>0, <2>1, <2>2 DEF AltaOrdenada
  <2>5. sesiones' \subseteq Usuario \X Nat /\ cerrados' \subseteq Usuario \X Nat /\ salidas' \in Nat
    BY <1>0, <1>1, <2>1 DEF TypeOK
  <2> QED
    BY <1>0, <1>2, <2>1, <2>3, <2>4, <2>5 DEF TypeOK, proceso
\* A step that changes the pictures on disk.
<1>20. ASSUME fotos' \subseteq Usuario \X Foto, NEW paso \in {"fotoGuardar", "perfilModify"},
              Ir(h, paso), r.u \in Usuario, r.nueva \in Foto,
              UNCHANGED <<passwords, perfiles, lista, drives, sesiones, proceso, avisos>>
       PROVE  Inv'
  <2>1. Crece /\ passwords' = passwords /\ conPerfil' = conPerfil
    BY <1>20 DEF Crece, conPerfil
  <2>2. hilo' \in [Hilo -> Pedido] /\ InvHilos'
    BY <1>0, <1>20, <2>1, IrBien
  <2>3. AltaOrdenada'
    BY <1>0, <1>20, <2>1 DEF AltaOrdenada, avisos
  <2> QED
    BY <1>0, <1>2, <1>20, <2>2, <2>3 DEF TypeOK, proceso, avisos
<1>21. CASE fotoBorrar(h)
  <2>1. r.u \in Usuario /\ r.nueva \in Foto
    BY <1>1, <1>21 DEF fotoBorrar
  <2>2. fotos' \subseteq Usuario \X Foto
    BY <1>0, <1>21 DEF fotoBorrar, TypeOK
  <2> QED
    BY <1>20, <1>21, <2>1, <2>2 DEF fotoBorrar
<1>22. CASE fotoGuardar(h)
  <2>1. r.u \in Usuario /\ r.nueva \in Foto
    BY <1>1, <1>22 DEF fotoGuardar
  <2>2. fotos' \subseteq Usuario \X Foto
    BY <1>0, <1>22, <2>1 DEF fotoGuardar, TypeOK
  <2> QED
    BY <1>20, <1>22, <2>1, <2>2 DEF fotoGuardar
<1>23. CASE perfilModify(h)
  <2>1. /\ r.u \in Usuario /\ Terminar(h)
        /\ perfiles' = IF r.u \in conPerfil THEN [perfiles EXCEPT ![r.u] = r.nueva] ELSE perfiles
        /\ UNCHANGED <<passwords, lista, drives, fotos, sesiones, proceso, avisos>>
    BY <1>1, <1>23 DEF perfilModify
  <2>2. conPerfil' = conPerfil /\ perfiles' \in [Usuario -> Foto \cup {SINFOTO, NADA}]
    <3>1. r.nueva # NADA /\ r.nueva \in Foto \cup {SINFOTO, NADA}
      BY <1>1 DEF Foto, SINFOTO, NADA
    <3>2. perfiles \in [Usuario -> Foto \cup {SINFOTO, NADA}]
      BY <1>0 DEF TypeOK
    <3> HIDE DEF r
    <3> QED
      BY <2>1, <3>1, <3>2 DEF conPerfil
  <2>3. Crece
    BY <2>1, <2>2 DEF Crece
  <2>4. hilo' \in [Hilo -> Pedido] /\ InvHilos'
    BY <1>0, <2>1, <2>3, TerminarBien
  <2>5. AltaOrdenada'
    BY <1>0, <2>1, <2>2 DEF AltaOrdenada, avisos
  <2> QED
    BY <1>0, <1>2, <2>1, <2>2, <2>4, <2>5 DEF TypeOK, proceso, avisos
<1> QED
  BY <1>3, <1>4, <1>5, <1>6, <1>9, <1>10, <1>11, <1>12, <1>13, <1>14, <1>15, <1>16,
     <1>17, <1>18, <1>19, <1>21, <1>22, <1>23 DEF Paso

-----------------------------------------------------------------------------
(* The theorem *)

LEMMA InitInv == Init => Inv
<1> SUFFICES ASSUME Init PROVE Inv
  OBVIOUS
<1>1. LIBRE \in Pedido /\ \A P, C, D : HiloBien(LIBRE, P, C, D)
  BY LibreBien
<1>2. hilo \in [Hilo -> Pedido] /\ InvHilos
  BY <1>1 DEF Init, InvHilos
<1> QED
  BY <1>2 DEF Init, Inv, TypeOK, AltaOrdenada, conPerfil

LEMMA NextInv == Inv /\ [Next]_vars => Inv'
<1> SUFFICES ASSUME Inv, [Next]_vars PROVE Inv'
  OBVIOUS
<1>1. CASE \E h \in Hilo : Pedir(h) \/ Paso(h)
  BY <1>1, PedirInv, PasoInv
<1>2. CASE Segundero
  <2>1. reloj' = reloj + 1 /\ UNCHANGED <<bases, hilo, caido, reinicios, avisos>>
    BY <1>2 DEF Segundero
  <2>2. reloj \in Nat /\ reloj' \in Nat
    BY <2>1 DEF Inv, TypeOK
  <2>3. conPerfil' = conPerfil /\ InvHilos'
    BY <2>1 DEF bases, conPerfil, Inv, InvHilos
  <2>4. AltaOrdenada'
    BY <2>1, <2>3 DEF Inv, AltaOrdenada, bases, avisos
  <2>5. TypeOK'
    BY <2>1, <2>2 DEF Inv, TypeOK, bases, avisos
  <2> QED
    BY <2>3, <2>4, <2>5 DEF Inv
<1>3. CASE Reiniciar
  <2>1. hilo' \in [Hilo -> Pedido] /\ InvHilos'
    BY <1>3, LibreBien DEF Reiniciar, InvHilos
  <2> QED
    <3>1. caido' = FALSE /\ reinicios' = reinicios + 1 /\ UNCHANGED <<bases, reloj, avisos>>
      BY <1>3 DEF Reiniciar
    <3>2. AltaOrdenada'
      BY <3>1 DEF Inv, AltaOrdenada, bases, avisos, conPerfil
    <3>3. reinicios' \in Nat
      BY <3>1 DEF Inv, TypeOK
    <3>4. TypeOK'
      BY <2>1, <3>1, <3>3 DEF Inv, TypeOK, bases, avisos
    <3> QED
      BY <2>1, <3>2, <3>4 DEF Inv
<1>4. CASE UNCHANGED vars
  BY <1>4 DEF vars, Inv, TypeOK, InvHilos, AltaOrdenada, bases, proceso, avisos, conPerfil
<1> QED
  BY <1>1, <1>2, <1>3, <1>4 DEF Next

\* Whatever the threads and the crashes, databases are filled in one order: a
\* listed name or a drive has a profile, a profile has a password, an answered
\* registration has a drive, and sessions are of registered users.  The code is
\* registrarUsuario, crearUsuario and iniciarSesion.
THEOREM AltaCorrecta == Spec => [](TypeOK /\ AltaOrdenada)
<1>1. Inv => TypeOK /\ AltaOrdenada
  BY DEF Inv
<1> QED
  BY <1>1, InitInv, NextInv, PTL DEF Spec
\* Every store, thread and history keeps its type, however many threads race and
\* however often the server is killed.
THEOREM TipoUsuarios == Spec => []TypeOK
  BY AltaCorrecta, PTL

-----------------------------------------------------------------------------
(* Any threads: some registration of a name goes all the way *)

EnPerfil == {"perfilGet", "perfilPut"}

EnDrive == TrasPerfil \ {"carpetas"}

\* Without crashes, what a name still lacks is being given to it by a thread.
InvEntera ==
  reinicios = 0 =>
    /\ \A u \in passwords :
         u \in conPerfil \/ \E g \in Hilo : hilo[g].u = u /\ hilo[g].paso \in EnPerfil
    /\ \A u \in conPerfil :
         u \in drives \/ \E g \in Hilo : hilo[g].u = u /\ hilo[g].paso \in EnDrive

\* Thread h goes on as q: what it was giving to a name it goes on giving, or has given.
LEMMA EnteraSigue ==
  ASSUME Inv, InvEntera, Crece, reinicios' = reinicios, NEW h \in Hilo, NEW q, Seguir(h, q),
         \A u \in passwords' \ passwords : u = q.u /\ q.paso \in EnPerfil,
         \A u \in conPerfil' \ conPerfil : u = q.u /\ q.paso \in EnDrive,
         hilo[h].paso \in EnPerfil =>
           (q.u = hilo[h].u /\ q.paso \in EnPerfil) \/ hilo[h].u \in conPerfil',
         hilo[h].paso \in EnDrive =>
           (q.u = hilo[h].u /\ q.paso \in EnDrive) \/ hilo[h].u \in drives'
  PROVE  InvEntera'
<1>1. hilo'[h] = q /\ \A g \in Hilo : g # h => hilo'[g] = hilo[g]
  BY DEF Inv, TypeOK, Seguir
<1> SUFFICES ASSUME reinicios = 0 PROVE InvEntera'
  BY DEF InvEntera
<1>2. ASSUME NEW u \in passwords'
      PROVE  u \in conPerfil' \/ \E g \in Hilo : hilo'[g].u = u /\ hilo'[g].paso \in EnPerfil
  <2>1. CASE u \notin passwords
    BY <1>1, <2>1
  <2>2. CASE u \in conPerfil
    BY <2>2 DEF Crece
  <2>3. CASE u \in passwords /\ u \notin conPerfil
    <3>1. PICK g \in Hilo : hilo[g].u = u /\ hilo[g].paso \in EnPerfil
      BY <2>3 DEF InvEntera
    <3> QED
      BY <1>1, <3>1
  <2> QED
    BY <2>1, <2>2, <2>3
<1>3. ASSUME NEW u \in conPerfil'
      PROVE  u \in drives' \/ \E g \in Hilo : hilo'[g].u = u /\ hilo'[g].paso \in EnDrive
  <2>1. CASE u \notin conPerfil
    BY <1>1, <2>1
  <2>2. CASE u \in drives
    BY <2>2 DEF Crece
  <2>3. CASE u \in conPerfil /\ u \notin drives
    <3>1. PICK g \in Hilo : hilo[g].u = u /\ hilo[g].paso \in EnDrive
      BY <2>3 DEF InvEntera
    <3> QED
      BY <1>1, <3>1
  <2> QED
    BY <2>1, <2>2, <2>3
<1> QED
  BY <1>2, <1>3 DEF InvEntera

\* A step of h outside a registration, or between two steps of the same part of one.
LEMMA EnteraIgual ==
  ASSUME Inv, InvEntera, Crece, reinicios' = reinicios, NEW h \in Hilo, NEW q, Seguir(h, q),
         passwords' = passwords, conPerfil' = conPerfil,
         hilo[h].paso \in EnPerfil => q.u = hilo[h].u /\ q.paso \in EnPerfil,
         hilo[h].paso \in EnDrive => q.u = hilo[h].u /\ q.paso \in EnDrive
  PROVE  InvEntera'
BY EnteraSigue

LEMMA EnteraQuieta ==
  ASSUME InvEntera, UNCHANGED <<bases, hilo, reinicios>>
  PROVE  InvEntera'
BY DEF InvEntera, bases, conPerfil

LEMMA PedirEntera == ASSUME Inv, InvEntera, NEW h \in Hilo, Pedir(h) PROVE InvEntera'
<1>1. UNCHANGED <<bases, proceso, avisos>> /\ hilo[h].paso = "libre"
  BY DEF Pedir, registrar, iniciarSesion, actualizarUltimaUbicacion, cerrarSesion,
         modificarDatos, modificarFoto, Libre
<1>2. UNCHANGED hilo \/ \E q : Seguir(h, q)
  BY DEF Pedir, registrar, iniciarSesion, actualizarUltimaUbicacion, cerrarSesion,
         modificarDatos, modificarFoto
<1>3. Crece /\ passwords' = passwords /\ conPerfil' = conPerfil /\ reinicios' = reinicios
  BY <1>1, SinCambioCrece DEF bases, proceso, conPerfil
<1>4. CASE UNCHANGED hilo
  BY <1>1, <1>4, EnteraQuieta DEF proceso
<1>5. ASSUME NEW q, Seguir(h, q) PROVE InvEntera'
  BY <1>1, <1>3, <1>5, EnteraIgual DEF EnPerfil, EnDrive, TrasPerfil
<1> QED
  BY <1>2, <1>4, <1>5

LEMMA PasoEntera == ASSUME Inv, InvEntera, NEW h \in Hilo, Paso(h) PROVE InvEntera'
<1> DEFINE r == hilo[h]
           En2(paso) == [r EXCEPT !.paso = paso]
<1>1. r \in Pedido /\ (r.paso # "libre" => r.u \in Usuario) /\ TypeOK
  BY DeUnPaso DEF Inv
<1>2. \A paso \in Pasos : En2(paso).paso = paso /\ En2(paso).u = r.u
  BY <1>1 DEF Pedido
<1>3. \A paso : Ir(h, paso) => Seguir(h, En2(paso))
  BY DEF Ir
<1>4. Terminar(h) => Seguir(h, LIBRE)
  BY DEF Terminar
<1> USE DEF En, EnPerfil, EnDrive, TrasPerfil, Pasos
<1> HIDE DEF En2
<1>5. CASE passwordPut(h)
  <2>1. /\ r.paso = "passwordPut" /\ Seguir(h, En2("perfilGet"))
        /\ passwords' = passwords \cup {r.u} /\ conPerfil' = conPerfil
        /\ drives' = drives /\ reinicios' = reinicios
    BY <1>3, <1>5 DEF passwordPut, conPerfil, proceso
  <2>2. Crece
    BY <2>1 DEF Crece
  <2> QED
    BY <1>2, <2>1, <2>2, EnteraSigue
<1>6. CASE perfilGet(h)
  <2>1. /\ r.paso = "perfilGet" /\ Crece /\ reinicios' = reinicios
        /\ passwords' = passwords /\ conPerfil' = conPerfil
    BY <1>6, SinCambioCrece DEF perfilGet, bases, proceso, conPerfil
  <2>2. (r.u \in conPerfil /\ Seguir(h, LIBRE)) \/ Seguir(h, En2("perfilPut"))
    BY <1>3, <1>4, <1>6 DEF perfilGet, contiene
  <2> QED
    BY <1>2, <2>1, <2>2, EnteraSigue
<1>7. CASE perfilPut(h)
  <2>1. /\ r.paso = "perfilPut" /\ Seguir(h, En2("listaGet")) /\ r.u \in Usuario
        /\ perfiles' = [perfiles EXCEPT ![r.u] = DEFECTO]
        /\ passwords' = passwords /\ drives' = drives /\ reinicios' = reinicios
    BY <1>1, <1>3, <1>7 DEF perfilPut, proceso
  <2>2. conPerfil' = conPerfil \cup {r.u}
    BY <1>1, <2>1 DEF conPerfil, TypeOK, DEFECTO, NADA, Foto
  <2>3. Crece
    BY <2>1, <2>2 DEF Crece
  <2> QED
    BY <1>2, <2>1, <2>2, <2>3, EnteraSigue
\* The list is written between the profile and the drive.
<1>8. ASSUME UNCHANGED <<passwords, perfiles, drives, reinicios>>, r.paso \in EnDrive,
             NEW q, Seguir(h, q), q.u = r.u, q.paso \in EnDrive
      PROVE  InvEntera'
  <2>1. conPerfil' = conPerfil /\ Crece
    BY <1>8 DEF conPerfil, Crece
  <2> QED
    BY <1>8, <2>1, EnteraIgual
<1>9. CASE listaGet(h)
  <2>1. /\ r.paso = "listaGet" /\ UNCHANGED <<passwords, perfiles, drives, reinicios>>
        /\ \/ Seguir(h, En2("listaPutGet"))
           \/ Seguir(h, [r EXCEPT !.paso = "listaModify", !.leida = lista])
    BY <1>3, <1>9 DEF listaGet, bases, proceso
  <2> DEFINE q == [r EXCEPT !.paso = "listaModify", !.leida = lista]
  <2>2. q.paso = "listaModify" /\ q.u = r.u
    BY <1>1 DEF Pedido
  <2>3. CASE Seguir(h, q)
    <3> HIDE DEF q
    <3> QED
      BY <1>8, <2>1, <2>2, <2>3
  <2> QED
    BY <1>2, <1>8, <2>1, <2>3
<1>10. CASE listaModify(h)
  BY <1>2, <1>3, <1>8, <1>10 DEF listaModify, Registrado, proceso
<1>11. CASE listaPutGet(h)
  BY <1>2, <1>3, <1>8, <1>11 DEF listaPutGet, Registrado, bases, proceso
<1>12. CASE listaPut(h)
  BY <1>2, <1>3, <1>8, <1>12 DEF listaPut, Registrado, proceso
<1>13. CASE permisosGet(h)
  <2>1. /\ r.paso = "permisosGet" /\ Crece /\ reinicios' = reinicios
        /\ passwords' = passwords /\ conPerfil' = conPerfil /\ drives' = drives
    BY <1>13, SinCambioCrece DEF permisosGet, bases, proceso, conPerfil
  <2>2. (r.u \in drives /\ Seguir(h, LIBRE)) \/ Seguir(h, En2("permisosPut"))
    BY <1>3, <1>4, <1>13 DEF permisosGet, contiene
  <2> QED
    BY <1>2, <2>1, <2>2, EnteraSigue
<1>14. CASE permisosPut(h)
  <2>1. /\ r.paso = "permisosPut" /\ Seguir(h, En2("carpetas"))
        /\ drives' = drives \cup {r.u} /\ passwords' = passwords
        /\ conPerfil' = conPerfil /\ reinicios' = reinicios
    BY <1>3, <1>14 DEF permisosPut, conPerfil, proceso
  <2>2. Crece
    BY <2>1 DEF Crece
  <2> QED
    BY <1>2, <2>1, <2>2, EnteraSigue
\* A step that no part of a registration waits for.
<1>15. ASSUME r.paso \notin EnPerfil \cup EnDrive, UNCHANGED <<passwords, drives, reinicios>>,
              conPerfil' = conPerfil, UNCHANGED hilo \/ \E q : Seguir(h, q)
       PROVE  InvEntera'
  <2>1. Crece
    BY <1>15 DEF Crece
  <2>2. CASE UNCHANGED hilo
    BY <1>15, <2>2 DEF InvEntera
  <2> QED
    BY <1>15, <2>1, <2>2, EnteraIgual
<1>16. CASE carpetas(h)
  BY <1>4, <1>15, <1>16 DEF carpetas, proceso, conPerfil
<1>17. CASE tokenGet(h)
  BY <1>15, <1>17 DEF tokenGet, Ir, bases, proceso, conPerfil
<1>18. CASE reintentar(h)
  BY <1>15, <1>18 DEF reintentar, bases, proceso, conPerfil
<1>19. CASE tokenPut(h)
  BY <1>4, <1>15, <1>19 DEF tokenPut, proceso, conPerfil
<1>20. CASE eraseGet(h)
  BY <1>15, <1>20 DEF eraseGet, Ir, bases, conPerfil
<1>21. CASE eraseDelete(h)
  BY <1>4, <1>15, <1>21 DEF eraseDelete, proceso, conPerfil
<1>22. CASE fotoBorrar(h)
  BY <1>15, <1>22 DEF fotoBorrar, Ir, proceso, conPerfil
<1>23. CASE fotoGuardar(h)
  BY <1>15, <1>23 DEF fotoGuardar, Ir, proceso, conPerfil
<1>24. CASE perfilModify(h)
  <2>1. /\ r.paso = "perfilModify" /\ Seguir(h, LIBRE)
        /\ UNCHANGED <<passwords, drives, reinicios>>
        /\ perfiles' = IF r.u \in conPerfil THEN [perfiles EXCEPT ![r.u] = r.nueva] ELSE perfiles
    BY <1>4, <1>24 DEF perfilModify, proceso
  <2>2. r.nueva # NADA
    BY DeUnPaso DEF Foto, SINFOTO, NADA
  <2>3. conPerfil' = conPerfil
    <3>1. CASE r.u \in conPerfil
      BY <1>1, <2>1, <2>2, <3>1 DEF conPerfil, TypeOK
    <3> QED
      BY <2>1, <3>1 DEF conPerfil
  <2> QED
    BY <1>15, <2>1, <2>3
<1> QED
  BY <1>5, <1>6, <1>7, <1>9, <1>10, <1>11, <1>12, <1>13, <1>14, <1>16, <1>17, <1>18,
     <1>19, <1>20, <1>21, <1>22, <1>23, <1>24 DEF Paso

\* However many threads register a name at once, one of them goes all the way: put's
\* read and write may both race, but no thread gives up before it has seen what it was
\* about to write.  Unless a crash stopped it, the name ends with a profile and a drive.
THEOREM AltaEnteraSiempre == Spec => []AltaEntera
<1>1. Init => InvEntera
  BY DEF Init, InvEntera, conPerfil
<1>2. Inv /\ InvEntera /\ [Next]_vars => InvEntera'
  <2> SUFFICES ASSUME Inv, InvEntera, [Next]_vars PROVE InvEntera'
    OBVIOUS
  <2>1. CASE \E h \in Hilo : Pedir(h) \/ Paso(h)
    BY <2>1, PedirEntera, PasoEntera
  <2>2. CASE Segundero
    BY <2>2, EnteraQuieta DEF Segundero
  <2>3. CASE Reiniciar
    BY <2>3 DEF Reiniciar, InvEntera, Inv, TypeOK
  <2>4. CASE UNCHANGED vars
    BY <2>4, EnteraQuieta DEF vars, proceso
  <2> QED
    BY <2>1, <2>2, <2>3, <2>4 DEF Next
<1>3. InvEntera => AltaEntera
  BY DEF InvEntera, AltaEntera, DandoDeAlta, EnPerfil, EnDrive, TrasPerfil, DeAlta
<1> QED
  BY <1>1, <1>2, <1>3, InitInv, NextInv, PTL DEF Spec

-----------------------------------------------------------------------------
(* One thread: registrations do not race *)

UnHilo == \A g, h \in Hilo : g = h

AntesDeListar == {"passwordPut", "perfilGet", "perfilPut", "listaGet", "listaModify",
                  "listaPutGet", "listaPut"}

\* What a registration knows when no other can run.
AltaSola(r) ==
  /\ r.paso = "passwordPut" => r.u \notin passwords
  /\ r.paso \in AntesDeListar => altas[r.u] = 0
  /\ r.paso = "listaModify" => r.leida = lista
  /\ r.paso \in {"listaPutGet", "listaPut"} => lista = {}
  /\ r.paso \in {"permisosGet", "permisosPut", "carpetas"} => r.u \in lista

InvUno ==
  /\ \A u \in Usuario : altas[u] \in {0, 1} /\ (altas[u] = 1 => u \in passwords)
  /\ ListaCompleta
  /\ \A h \in Hilo : AltaSola(hilo[h])

LEMMA PedirUno ==
  ASSUME UnHilo, Inv, InvUno, NEW h \in Hilo, Pedir(h)
  PROVE  InvUno'
<1>1. PICK u \in Usuario :
        \/ registrar(h, u)
        \/ iniciarSesion(h, u)
        \/ actualizarUltimaUbicacion(h, u)
        \/ \E t \in 0..reloj : \/ cerrarSesion(h, u, t)
                               \/ modificarDatos(h, u, t)
                               \/ \E e \in Foto : modificarFoto(h, u, t, e)
  BY DEF Pedir
<1>2. UNCHANGED <<bases, proceso, avisos>>
  BY <1>1 DEF registrar, iniciarSesion, actualizarUltimaUbicacion, cerrarSesion, modificarDatos, modificarFoto
<1>3. hilo \in [Hilo -> Pedido]
  BY DEF Inv, TypeOK
<1>4. ASSUME NEW q, Seguir(h, q),
             q.paso \in {"tokenGet", "eraseGet", "perfilModify", "fotoBorrar"} \/
             (q.paso = "passwordPut" /\ q.u \in Usuario /\ q.u \notin passwords)
      PROVE  InvUno'
  <2>1. hilo'[h] = q
    BY <1>3, <1>4 DEF Seguir
  <2>2. \A g \in Hilo : hilo'[g] = q
    BY <2>1 DEF UnHilo
  <2>3. q.paso = "passwordPut" => q.u \notin passwords /\ altas[q.u] = 0
    BY <1>4 DEF InvUno
  <2>4. \A g \in Hilo : AltaSola(hilo[g])'
    BY <1>2, <1>4, <2>2, <2>3 DEF AltaSola, AntesDeListar, bases, avisos
  <2> QED
    BY <1>2, <2>4 DEF InvUno, ListaCompleta, bases, avisos
<1>5. CASE registrar(h, u)
  <2>1. CASE UNCHANGED hilo
    BY <1>2, <2>1 DEF InvUno, AltaSola, ListaCompleta, bases, avisos
  <2>2. CASE u \notin passwords /\ Seguir(h, [LIBRE EXCEPT !.paso = "passwordPut", !.u = u])
    BY <1>4, <2>2 DEF LIBRE
  <2> QED
    BY <1>5, <2>1, <2>2 DEF registrar, contiene
<1>6. CASE iniciarSesion(h, u)
  BY <1>4, <1>6 DEF iniciarSesion, LIBRE
<1>7. CASE actualizarUltimaUbicacion(h, u)
  BY <1>4, <1>7 DEF actualizarUltimaUbicacion, LIBRE
<1>8. ASSUME NEW t \in 0..reloj, cerrarSesion(h, u, t) PROVE InvUno'
  BY <1>4, <1>8 DEF cerrarSesion, LIBRE
<1>9. ASSUME NEW t \in 0..reloj, modificarDatos(h, u, t) PROVE InvUno'
  BY <1>4, <1>9 DEF modificarDatos, LIBRE
<1>10. ASSUME NEW t \in 0..reloj, NEW e \in Foto, modificarFoto(h, u, t, e) PROVE InvUno'
  BY <1>4, <1>10 DEF modificarFoto, LIBRE
<1> QED
  BY <1>1, <1>5, <1>6, <1>7, <1>8, <1>9, <1>10

LEMMA PasoUno ==
  ASSUME UnHilo, Inv, InvUno, NEW h \in Hilo, Paso(h)
  PROVE  InvUno'
<1> DEFINE r == hilo[h]
<1>1. hilo \in [Hilo -> Pedido] /\ r \in Pedido /\ AltaSola(r)
  BY DEF Inv, TypeOK, InvUno
<1>2. /\ altas \in [Usuario -> Nat]
      /\ r.paso # "libre" => r.u \in Usuario
      /\ r.paso \in ConClave => r.u \in passwords
  BY DeUnPaso DEF Inv, TypeOK
<1> USE DEF AltaSola, AntesDeListar, En, ConClave, DeAlta, DeEntrada
\* The thread's next step, when only a list or a counter may have changed.
<1>3. ASSUME NEW paso \in Pasos, Ir(h, paso)
      PROVE  \A g \in Hilo : hilo'[g] = [r EXCEPT !.paso = paso]
  BY <1>1, <1>3 DEF Ir, Seguir, UnHilo
<1>4. ASSUME Terminar(h)
      PROVE  \A g \in Hilo : hilo'[g] = LIBRE
  BY <1>1, <1>4 DEF Terminar, Seguir, UnHilo
<1>5. CASE passwordPut(h)
  <2>1. \A g \in Hilo : hilo'[g] = [r EXCEPT !.paso = "perfilGet"]
    BY <1>3, <1>5 DEF passwordPut, Pasos
  <2>2. \A g \in Hilo : AltaSola(hilo[g])'
    BY <1>1, <1>5, <2>1 DEF passwordPut, avisos, Pedido
  <2> QED
    BY <1>5, <2>2 DEF passwordPut, InvUno, ListaCompleta, avisos
<1>6. CASE perfilGet(h)
  <2>1. \A g \in Hilo : hilo'[g] \in {LIBRE, [r EXCEPT !.paso = "perfilPut"]}
    BY <1>3, <1>4, <1>6 DEF perfilGet, Pasos
  <2>2. \A g \in Hilo : AltaSola(hilo[g])'
    BY <1>1, <1>6, <2>1 DEF perfilGet, bases, avisos, Pedido, LIBRE
  <2> QED
    BY <1>6, <2>2 DEF perfilGet, InvUno, ListaCompleta, bases, avisos
<1>7. CASE perfilPut(h)
  <2>1. \A g \in Hilo : hilo'[g] = [r EXCEPT !.paso = "listaGet"]
    BY <1>3, <1>7 DEF perfilPut, Pasos
  <2>2. \A g \in Hilo : AltaSola(hilo[g])'
    BY <1>1, <1>7, <2>1 DEF perfilPut, avisos, Pedido
  <2> QED
    BY <1>7, <2>2 DEF perfilPut, InvUno, ListaCompleta, avisos
<1>8. CASE listaGet(h)
  <2>1. \A g \in Hilo : hilo'[g] = IF lista = {} THEN [r EXCEPT !.paso = "listaPutGet"]
                                   ELSE [r EXCEPT !.paso = "listaModify", !.leida = lista]
    BY <1>1, <1>3, <1>8 DEF listaGet, Pasos, Seguir, UnHilo
  <2>2. PICK q : /\ q.u = r.u /\ altas[q.u] = 0
                 /\ \/ q.paso = "listaPutGet" /\ lista = {}
                    \/ q.paso = "listaModify" /\ q.leida = lista
                 /\ \A g \in Hilo : hilo'[g] = q
    BY <1>1, <1>8, <2>1 DEF listaGet, Pedido
  <2>3. \A g \in Hilo : AltaSola(hilo[g])'
    BY <1>8, <2>2 DEF listaGet, bases, avisos
  <2> QED
    BY <1>8, <2>3 DEF listaGet, InvUno, ListaCompleta, bases, avisos
\* registrarUsuario returns true, with the name in the list.
<1>9. ASSUME Registrado(h), lista' = lista \cup {r.u}, passwords' = passwords,
             r.paso \in AntesDeListar \ {"passwordPut"}
      PROVE  InvUno'
  <2>1. \A g \in Hilo : hilo'[g] = [r EXCEPT !.paso = "permisosGet"]
    BY <1>3, <1>9 DEF Registrado, Pasos
  <2>2. altas[r.u] = 0 /\ r.u \in Usuario /\ r.u \in passwords
    BY <1>1, <1>2, <1>9
  <2>3. altas' = [altas EXCEPT ![r.u] = 1]
    <3>1. altas' = [altas EXCEPT ![r.u] = altas[r.u] + 1]
      BY <1>9 DEF Registrado
    <3> HIDE DEF r
    <3> QED
      BY <2>2, <3>1
  <2>4. \A g \in Hilo : AltaSola(hilo[g])'
    <3>1. r.u \in lista'
      BY <1>9
    <3>2. \A g \in Hilo : hilo'[g].paso = "permisosGet" /\ hilo'[g].u = r.u
      BY <1>1, <2>1 DEF Pedido
    <3> HIDE DEF r
    <3> QED
      BY <3>1, <3>2
  <2>5. ListaCompleta'
    BY <1>9 DEF Registrado, InvUno, ListaCompleta
  <2>6. \A u \in Usuario : altas'[u] \in {0, 1} /\ (altas'[u] = 1 => u \in passwords')
    <3> HIDE DEF r
    <3> QED
      BY <1>2, <1>9, <2>2, <2>3 DEF InvUno
  <2> QED
    BY <2>4, <2>5, <2>6 DEF InvUno
<1>10. CASE listaModify(h)
  BY <1>1, <1>9, <1>10 DEF listaModify, ListaCon
<1>11. CASE listaPutGet(h)
  <2>1. lista = {}
    BY <1>1, <1>11 DEF listaPutGet
  <2>2. \A g \in Hilo : hilo'[g] = [r EXCEPT !.paso = "listaPut"]
    BY <1>3, <1>11, <2>1 DEF listaPutGet, Pasos
  <2>3. \A g \in Hilo : AltaSola(hilo[g])'
    BY <1>1, <1>11, <2>1, <2>2 DEF listaPutGet, bases, avisos, Pedido
  <2> QED
    BY <1>11, <2>1, <2>3 DEF listaPutGet, InvUno, ListaCompleta, bases, avisos
<1>12. CASE listaPut(h)
  <2>1. lista = {} /\ r.paso = "listaPut" /\ lista' = {r.u}
    BY <1>1, <1>12 DEF listaPut
  <2> QED
    BY <1>9, <1>12, <2>1 DEF listaPut
<1>13. CASE permisosGet(h)
  <2>1. \A g \in Hilo : hilo'[g] \in {LIBRE, [r EXCEPT !.paso = "permisosPut"]}
    BY <1>3, <1>4, <1>13 DEF permisosGet, Pasos
  <2>2. \A g \in Hilo : AltaSola(hilo[g])'
    BY <1>1, <1>13, <2>1 DEF permisosGet, bases, avisos, Pedido, LIBRE
  <2> QED
    BY <1>13, <2>2 DEF permisosGet, InvUno, ListaCompleta, bases, avisos
<1>14. CASE permisosPut(h)
  <2>1. \A g \in Hilo : hilo'[g] = [r EXCEPT !.paso = "carpetas"]
    BY <1>3, <1>14 DEF permisosPut, Pasos
  <2>2. \A g \in Hilo : AltaSola(hilo[g])'
    BY <1>1, <1>14, <2>1 DEF permisosPut, avisos, Pedido
  <2> QED
    BY <1>14, <2>2 DEF permisosPut, InvUno, ListaCompleta, avisos
<1>15. CASE carpetas(h)
  <2>1. \A g \in Hilo : hilo'[g] = LIBRE
    BY <1>4, <1>15 DEF carpetas
  <2>2. \A g \in Hilo : AltaSola(hilo[g])'
    BY <2>1 DEF LIBRE
  <2>3. r.u \in lista
    BY <1>1, <1>15 DEF carpetas
  <2> QED
    BY <1>15, <2>2, <2>3 DEF carpetas, InvUno, ListaCompleta
\* A step of a login, a logout or a change of a profile.
<1>16. ASSUME UNCHANGED <<passwords, lista, altas, avisados>>,
              r.paso \notin AntesDeListar \cup {"permisosGet", "permisosPut", "carpetas"},
              \/ Terminar(h)
              \/ \E paso \in Pasos \ DeAlta : Ir(h, paso)
              \/ UNCHANGED hilo
              \/ Seguir(h, [r EXCEPT !.paso = "tokenGet", !.t = reloj])
       PROVE  InvUno'
  <2>1. \A g \in Hilo : hilo'[g].paso \notin DeAlta
    <3>1. CASE Terminar(h)
      BY <1>4, <3>1 DEF LIBRE
    <3>2. ASSUME NEW paso \in Pasos \ DeAlta, Ir(h, paso)
          PROVE  \A g \in Hilo : hilo'[g].paso \notin DeAlta
      <4>1. \A g \in Hilo : hilo'[g] = [r EXCEPT !.paso = paso]
        BY <1>3, <3>2
      <4>2. [r EXCEPT !.paso = paso].paso = paso
        BY <1>1 DEF Pedido
      <4> QED
        BY <3>2, <4>1, <4>2
    <3>3. CASE UNCHANGED hilo
      BY <1>16, <3>3 DEF UnHilo
    <3>4. CASE Seguir(h, [r EXCEPT !.paso = "tokenGet", !.t = reloj])
      BY <1>1, <3>4 DEF Seguir, UnHilo, Pedido
    <3> QED
      BY <1>16, <3>1, <3>2, <3>3, <3>4
  <2>2. \A g \in Hilo : AltaSola(hilo[g])'
    BY <2>1
  <2> QED
    BY <1>16, <2>2 DEF InvUno, ListaCompleta
<1>17. CASE tokenGet(h)
  BY <1>16, <1>17 DEF tokenGet, bases, avisos, Pasos
<1>18. CASE reintentar(h)
  BY <1>16, <1>18 DEF reintentar, bases, avisos
<1>19. CASE tokenPut(h)
  BY <1>16, <1>19 DEF tokenPut
<1>20. CASE eraseGet(h)
  BY <1>16, <1>20 DEF eraseGet, bases, avisos, Pasos
<1>21. CASE eraseDelete(h)
  BY <1>16, <1>21 DEF eraseDelete
<1>22. CASE fotoBorrar(h)
  BY <1>16, <1>22 DEF fotoBorrar, avisos, Pasos
<1>23. CASE fotoGuardar(h)
  BY <1>16, <1>23 DEF fotoGuardar, avisos, Pasos
<1>24. CASE perfilModify(h)
  BY <1>16, <1>24 DEF perfilModify, avisos
<1> QED
  BY <1>5, <1>6, <1>7, <1>8, <1>10, <1>11, <1>12, <1>13, <1>14, <1>15, <1>17, <1>18,
     <1>19, <1>20, <1>21, <1>22, <1>23, <1>24 DEF Paso

LEMMA NextUno ==
  ASSUME UnHilo, Inv, InvUno, [Next]_vars
  PROVE  InvUno'
<1>1. CASE \E h \in Hilo : Pedir(h) \/ Paso(h)
  BY <1>1, PedirUno, PasoUno
<1>2. CASE Segundero
  BY <1>2 DEF Segundero, InvUno, AltaSola, ListaCompleta, bases, avisos
<1>3. CASE Reiniciar
  <2>1. \A g \in Hilo : AltaSola(hilo[g])'
    BY <1>3 DEF Reiniciar, AltaSola, AntesDeListar, LIBRE
  <2> QED
    BY <1>3, <2>1 DEF Reiniciar, InvUno, ListaCompleta, bases, avisos
<1>4. CASE UNCHANGED vars
  BY <1>4 DEF vars, InvUno, AltaSola, ListaCompleta, bases, avisos
<1> QED
  BY <1>1, <1>2, <1>3, <1>4 DEF Next

\* With one thread, whatever the crashes, a name is registered once, and who was
\* told so is in the list that searches read: both can only fail by a race.  The
\* code is registrarUsuario.
THEOREM AltaUnica ==
  ASSUME UnHilo
  PROVE  Spec => [](UnaAlta /\ ListaCompleta)
<1>1. Init => InvUno
  BY DEF Init, InvUno, AltaSola, AntesDeListar, ListaCompleta, LIBRE
<1>2. Inv /\ InvUno /\ [Next]_vars => InvUno'
  BY NextUno
<1>3. InvUno => UnaAlta /\ ListaCompleta
  BY DEF InvUno, UnaAlta
<1> QED
  BY <1>1, <1>2, <1>3, InitInv, NextInv, PTL DEF Spec

\* With one thread, whoever was told that he is registered is in the list that searches
\* read: the list is only lost between the get and the put of two registrations.
THEOREM ListaSiempreCompleta ==
  ASSUME UnHilo
  PROVE  Spec => []ListaCompleta
  BY AltaUnica, PTL

-----------------------------------------------------------------------------
(* One thread: sessions *)

\* What a login or a logout knows of its token when no other can run.
SesionSola(r) ==
  /\ r.paso = "tokenPut" => <<r.u, r.t>> \notin sesiones
  /\ r.paso \in {"eraseGet", "eraseDelete"} => <<r.u, r.t>> \in sesiones

InvSesion ==
  /\ ~caido
  /\ IsFiniteSet(sesiones) /\ entradas = salidas + Cardinality(sesiones)
  /\ \A h \in Hilo : SesionSola(hilo[h])

\* The only thread goes on as q, and the sessions stay.
LEMMA SesionSigue ==
  ASSUME UnHilo, Inv, InvSesion, NEW h \in Hilo, NEW q, Seguir(h, q), SesionSola(q),
         UNCHANGED <<sesiones, entradas, salidas, caido>>
  PROVE  InvSesion'
<1>1. \A g \in Hilo : hilo'[g] = q
  BY DEF UnHilo, Seguir, Inv, TypeOK
<1> QED
  BY <1>1 DEF InvSesion, SesionSola

LEMMA SesionLibre == SesionSola(LIBRE)
BY DEF SesionSola, LIBRE

LEMMA PedirSesion == ASSUME UnHilo, Inv, InvSesion, NEW h \in Hilo, Pedir(h) PROVE InvSesion'
<1>1. PICK u \in Usuario :
        \/ registrar(h, u)
        \/ iniciarSesion(h, u)
        \/ actualizarUltimaUbicacion(h, u)
        \/ \E t \in 0..reloj : \/ cerrarSesion(h, u, t)
                               \/ modificarDatos(h, u, t)
                               \/ \E e \in Foto : modificarFoto(h, u, t, e)
  BY DEF Pedir
<1>2. UNCHANGED <<sesiones, entradas, salidas, caido>>
  BY <1>1 DEF registrar, iniciarSesion, actualizarUltimaUbicacion, cerrarSesion,
              modificarDatos, modificarFoto, bases, proceso, avisos
<1>3. ASSUME NEW t \in 0..reloj, cerrarSesion(h, u, t) PROVE InvSesion'
  <2> DEFINE q == [LIBRE EXCEPT !.paso = "eraseGet", !.u = u, !.t = t]
  <2>1. Seguir(h, q) /\ SesionSola(q)
    BY <1>3 DEF cerrarSesion, autenticarToken, SesionSola, LIBRE
  <2> QED
    BY <1>2, <2>1, SesionSigue
<1>4. CASE UNCHANGED hilo
  BY <1>2, <1>4 DEF InvSesion, SesionSola
<1>5. ASSUME NEW q, Seguir(h, q), q.paso \in {"passwordPut", "tokenGet", "perfilModify", "fotoBorrar"}
      PROVE  InvSesion'
  BY <1>2, <1>5, SesionSigue DEF SesionSola
<1>6. CASE registrar(h, u)
  BY <1>4, <1>5, <1>6 DEF registrar, LIBRE
<1>7. CASE iniciarSesion(h, u)
  BY <1>5, <1>7 DEF iniciarSesion, LIBRE
<1>8. CASE actualizarUltimaUbicacion(h, u)
  BY <1>5, <1>8 DEF actualizarUltimaUbicacion, LIBRE
<1>9. ASSUME NEW t \in 0..reloj, modificarDatos(h, u, t) PROVE InvSesion'
  BY <1>5, <1>9 DEF modificarDatos, LIBRE
<1>10. ASSUME NEW t \in 0..reloj, NEW e \in Foto, modificarFoto(h, u, t, e) PROVE InvSesion'
  BY <1>5, <1>10 DEF modificarFoto, LIBRE
<1> QED
  BY <1>1, <1>3, <1>6, <1>7, <1>8, <1>9, <1>10

LEMMA PasoSesion == ASSUME UnHilo, Inv, InvSesion, NEW h \in Hilo, Paso(h) PROVE InvSesion'
<1> DEFINE r == hilo[h]
           En2(paso) == [r EXCEPT !.paso = paso]
           mismas == UNCHANGED <<sesiones, entradas, salidas, caido>>
<1>1. r \in Pedido /\ SesionSola(r) /\ TypeOK
  BY DEF Inv, TypeOK, InvSesion
<1>2. \A paso \in Pasos : /\ En2(paso).paso = paso /\ En2(paso).u = r.u
                          /\ En2(paso).t = r.t
  BY <1>1 DEF Pedido
<1>3. \A paso : Ir(h, paso) => Seguir(h, En2(paso))
  BY DEF Ir
<1>4. Terminar(h) => Seguir(h, LIBRE)
  BY DEF Terminar
<1> HIDE DEF En2
\* A step that no session waits for.
<1>5. ASSUME mismas, NEW q, Seguir(h, q), q.paso \notin {"tokenPut", "eraseGet", "eraseDelete"}
      PROVE  InvSesion'
  BY <1>5, SesionSigue DEF SesionSola
<1>6. ASSUME mismas, NEW paso \in Pasos \ {"tokenPut", "eraseGet", "eraseDelete"}, Ir(h, paso)
      PROVE  InvSesion'
  BY <1>2, <1>3, <1>5, <1>6
<1>7. ASSUME mismas, Terminar(h) PROVE InvSesion'
  BY <1>4, <1>5, <1>7 DEF LIBRE
<1> USE DEF Pasos
<1>8. CASE passwordPut(h) \/ perfilGet(h) \/ perfilPut(h)
  BY <1>6, <1>7, <1>8 DEF passwordPut, perfilGet, perfilPut, bases, proceso, avisos
<1>9. CASE listaGet(h)
  <2> DEFINE q == [r EXCEPT !.paso = "listaModify", !.leida = lista]
  <2>1. mismas /\ (Ir(h, "listaPutGet") \/ Seguir(h, q))
    BY <1>9 DEF listaGet, bases, proceso, avisos
  <2>2. q.paso = "listaModify"
    BY <1>1 DEF Pedido
  <2> HIDE DEF q
  <2> QED
    BY <1>5, <1>6, <2>1, <2>2
<1>10. CASE listaModify(h) \/ listaPutGet(h) \/ listaPut(h)
  BY <1>6, <1>10 DEF listaModify, listaPutGet, listaPut, Registrado, bases, proceso, avisos
<1>11. CASE permisosGet(h) \/ permisosPut(h) \/ carpetas(h)
  BY <1>6, <1>7, <1>11 DEF permisosGet, permisosPut, carpetas, bases, proceso, avisos
<1>12. CASE tokenGet(h)
  <2>1. /\ mismas
        /\ \/ Ir(h, "reintento")
           \/ <<r.u, r.t>> \notin sesiones /\ Seguir(h, En2("tokenPut"))
    BY <1>3, <1>12 DEF tokenGet, contiene, Token, bases, proceso, avisos
  <2>2. CASE <<r.u, r.t>> \notin sesiones /\ Seguir(h, En2("tokenPut"))
    <3>1. SesionSola(En2("tokenPut"))
      BY <1>2, <2>2 DEF SesionSola
    <3> QED
      BY <2>1, <2>2, <3>1, SesionSigue
  <2> QED
    BY <1>6, <2>1, <2>2
<1>13. CASE reintentar(h)
  <2> DEFINE q == [r EXCEPT !.paso = "tokenGet", !.t = reloj]
  <2>1. mismas /\ Seguir(h, q)
    BY <1>13 DEF reintentar, bases, proceso, avisos
  <2>2. q.paso = "tokenGet"
    BY <1>1 DEF Pedido
  <2> HIDE DEF q
  <2> QED
    BY <1>5, <2>1, <2>2
<1>14. CASE tokenPut(h)
  <2> DEFINE k == <<r.u, r.t>>
  <2>1. /\ k \notin sesiones /\ sesiones' = sesiones \cup {k}
        /\ entradas' = entradas + 1 /\ UNCHANGED <<salidas, caido>>
        /\ Seguir(h, LIBRE)
    BY <1>1, <1>4, <1>14 DEF tokenPut, En, SesionSola, Token, proceso
  <2>2. IsFiniteSet(sesiones') /\ Cardinality(sesiones') = Cardinality(sesiones) + 1
    <3> HIDE DEF k
    <3> QED
      BY <2>1, FS_AddElement DEF InvSesion
  <2>3. Cardinality(sesiones) \in Nat
    BY FS_CardinalityType DEF InvSesion
  <2>4. entradas' = salidas' + Cardinality(sesiones')
    BY <1>1, <2>1, <2>2, <2>3 DEF InvSesion, TypeOK
  <2>5. \A g \in Hilo : hilo'[g] = LIBRE
    BY <2>1 DEF Seguir, UnHilo, Inv, TypeOK
  <2> QED
    BY <2>1, <2>2, <2>4, <2>5 DEF InvSesion, SesionSola, LIBRE
<1>15. CASE eraseGet(h)
  <2>1. <<r.u, r.t>> \in sesiones
    BY <1>1, <1>15 DEF eraseGet, En, SesionSola
  <2>2. mismas /\ Seguir(h, En2("eraseDelete"))
    BY <1>3, <1>15, <2>1 DEF eraseGet, Token, bases, avisos
  <2>3. SesionSola(En2("eraseDelete"))
    BY <1>2, <2>1 DEF SesionSola
  <2> QED
    BY <2>2, <2>3, SesionSigue
<1>16. CASE eraseDelete(h)
  <2> DEFINE k == <<r.u, r.t>>
  <2>1. /\ k \in sesiones /\ sesiones' = sesiones \ {k}
        /\ salidas' = salidas + 1 /\ UNCHANGED <<entradas, caido>>
        /\ Seguir(h, LIBRE)
    BY <1>1, <1>4, <1>16 DEF eraseDelete, En, SesionSola, Token, proceso
  <2>2. IsFiniteSet(sesiones') /\ Cardinality(sesiones') = Cardinality(sesiones) - 1
    <3> HIDE DEF k
    <3> QED
      BY <2>1, FS_RemoveElement DEF InvSesion
  <2>3. Cardinality(sesiones) \in Nat
    BY FS_CardinalityType DEF InvSesion
  <2>4. entradas' = salidas' + Cardinality(sesiones')
    BY <1>1, <2>1, <2>2, <2>3 DEF InvSesion, TypeOK
  <2>5. \A g \in Hilo : hilo'[g] = LIBRE
    BY <2>1 DEF Seguir, UnHilo, Inv, TypeOK
  <2> QED
    BY <2>1, <2>2, <2>4, <2>5 DEF InvSesion, SesionSola, LIBRE
<1>17. CASE fotoBorrar(h) \/ fotoGuardar(h)
  BY <1>6, <1>17 DEF fotoBorrar, fotoGuardar, proceso, avisos
<1>18. CASE perfilModify(h)
  BY <1>7, <1>18 DEF perfilModify, proceso, avisos
<1> QED
  BY <1>8, <1>9, <1>10, <1>11, <1>12, <1>13, <1>14, <1>15, <1>16, <1>17, <1>18 DEF Paso

LEMMA SesionSiempre ==
  ASSUME UnHilo
  PROVE  Spec => []InvSesion
<1>1. Init => InvSesion
  BY FS_EmptySet DEF Init, InvSesion, SesionSola, LIBRE
<1>2. Inv /\ InvSesion /\ [Next]_vars => InvSesion'
  <2> SUFFICES ASSUME Inv, InvSesion, [Next]_vars PROVE InvSesion'
    OBVIOUS
  <2>1. CASE \E h \in Hilo : Pedir(h) \/ Paso(h)
    BY <2>1, PedirSesion, PasoSesion
  <2>2. CASE Segundero
    BY <2>2 DEF Segundero, InvSesion, SesionSola, bases, avisos
  <2>3. CASE Reiniciar
    BY <2>3 DEF Reiniciar, InvSesion, SesionSola, LIBRE, bases, avisos
  <2>4. CASE UNCHANGED vars
    BY <2>4 DEF vars, InvSesion, SesionSola, bases, proceso, avisos
  <2> QED
    BY <2>1, <2>2, <2>3, <2>4 DEF Next
<1> QED
  BY <1>1, <1>2, InitInv, NextInv, PTL DEF Spec

\* With one thread, whatever the crashes, every login that was answered and not closed
\* has a token of its own: iniciarSesion's put found the token free.
THEOREM TokenSiempre ==
  ASSUME UnHilo
  PROVE  Spec => []UnTokenPorSesion
<1>1. InvSesion => UnTokenPorSesion
  BY DEF InvSesion, UnTokenPorSesion
<1> QED
  BY <1>1, SesionSiempre, PTL

\* With one thread, whatever the crashes, cerrarSesion's erase finds the token that
\* autenticarToken found, and the process goes on.
THEOREM NuncaLanzaUno ==
  ASSUME UnHilo
  PROVE  Spec => []NuncaLanza
<1>1. InvSesion => NuncaLanza
  BY DEF InvSesion, NuncaLanza
<1> QED
  BY <1>1, SesionSiempre, PTL

-----------------------------------------------------------------------------
(* The picture of a profile, with one thread *)

FotosDe(u, F) == {e \in Foto : <<u, e>> \in F}

\* Where a thread is, the picture on disk and the one in the profile may differ.
Cambiando == {"carpetas", "fotoGuardar", "perfilModify"}

\* What the request of the only thread knows of the picture of its user.
FotoSola(r, D, P, F) ==
  /\ r.paso \in DeAlta \ {"carpetas"} => r.u \notin D
  /\ r.paso \in {"listaGet", "listaModify", "listaPutGet", "listaPut", "permisosGet",
                 "permisosPut", "carpetas"} => P[r.u] = DEFECTO
  /\ r.paso \in {"carpetas", "fotoGuardar"} => FotosDe(r.u, F) = {}
  /\ r.paso \in {"fotoBorrar", "fotoGuardar", "perfilModify"} => r.u \in D
  /\ r.paso = "fotoBorrar" => FotosDe(r.u, F) = {r.vieja}
  /\ r.paso \in {"fotoBorrar", "fotoGuardar"} => r.nueva \in Foto
  /\ r.paso = "perfilModify" => FotosDe(r.u, F) = {r.nueva}

FotoDe(u, D, P, F) == FotosDe(u, F) = IF u \in D THEN {P[u]} ELSE {}

\* Until the first restart.
InvFoto ==
  reinicios = 0 =>
    /\ \A h \in Hilo : FotoSola(hilo[h], drives, perfiles, fotos)
    /\ \A u \in Usuario :
         \/ FotoDe(u, drives, perfiles, fotos)
         \/ \E h \in Hilo : hilo[h].u = u /\ hilo[h].paso \in Cambiando

\* The only thread goes on as q; of the users, only w may need it to be at work.
LEMMA FotoSigue ==
  ASSUME UnHilo, Inv, NEW h \in Hilo, NEW q, Seguir(h, q),
         reinicios' = 0 => FotoSola(q, drives', perfiles', fotos'),
         \A u \in Usuario : reinicios' = 0 =>
           FotoDe(u, drives', perfiles', fotos') \/ (q.u = u /\ q.paso \in Cambiando)
  PROVE  InvFoto'
<1>1. \A g \in Hilo : hilo'[g] = q
  BY DEF UnHilo, Seguir, Inv, TypeOK
<1>2. \A g \in Hilo : reinicios' = 0 => FotoSola(hilo'[g], drives', perfiles', fotos')
  BY <1>1 DEF FotoSola, FotosDe
<1>3. \A u \in Usuario : reinicios' = 0 =>
        \/ FotoDe(u, drives', perfiles', fotos')
        \/ \E g \in Hilo : hilo'[g].u = u /\ hilo'[g].paso \in Cambiando
  BY <1>1
<1> QED
  BY <1>2, <1>3 DEF InvFoto

LEMMA PedirFoto ==
  ASSUME UnHilo, Inv, AltaEntera, InvFoto, NEW h \in Hilo, Pedir(h)
  PROVE  InvFoto'
<1>1. PICK u \in Usuario :
        \/ registrar(h, u)
        \/ iniciarSesion(h, u)
        \/ actualizarUltimaUbicacion(h, u)
        \/ \E t \in 0..reloj : \/ cerrarSesion(h, u, t)
                               \/ modificarDatos(h, u, t)
                               \/ \E e \in Foto : modificarFoto(h, u, t, e)
  BY DEF Pedir
<1>2. UNCHANGED <<perfiles, drives, fotos, reinicios>> /\ hilo[h].paso = "libre"
  BY <1>1 DEF registrar, iniciarSesion, actualizarUltimaUbicacion, cerrarSesion,
              modificarDatos, modificarFoto, Libre, bases, proceso, avisos
<1>3. reinicios = 0 => \A w \in Usuario : FotoDe(w, drives, perfiles, fotos)
  BY <1>2 DEF InvFoto, Cambiando, UnHilo
<1>4. \A w : /\ FotosDe(w, fotos') = FotosDe(w, fotos)
            /\ FotoDe(w, drives', perfiles', fotos') <=> FotoDe(w, drives, perfiles, fotos)
  BY <1>2 DEF FotoDe, FotosDe
<1>5. \A w \in Usuario : reinicios = 0 /\ w \in passwords =>
        w \in conPerfil /\ w \in drives /\ PerfilLeido(w) = perfiles[w]
  BY <1>2 DEF AltaEntera, DandoDeAlta, UnHilo, DeAlta, PerfilLeido
<1>6. \A tok \in sesiones \cup cerrados : tok[1] \in passwords
  BY DEF Inv, AltaOrdenada
<1>7. ASSUME NEW q, Seguir(h, q), reinicios = 0 => FotoSola(q, drives, perfiles, fotos)
      PROVE  InvFoto'
  <2>1. reinicios' = 0 => FotoSola(q, drives', perfiles', fotos')
    BY <1>2, <1>4, <1>7 DEF FotoSola
  <2> QED
    BY <1>2, <1>3, <1>4, <1>7, <2>1, FotoSigue
<1>8. CASE registrar(h, u)
  <2> DEFINE q == [LIBRE EXCEPT !.paso = "passwordPut", !.u = u]
  <2>1. CASE u \in passwords
    BY <1>2, <1>4, <1>8, <2>1 DEF registrar, contiene, InvFoto, FotoSola
  <2>2. CASE u \notin passwords
    <3>1. u \notin drives
      BY <2>2 DEF Inv, AltaOrdenada
    <3>2. Seguir(h, q) /\ FotoSola(q, drives, perfiles, fotos)
      BY <1>8, <2>2, <3>1 DEF registrar, contiene, FotoSola, LIBRE
    <3> QED
      BY <1>7, <3>2
  <2> QED
    BY <2>1, <2>2
<1>9. CASE iniciarSesion(h, u)
  <2> DEFINE q == [LIBRE EXCEPT !.paso = "tokenGet", !.u = u, !.t = reloj]
  <2>1. Seguir(h, q) /\ FotoSola(q, drives, perfiles, fotos)
    BY <1>9 DEF iniciarSesion, FotoSola, LIBRE, DeAlta
  <2> QED
    BY <1>7, <2>1
<1>10. ASSUME NEW t \in 0..reloj, cerrarSesion(h, u, t) PROVE InvFoto'
  <2> DEFINE q == [LIBRE EXCEPT !.paso = "eraseGet", !.u = u, !.t = t]
  <2>1. Seguir(h, q) /\ FotoSola(q, drives, perfiles, fotos)
    BY <1>10 DEF cerrarSesion, FotoSola, LIBRE, DeAlta
  <2> QED
    BY <1>7, <2>1
<1>11. ASSUME u \in passwords,
              Seguir(h, [LIBRE EXCEPT !.paso = "perfilModify", !.u = u,
                                      !.nueva = PerfilLeido(u)])
       PROVE  InvFoto'
  <2> DEFINE q == [LIBRE EXCEPT !.paso = "perfilModify", !.u = u, !.nueva = PerfilLeido(u)]
  <2>1. reinicios = 0 => u \in drives /\ FotosDe(u, fotos) = {PerfilLeido(u)}
    BY <1>3, <1>5, <1>11 DEF FotoDe
  <2>2. q.paso = "perfilModify" /\ q.u = u /\ q.nueva = PerfilLeido(u)
    BY DEF LIBRE
  <2> HIDE DEF q
  <2>3. reinicios = 0 => FotoSola(q, drives, perfiles, fotos)
    BY <2>1, <2>2 DEF FotoSola, DeAlta
  <2>4. Seguir(h, q)
    BY <1>11 DEF q
  <2> QED
    BY <1>7, <2>3, <2>4
<1>12. CASE actualizarUltimaUbicacion(h, u)
  <2>1. u \in passwords
    BY <1>6, <1>12 DEF actualizarUltimaUbicacion
  <2> QED
    BY <1>11, <1>12, <2>1 DEF actualizarUltimaUbicacion
<1>13. ASSUME NEW t \in 0..reloj, modificarDatos(h, u, t) PROVE InvFoto'
  <2>1. u \in passwords
    <3>1. <<u, t>> \in sesiones /\ <<u, t>>[1] = u
      BY <1>13 DEF modificarDatos, autenticarToken
    <3> QED
      BY <1>6, <3>1
  <2> QED
    BY <1>11, <1>13, <2>1 DEF modificarDatos
<1>14. ASSUME NEW t \in 0..reloj, NEW e \in Foto, modificarFoto(h, u, t, e) PROVE InvFoto'
  <2> DEFINE q == [LIBRE EXCEPT !.paso = "fotoBorrar", !.u = u,
                                !.vieja = PerfilLeido(u), !.nueva = e]
  <2>1. u \in passwords
    <3>1. <<u, t>> \in sesiones /\ <<u, t>>[1] = u
      BY <1>14 DEF modificarFoto, autenticarToken
    <3> QED
      BY <1>6, <3>1
  <2>2. reinicios = 0 => u \in drives /\ FotosDe(u, fotos) = {PerfilLeido(u)}
    BY <1>3, <1>5, <2>1 DEF FotoDe
  <2>3. q.paso = "fotoBorrar" /\ q.u = u /\ q.vieja = PerfilLeido(u) /\ q.nueva = e
    BY DEF LIBRE
  <2>4. Seguir(h, q)
    BY <1>14 DEF modificarFoto
  <2> HIDE DEF q
  <2>5. reinicios = 0 => FotoSola(q, drives, perfiles, fotos)
    BY <2>2, <2>3, <1>14 DEF FotoSola, DeAlta
  <2> QED
    BY <1>7, <2>4, <2>5
<1> QED
  BY <1>1, <1>8, <1>9, <1>10, <1>12, <1>13, <1>14

LEMMA PasoFoto == ASSUME UnHilo, Inv, InvFoto, NEW h \in Hilo, Paso(h) PROVE InvFoto'
<1> DEFINE r == hilo[h]
           En2(paso) == [r EXCEPT !.paso = paso]
           mismas == UNCHANGED <<perfiles, drives, fotos>>
<1>1. r \in Pedido /\ TypeOK
  BY DEF Inv, TypeOK
<1>2. \A paso \in Pasos : /\ En2(paso).paso = paso /\ En2(paso).u = r.u
                          /\ En2(paso).vieja = r.vieja /\ En2(paso).nueva = r.nueva
  BY <1>1 DEF Pedido
<1>3. \A paso : Ir(h, paso) => Seguir(h, En2(paso))
  BY DEF Ir
<1>4. Terminar(h) => Seguir(h, LIBRE)
  BY DEF Terminar
<1> HIDE DEF En2
<1>5. r.paso # "libre" /\ reinicios' = reinicios
  BY DEF Paso, En, passwordPut, perfilGet, perfilPut, listaGet, listaModify, listaPutGet,
         listaPut, permisosGet, permisosPut, carpetas, tokenGet, reintentar, tokenPut,
         eraseGet, eraseDelete, fotoBorrar, fotoGuardar, perfilModify, proceso, Registrado
<1>6. r.u \in Usuario
  BY <1>5, DeUnPaso
<1>7. SUFFICES ASSUME reinicios = 0 PROVE InvFoto'
  BY <1>5 DEF InvFoto
<1>8. /\ FotoSola(r, drives, perfiles, fotos)
      /\ \A u \in Usuario : \/ FotoDe(u, drives, perfiles, fotos)
                            \/ r.u = u /\ r.paso \in Cambiando
  BY <1>7 DEF InvFoto, UnHilo
<1>9. FotoSola(LIBRE, drives, perfiles, fotos) /\ FotoSola(LIBRE, drives', perfiles', fotos')
  BY DEF FotoSola, LIBRE, DeAlta
\* A step that leaves the pictures and the profiles.
<1>10. ASSUME mismas, r.paso \notin Cambiando, NEW q, Seguir(h, q),
              FotoSola(q, drives, perfiles, fotos)
       PROVE  InvFoto'
  <2>1. /\ FotoSola(q, drives', perfiles', fotos')
        /\ \A u \in Usuario : FotoDe(u, drives', perfiles', fotos')
    BY <1>8, <1>10 DEF FotoSola, FotoDe, FotosDe
  <2> QED
    BY <1>10, <2>1, FotoSigue
<1>11. ASSUME mismas, r.paso \notin Cambiando, Terminar(h) PROVE InvFoto'
  BY <1>4, <1>9, <1>10, <1>11
<1>12. ASSUME mismas, r.paso \notin Cambiando, NEW paso \in Pasos, Ir(h, paso),
              FotoSola(En2(paso), drives, perfiles, fotos)
       PROVE  InvFoto'
  BY <1>3, <1>10, <1>12
\* A step that touches only what is kept of the request's user.
<1>13. ASSUME NEW q, Seguir(h, q), FotoSola(q, drives', perfiles', fotos'),
              \A u \in Usuario \ {r.u} : /\ FotosDe(u, fotos') = FotosDe(u, fotos)
                                         /\ perfiles'[u] = perfiles[u]
                                         /\ (u \in drives') <=> (u \in drives),
              FotoDe(r.u, drives', perfiles', fotos') \/ (q.u = r.u /\ q.paso \in Cambiando)
       PROVE  InvFoto'
  <2>1. \A u \in Usuario : FotoDe(u, drives', perfiles', fotos') \/ (q.u = u /\ q.paso \in Cambiando)
    BY <1>8, <1>13 DEF FotoDe
  <2> QED
    BY <1>13, <2>1, FotoSigue
<1> USE DEF Pasos, Cambiando
<1>14. CASE passwordPut(h)
  <2>1. mismas /\ r.paso = "passwordPut" /\ Ir(h, "perfilGet")
    BY <1>14 DEF passwordPut, En
  <2>2. FotoSola(En2("perfilGet"), drives, perfiles, fotos)
    BY <1>2, <1>8, <2>1 DEF FotoSola, DeAlta
  <2> QED
    BY <1>12, <2>1, <2>2
<1>15. CASE perfilGet(h)
  <2>1. mismas /\ r.paso = "perfilGet" /\ (Terminar(h) \/ Ir(h, "perfilPut"))
    BY <1>15 DEF perfilGet, En, bases
  <2>2. FotoSola(En2("perfilPut"), drives, perfiles, fotos)
    BY <1>2, <1>8, <2>1 DEF FotoSola, DeAlta
  <2> QED
    BY <1>11, <1>12, <2>1, <2>2
<1>16. CASE perfilPut(h)
  <2>1. /\ r.paso = "perfilPut" /\ Seguir(h, En2("listaGet"))
        /\ UNCHANGED <<drives, fotos>> /\ perfiles' = [perfiles EXCEPT ![r.u] = DEFECTO]
    BY <1>3, <1>16 DEF perfilPut, En
  <2>2. r.u \notin drives /\ FotosDe(r.u, fotos') = {}
    BY <1>6, <1>8, <2>1 DEF FotoSola, FotoDe, FotosDe, DeAlta
  <2>3. perfiles'[r.u] = DEFECTO /\ \A u \in Usuario \ {r.u} : perfiles'[u] = perfiles[u]
    BY <1>1, <1>6, <2>1 DEF TypeOK
  <2>4. FotoSola(En2("listaGet"), drives', perfiles', fotos')
    <3>1. En2("listaGet").paso = "listaGet" /\ En2("listaGet").u = r.u
      BY <1>2
    <3>2. r.u \notin drives'
      BY <2>1, <2>2
    <3> QED
      BY <2>3, <3>1, <3>2 DEF FotoSola, DeAlta
  <2> QED
    BY <1>13, <2>1, <2>2, <2>3, <2>4 DEF FotoDe, FotosDe
<1>17. CASE listaGet(h)
  <2> DEFINE q == [r EXCEPT !.paso = "listaModify", !.leida = lista]
  <2>1. mismas /\ r.paso = "listaGet" /\ (Ir(h, "listaPutGet") \/ Seguir(h, q))
    BY <1>17 DEF listaGet, En, bases
  <2>2. q.paso = "listaModify" /\ q.u = r.u
    BY <1>1 DEF Pedido
  <2> HIDE DEF q
  <2>3. /\ FotoSola(q, drives, perfiles, fotos)
        /\ FotoSola(En2("listaPutGet"), drives, perfiles, fotos)
    BY <1>2, <1>8, <2>1, <2>2 DEF FotoSola, DeAlta
  <2> QED
    BY <1>10, <1>12, <2>1, <2>3
<1>18. CASE listaModify(h) \/ listaPutGet(h) \/ listaPut(h)
  <2>1. /\ mismas /\ r.paso \in {"listaModify", "listaPutGet", "listaPut"}
        /\ Ir(h, "listaPut") \/ Ir(h, "permisosGet")
    BY <1>18 DEF listaModify, listaPutGet, listaPut, Registrado, En, bases
  <2>2. /\ FotoSola(En2("listaPut"), drives, perfiles, fotos)
        /\ FotoSola(En2("permisosGet"), drives, perfiles, fotos)
    BY <1>2, <1>8, <2>1 DEF FotoSola, DeAlta
  <2> QED
    BY <1>12, <2>1, <2>2
<1>19. CASE permisosGet(h)
  <2>1. mismas /\ r.paso = "permisosGet" /\ (Terminar(h) \/ Ir(h, "permisosPut"))
    BY <1>19 DEF permisosGet, En, bases
  <2>2. FotoSola(En2("permisosPut"), drives, perfiles, fotos)
    BY <1>2, <1>8, <2>1 DEF FotoSola, DeAlta
  <2> QED
    BY <1>11, <1>12, <2>1, <2>2
<1>20. CASE permisosPut(h)
  <2>1. /\ r.paso = "permisosPut" /\ Seguir(h, En2("carpetas"))
        /\ UNCHANGED <<perfiles, fotos>> /\ drives' = drives \cup {r.u}
    BY <1>3, <1>20 DEF permisosPut, En
  <2>2. FotosDe(r.u, fotos') = {} /\ perfiles'[r.u] = DEFECTO
    BY <1>6, <1>8, <2>1 DEF FotoSola, FotoDe, FotosDe, DeAlta
  <2>3. En2("carpetas").paso = "carpetas" /\ En2("carpetas").u = r.u
    BY <1>2
  <2>4. FotoSola(En2("carpetas"), drives', perfiles', fotos')
    BY <2>2, <2>3 DEF FotoSola
  <2> QED
    BY <1>13, <2>1, <2>3, <2>4 DEF FotosDe
<1>21. CASE carpetas(h)
  <2>1. /\ r.paso = "carpetas" /\ Seguir(h, LIBRE)
        /\ UNCHANGED <<perfiles, drives>> /\ fotos' = fotos \cup {<<r.u, DEFECTO>>}
    BY <1>4, <1>21 DEF carpetas, En
  <2>2. FotosDe(r.u, fotos) = {} /\ perfiles[r.u] = DEFECTO /\ r.u \in drives
    BY <1>8, <2>1, DeUnPaso DEF FotoSola
  <2>3. FotosDe(r.u, fotos') = {DEFECTO}
    BY <2>1, <2>2 DEF FotosDe, Foto, DEFECTO
  <2> QED
    BY <1>9, <1>13, <2>1, <2>2, <2>3 DEF FotoDe, FotosDe
<1>22. CASE tokenGet(h)
  <2>1. mismas /\ r.paso = "tokenGet" /\ (Ir(h, "reintento") \/ Ir(h, "tokenPut"))
    BY <1>22 DEF tokenGet, En, bases
  <2>2. /\ FotoSola(En2("reintento"), drives, perfiles, fotos)
        /\ FotoSola(En2("tokenPut"), drives, perfiles, fotos)
    BY <1>2 DEF FotoSola, DeAlta
  <2> QED
    BY <1>12, <2>1, <2>2
<1>23. CASE reintentar(h)
  <2> DEFINE q == [r EXCEPT !.paso = "tokenGet", !.t = reloj]
  <2>1. mismas /\ r.paso = "reintento" /\ Seguir(h, q)
    BY <1>23 DEF reintentar, En, bases
  <2>2. q.paso = "tokenGet"
    BY <1>1 DEF Pedido
  <2> HIDE DEF q
  <2>3. FotoSola(q, drives, perfiles, fotos)
    BY <2>2 DEF FotoSola, DeAlta
  <2> QED
    BY <1>10, <2>1, <2>3
<1>24. CASE tokenPut(h) \/ eraseDelete(h)
  BY <1>11, <1>24 DEF tokenPut, eraseDelete, En
<1>25. CASE eraseGet(h)
  <2>1. /\ mismas /\ r.paso = "eraseGet"
        /\ Ir(h, "eraseDelete") \/ UNCHANGED hilo
    BY <1>25 DEF eraseGet, En, bases
  <2>2. FotoSola(En2("eraseDelete"), drives, perfiles, fotos)
    BY <1>2 DEF FotoSola, DeAlta
  <2>3. CASE UNCHANGED hilo
    BY <1>5, <2>1, <2>3 DEF InvFoto, FotoSola, FotoDe, FotosDe
  <2> QED
    BY <1>12, <2>1, <2>2, <2>3
<1>26. CASE fotoBorrar(h)
  <2>1. /\ r.paso = "fotoBorrar" /\ Seguir(h, En2("fotoGuardar"))
        /\ UNCHANGED <<perfiles, drives>> /\ fotos' = fotos \ {<<r.u, r.vieja>>}
    BY <1>3, <1>26 DEF fotoBorrar, En
  <2>2. FotosDe(r.u, fotos) = {r.vieja} /\ r.u \in drives /\ r.nueva \in Foto
    BY <1>8, <2>1 DEF FotoSola
  <2>3. /\ FotosDe(r.u, fotos') = {}
        /\ \A u \in Usuario \ {r.u} : FotosDe(u, fotos') = FotosDe(u, fotos)
    BY <2>1, <2>2 DEF FotosDe
  <2>4. /\ En2("fotoGuardar").paso = "fotoGuardar" /\ En2("fotoGuardar").u = r.u
        /\ En2("fotoGuardar").nueva = r.nueva
    BY <1>2
  <2>5. FotoSola(En2("fotoGuardar"), drives', perfiles', fotos')
    BY <2>1, <2>2, <2>3, <2>4 DEF FotoSola, DeAlta
  <2> QED
    BY <1>13, <2>1, <2>3, <2>4, <2>5
<1>27. CASE fotoGuardar(h)
  <2>1. /\ r.paso = "fotoGuardar" /\ Seguir(h, En2("perfilModify"))
        /\ UNCHANGED <<perfiles, drives>> /\ fotos' = fotos \cup {<<r.u, r.nueva>>}
    BY <1>3, <1>27 DEF fotoGuardar, En
  <2>2. FotosDe(r.u, fotos) = {} /\ r.u \in drives /\ r.nueva \in Foto
    BY <1>8, <2>1 DEF FotoSola
  <2>3. /\ FotosDe(r.u, fotos') = {r.nueva}
        /\ \A u \in Usuario \ {r.u} : FotosDe(u, fotos') = FotosDe(u, fotos)
    BY <2>1, <2>2 DEF FotosDe
  <2>4. /\ En2("perfilModify").paso = "perfilModify" /\ En2("perfilModify").u = r.u
        /\ En2("perfilModify").nueva = r.nueva
    BY <1>2
  <2>5. FotoSola(En2("perfilModify"), drives', perfiles', fotos')
    BY <2>1, <2>2, <2>3, <2>4 DEF FotoSola, DeAlta
  <2> QED
    BY <1>13, <2>1, <2>3, <2>4, <2>5
<1>28. CASE perfilModify(h)
  <2>1. r.paso = "perfilModify" /\ Seguir(h, LIBRE) /\ UNCHANGED <<drives, fotos>>
    BY <1>4, <1>28 DEF perfilModify, En
  <2>2. FotosDe(r.u, fotos) = {r.nueva} /\ r.u \in drives
    BY <1>8, <2>1 DEF FotoSola
  <2>3. perfiles' = [perfiles EXCEPT ![r.u] = r.nueva]
    BY <1>28, <2>2 DEF perfilModify, Inv, AltaOrdenada
  <2>4. perfiles'[r.u] = r.nueva /\ \A u \in Usuario \ {r.u} : perfiles'[u] = perfiles[u]
    BY <1>1, <1>6, <2>3 DEF TypeOK
  <2> QED
    BY <1>9, <1>13, <2>1, <2>2, <2>4 DEF FotoDe, FotosDe
<1> QED
  BY <1>14, <1>15, <1>16, <1>17, <1>18, <1>19, <1>20, <1>21, <1>22, <1>23, <1>24, <1>25,
     <1>26, <1>27, <1>28 DEF Paso

\* With one thread and until a crash, between requests a user with a drive has one
\* picture on disk, the one his profile names: actualizarFotoPerfil removes the one it
\* read, and modifyPerfil finds the profile it read.
THEOREM FotoSiempre ==
  ASSUME UnHilo
  PROVE  Spec => []FotoDelPerfil
<1>1. Init => InvFoto
  BY DEF Init, InvFoto, FotoSola, FotoDe, FotosDe, LIBRE, DeAlta
<1>2. Inv /\ AltaEntera /\ InvFoto /\ [Next]_vars => InvFoto'
  <2> SUFFICES ASSUME Inv, AltaEntera, InvFoto, [Next]_vars PROVE InvFoto'
    OBVIOUS
  <2>1. CASE \E h \in Hilo : Pedir(h) \/ Paso(h)
    BY <2>1, PedirFoto, PasoFoto
  <2>2. CASE Segundero
    BY <2>2 DEF Segundero, InvFoto, FotoSola, FotoDe, FotosDe, bases
  <2>3. CASE Reiniciar
    BY <2>3 DEF Reiniciar, InvFoto, Inv, TypeOK
  <2>4. CASE UNCHANGED vars
    BY <2>4 DEF vars, InvFoto, FotoSola, FotoDe, FotosDe, bases, proceso
  <2> QED
    BY <2>1, <2>2, <2>3, <2>4 DEF Next
<1>3. Inv /\ InvFoto => FotoDelPerfil
  <2> SUFFICES ASSUME Inv, InvFoto, reinicios = 0, NEW u \in drives
               PROVE  (\E h \in Hilo : hilo[h].u = u) \/ FotosDe(u, fotos) = {perfiles[u]}
    BY DEF FotoDelPerfil, FotosDe
  <2>1. u \in Usuario
    BY DEF Inv, TypeOK
  <2> QED
    BY <2>1 DEF InvFoto, FotoDe
<1> QED
  BY <1>1, <1>2, <1>3, InitInv, NextInv, AltaEnteraSiempre, PTL DEF Spec
=============================================================================
