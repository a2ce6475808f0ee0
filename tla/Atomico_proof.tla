---------------------------- MODULE Atomico_proof ----------------------------
(* A request of ArchivosHilos that runs alone does one step of Archivos, for any   *)
(* threads and requests, and whatever state the earlier ones and crashes have left.*)
EXTENDS Aislamiento_proof

(* What a request that runs alone has done.  A record a has the stores before it, and *)
(* e the stores as it has left them so far.                                           *)

Presentes(e, k) == {v \in Version : e.disco[k][v] # NADA}

Con(e, k) == e.meta[k] # NADA

Esta(e, k) == 1 \in Presentes(e, k) /\ Con(e, k)

Puede(e, u, k) == u = k.dueno \/ k \in e.permisos[u]

Ultima(e, k) == e.meta[k].ultimaVersion

\* Its versions 1, 2, ... before the first that is not there.
Seguidas(e, k) == {i \in 1..Ultima(e, k) : \A j \in 1..i : j \in Presentes(e, k)}

EsSecuencia(e, k, n) ==
  LET usados == {m \in Secuencia : Presentes(e, EnPapelera(k, m)) # {}}
  IN  /\ \A m \in usados : m < n
      /\ n = 0 \/ n - 1 \in usados

MasCarpeta(C, dueno, dir) == [C EXCEPT ![dueno] = @ \cup Prefixes(dir)]

\* The last version is n.
MasVersion(M, k, n) == [M EXCEPT ![k] = [M[k] EXCEPT !.ultimaVersion = n]]

PorCargar == {"carga_get", "carga_put"}

HechoSubir(r, a, e) ==
  LET k == r.clave
  IN  /\ Puede(a, r.user, k)
      /\ r.primera <=> ~Esta(a, k)
      /\ r.paso # "version" =>
           r.n \in Version /\ r.n = IF r.primera THEN 1 ELSE Ultima(a, k) + 1
      /\ r.paso = "version" => ~r.primera
      /\ r.paso \in {"sube_get", "sube_put"} => Con(a, k)
      /\ r.paso = "sube_put" => r.leido = [a.meta[k] EXCEPT !.ultimaVersion = r.n]
      /\ r.paso \in PorCargar => r.primera
      /\ r.paso = "carga_put" => ~Con(a, k)
      /\ IF r.paso \in {"version", "carpeta"} THEN e.carpetas = a.carpetas
         ELSE /\ r.user = k.dueno \/ CarpetaDe(k.ruta) \in a.carpetas[k.dueno]
              /\ e.carpetas = MasCarpeta(a.carpetas, k.dueno, CarpetaDe(k.ruta))
      /\ e.meta = IF r.paso \in PorCargar \cup {"escribe"} /\ Con(a, k)
                  THEN MasVersion(a.meta, k, r.n) ELSE a.meta
      /\ \A c \in Clave : Presentes(e, c) =
           IF c = k /\ r.paso \in PorCargar THEN Presentes(a, c) \cup {1} ELSE Presentes(a, c)
      /\ e.permisos = a.permisos

\* The stores agree on c.
Igual(a, e, c) ==
  /\ e.meta[c] = a.meta[c] /\ Presentes(e, c) = Presentes(a, c)
  /\ \A u \in Usuario : c \in e.permisos[u] <=> c \in a.permisos[u]

\* They agree on k, live and in the trash.
Intacto(a, e, k) == \A c \in Clave : Archivo(c) = Archivo(k) => Igual(a, e, c)

\* The metadata of k have moved to its place n in the trash, and its versions of vs.
Mandado(a, e, k, n, vs) ==
  LET m == a.meta[k]
      t == EnPapelera(k, n)
  IN  /\ a.meta[t] = NADA
      /\ \A c \in Clave : Archivo(c) = Archivo(k) /\ c \notin {k, t} => Igual(a, e, c)
      /\ e.meta[k] = NADA /\ e.meta[t] = [m EXCEPT !.usuarios = {m.propietario}]
      /\ Presentes(e, k) = Presentes(a, k) \ vs /\ Presentes(e, t) = Presentes(a, t) \cup vs
      /\ \A u \in Usuario :
           /\ k \in e.permisos[u] <=>
                k \in a.permisos[u] /\ u \notin m.usuarios \ {m.propietario}
           /\ t \in e.permisos[u] <=> t \in a.permisos[u]

\* The deletion of k is over: the trash took it, or refused it.
Borrado(a, e, k) ==
  \E n \in Secuencia :
    /\ EsSecuencia(a, k, n)
    /\ IF Con(a, EnPapelera(k, n)) THEN Intacto(a, e, k)
       ELSE Mandado(a, e, k, n, Seguidas(a, k))

\* The files of a folder.
Contenidos(a, u, dir) == {k \in EnCarpeta(u, dir) : Esta(a, k)}

\* The folder is gone, if there is nothing in it.
Retirada(a, e, u, dir) ==
  e.carpetas = IF \E c \in EnCarpeta(u, dir) : Presentes(e, c) # {} THEN a.carpetas
               ELSE [a.carpetas EXCEPT ![u] = {d \in @ : ~IsPrefix(dir, d)}]

\* The files it deletes,
PorBorrar(r, a) ==
  IF r.borra THEN Contenidos(a, r.user, CarpetaDe(r.clave.ruta)) ELSE {r.clave}

\* and those it has still to take up.
Quedan(r) == r.claves \cup IF r.paso \in {"recorre", "rm"} THEN {} ELSE {r.clave}

PorMandar == {"borra_get", "secuencia", "invitado", "lote_escribe"}

HechoBorrar(r, a, e) ==
  LET k == r.clave
      g == r.leido.usuarios \ {r.leido.propietario}
      S == IF r.borra THEN r.claves ELSE {}
  IN  /\ e.carpetas = a.carpetas
      /\ ~r.borra => Puede(a, r.user, k) /\ r.claves = {}
      /\ r.borra =>
           /\ CarpetaDe(k.ruta) # <<>> /\ CarpetaDe(k.ruta) \in a.carpetas[r.user]
           /\ \A d \in a.carpetas[r.user] : ~IsStrictPrefix(CarpetaDe(k.ruta), d)
           /\ \A c \in Bajo(r.user, CarpetaDe(k.ruta)) :
                Presentes(a, c) # {} => CarpetaDe(c.ruta) = CarpetaDe(k.ruta)
      /\ r.paso \notin {"recorre", "rm"} => Esta(a, k) /\ k \notin r.claves
      /\ \A c \in PorBorrar(r, a) \ Quedan(r) : Borrado(a, e, c)
      /\ \A c \in Clave : Viva(c) /\ c \notin PorBorrar(r, a) \ Quedan(r) =>
           Intacto(a, e, c) \/ (r.paso = "mueve" /\ c = k)
      /\ r.paso \in {"secuencia", "invitado", "lote_escribe", "mueve"} => r.leido = a.meta[k]
      /\ r.paso \in {"invitado", "lote_escribe", "mueve"} =>
           \E n \in Secuencia : r.destino = EnPapelera(k, n) /\ EsSecuencia(a, k, n)
      /\ r.paso \in {"secuencia", "invitado"} => r.pend \subseteq g
      /\ r.paso = "secuencia" => r.pend = g
      /\ r.paso \in {"invitado", "lote_escribe"} =>
           \A u \in g \ (IF r.paso = "invitado" THEN r.pend ELSE {}) :
             r.indices[u] = e.permisos[u] \ {k}
      /\ r.paso = "lote_escribe" => ~Con(a, r.destino)
      /\ r.paso = "mueve" =>
           /\ r.n \in 1..Ultima(a, k) /\ 1..(r.n - 1) \subseteq Presentes(a, k)
           /\ Mandado(a, e, k, r.destino.sec, 1..(r.n - 1))
      /\ r.paso \in PorMandar => r.n = 1
      /\ r.paso = "rm" =>
           \A c \in Bajo(r.user, CarpetaDe(k.ruta)) : Presentes(e, c) = {}

HechoPurgar(r, a, e) ==
  /\ ~Viva(r.clave) /\ Puede(a, r.user, r.clave) /\ Esta(a, r.clave)
  /\ e.meta = IF r.paso = "purga_rm" THEN [a.meta EXCEPT ![r.clave] = NADA] ELSE a.meta
  /\ e.carpetas = a.carpetas /\ e.permisos = a.permisos
  /\ \A c \in Clave : Presentes(e, c) = Presentes(a, c)

\* The versions of k before n have moved to c.
Movido(a, e, k, c, n) ==
  /\ n \in 1..(Ultima(a, k) + 1) /\ 1..(n - 1) \subseteq Presentes(a, k)
  /\ \A x \in Clave : Presentes(e, x) =
       IF x = k THEN Presentes(a, x) \ (1..(n - 1))
       ELSE IF x = c THEN Presentes(a, x) \cup 1..(n - 1)
       ELSE Presentes(a, x)

HechoRestaurar(r, a, e) ==
  LET k == r.clave
  IN  /\ Puede(a, r.user, k) /\ r.paso # "deshace"
      /\ r.paso \notin {"rest_carpeta", "puedo"} =>
           Esta(a, k) /\ ~Con(a, r.destino) /\ 1 \notin Presentes(a, r.destino)
      /\ r.paso = "rest_mueve" => r.leido = a.meta[k]
      /\ r.paso \in {"rest_lote", "rest_escribe"} => r.nuevo = a.meta[k]
      /\ r.paso \in {"rest_lote", "rest_escribe"} => r.n = Ultima(a, k) + 1
      /\ e.carpetas = IF r.paso = "rest_carpeta" THEN a.carpetas
                      ELSE MasCarpeta(a.carpetas, r.user, CarpetaDe(k.ruta))
      /\ e.meta = a.meta /\ e.permisos = a.permisos
      /\ IF r.paso \in Moviendo \cup TrasMover THEN Movido(a, e, k, r.destino, r.n)
         ELSE \A c \in Clave : Presentes(e, c) = Presentes(a, c)

\* Whom a change of the users list adds and leaves out.
Nuevos(r, a) == r.lista \ a.meta[r.clave].usuarios
Sobran(r, a) == a.meta[r.clave].usuarios \ r.lista

PorPermiso == {"perm_get", "perm_indice", "perm_lote", "perm_escribe"}

\* Those it has still to look at.
Faltan(r) == r.pend \cup IF r.paso \in PorPermiso THEN {r.quien} ELSE {}

\* Of those left out it has taken the path from Q: all, until it takes it from itself.
Quitados(r, a, E, Q) ==
  /\ Q \subseteq Sobran(r, a) \ E
  /\ IF r.user \in Sobran(r, a) \ E /\ r.user # r.clave.dueno
     THEN r.user \in Q ELSE Q = Sobran(r, a) \ E
  /\ Q # {} => Nuevos(r, a) \cap E = {}

\* The indices when the path is given to N and taken from Q.
Repartidos(a, k, N, Q) ==
  [u \in Usuario |-> (a.permisos[u] \cup IF u \in N THEN {k} ELSE {})
                       \ IF u \in Q THEN {k} ELSE {}]

MasUsuarios(M, k, N) == [M EXCEPT ![k] = [M[k] EXCEPT !.usuarios = @ \cup N]]

HechoRepartir(r, a, e) ==
  LET k == r.clave
      N == Nuevos(r, a) \ Faltan(r)
      m == e.meta[k]
  IN  /\ Faltan(r) \subseteq Nuevos(r, a) \cup Sobran(r, a)
      /\ e.meta = MasUsuarios(a.meta, k, N)
      /\ \E Q \in SUBSET Usuario :
           Quitados(r, a, Faltan(r), Q) /\ e.permisos = Repartidos(a, k, N, Q)
      /\ r.paso \in PorPermiso =>
           /\ Puede(e, r.user, k) /\ r.quien \notin r.pend
           /\ r.quien \in r.lista \/ r.pend \cap r.lista = {}
      /\ r.paso \in PorPermiso \ {"perm_get"} =>
           r.nuevo = [m EXCEPT !.usuarios = IF r.quien \in r.lista THEN @ \cup {r.quien} ELSE @]
      /\ r.paso \in {"perm_lote", "perm_escribe"} =>
           r.indices[r.quien] = IF r.quien \in r.lista THEN e.permisos[r.quien] \cup {k}
                                                       ELSE e.permisos[r.quien] \ {k}
      /\ r.paso = "act_put" => r.pend = {} /\ r.destino = k
      /\ \A c \in Clave : Presentes(e, c) = Presentes(a, c)

\* The indices of H have the new path for the old.
Renombrados(P, H, k, c) ==
  [u \in Usuario |-> IF u \in H THEN (P[u] \ {k}) \cup {c} ELSE P[u]]

\* The guests whose index has still to be written.
PorRenombrar(r) ==
  (IF r.paso = "ren_mueve" THEN r.lista ELSE r.pend)
    \cup IF r.paso = "ren_modify" THEN {r.quien} ELSE {}

HechoRenombrar(r, a, e) ==
  LET k == r.clave
      c == r.destino
      H == (r.lista \ {k.dueno}) \ PorRenombrar(r)
  IN  /\ e.meta = MasUsuarios(a.meta, k, Nuevos(r, a))
      /\ ~Con(a, c)
      /\ \E Q \in SUBSET Usuario :
           /\ Quitados(r, a, {}, Q)
           /\ e.permisos = Renombrados(Repartidos(a, k, Nuevos(r, a), Q), H, k, c)
      /\ r.paso # "ren_mueve" => r.n = Ultima(a, k) + 1 /\ r.pend \subseteq r.lista \ {k.dueno}
      /\ r.paso = "ren_modify" =>
           /\ r.quien \in r.lista \ {k.dueno} /\ r.quien \notin r.pend
           /\ r.indices[r.quien] = (e.permisos[r.quien] \ {k}) \cup {c}
      /\ r.paso = "ren_escribe" => r.pend = {}
      /\ Movido(a, e, k, c, r.n)

HechoActualizar(r, a, e) ==
  LET k == r.clave
  IN  /\ Puede(a, r.user, k) /\ Con(a, k) /\ e.carpetas = a.carpetas
      /\ IF r.paso = "act_get"
         THEN e = a /\ (r.lista # {} => k.dueno \in r.lista)
         ELSE /\ r.lista = a.meta[k].usuarios \/ k.dueno \in r.lista
              /\ r.leido = a.meta[k]
              /\ IF r.paso \in Moviendo \cup TrasMover
                 THEN HechoRenombrar(r, a, e) ELSE HechoRepartir(r, a, e)

Purgando == {"purga_get", "purga_erase", "purga_rm"}

Hecho(r, a, e) ==
  /\ r.paso \in Subiendo => HechoSubir(r, a, e)
  /\ r.paso \in Borrando => HechoBorrar(r, a, e)
  /\ r.paso \in Purgando => HechoPurgar(r, a, e)
  /\ r.paso \in Restaurando => HechoRestaurar(r, a, e)
  /\ r.paso \in Cambiando => HechoActualizar(r, a, e)
  /\ r.paso = "busca" => e = a

\* Archivos has no version but those of Version.
Tipado(a) == \A k \in Clave : Con(a, k) => Ultima(a, k) \in Version

Almacenes == [carpetas : [Usuario -> SUBSET Carpeta], disco : Disco,
              meta : [Clave -> Metadato \cup {NADA}], permisos : [Usuario -> SUBSET Clave]]

Solos ==
  /\ antes \in Almacenes
  /\ EnCurso = {} => antes = Ahora
  /\ solo => \A g \in EnCurso, h \in EnCurso : g = h
  /\ solo /\ Tipado(antes) => \A h \in EnCurso : Hecho(hilo[h], antes, Ahora)

-----------------------------------------------------------------------------
(* Archivos, on the stores of antes *)

LEMMA MismosNombres ==
  /\ A!Clave = Clave /\ A!Version = Version /\ A!Secuencia = Secuencia /\ A!Carpeta = Carpeta
  /\ A!VIVA = VIVA
  /\ \A k : A!Viva(k) <=> Viva(k)
  /\ \A r : A!CarpetaDe(r) = CarpetaDe(r)
  /\ \A k, n : A!EnPapelera(k, n) = EnPapelera(k, n)
  /\ \A u, k : A!ClaveReal(u, k) = ClaveReal(u, k)
  /\ \A k, c : A!MismaCarpeta(k, c) <=> MismaCarpeta(k, c)
  /\ \A s : A!Prefixes(s) = Prefixes(s)
  /\ \A s, t : A!IsPrefix(s, t) <=> IsPrefix(s, t)
<1>1. A!VIVA = VIVA /\ A!Secuencia = Secuencia /\ A!Version = Version
  BY DEF A!VIVA, VIVA, A!Secuencia, Secuencia, A!Version, Version
<1>2. A!Clave = Clave
  BY <1>1 DEF A!Clave, Clave
<1>3. /\ \A k : A!Viva(k) <=> Viva(k)
      /\ \A k, n : A!EnPapelera(k, n) = EnPapelera(k, n)
      /\ \A u, k : A!ClaveReal(u, k) = ClaveReal(u, k)
  BY <1>1 DEF A!Viva, Viva, A!EnPapelera, EnPapelera, A!ClaveReal, ClaveReal
<1>4. \A r : A!CarpetaDe(r) = CarpetaDe(r)
  BY DEF A!CarpetaDe, CarpetaDe
<1>5. \A k, c : A!MismaCarpeta(k, c) <=> MismaCarpeta(k, c)
  BY <1>4 DEF A!MismaCarpeta, MismaCarpeta
<1>6. \A s, t : A!IsPrefix(s, t) <=> IsPrefix(s, t)
  BY DEF A!IsPrefix, IsPrefix
<1>7. \A s : A!Prefixes(s) = Prefixes(s)
  BY <1>6 DEF A!Prefixes, Prefixes
<1>8. A!Carpeta = Carpeta
  BY <1>4, <1>7 DEF A!Carpeta, Carpeta
<1> QED
  BY <1>1, <1>2, <1>3, <1>4, <1>5, <1>6, <1>7, <1>8

\* What Archivos reads of the stores.
LEMMA Lecturas ==
  ASSUME NEW k \in Clave
  PROVE  /\ \A u : A!verificarPermisos(u, k) <=> Puede(antes, u, k)
         /\ A!existeMetadato(k) <=> Con(antes, k)
         /\ A!existeArchivo(k) <=> 1 \in Presentes(antes, k)
         /\ A!Existe(k) <=> Esta(antes, k)
         /\ A!esPathValido(k) <=> Viva(k)
         /\ Con(antes, k) => A!Renombradas(k, Ultima(antes, k)) = Seguidas(antes, k)
         /\ \A n \in Secuencia : A!esNumeroSecuencia(k, n) <=> EsSecuencia(antes, k, n)
<1>1. \A u : A!verificarPermisos(u, k) <=> Puede(antes, u, k)
  BY DEF A!verificarPermisos, Puede
<1>2. A!existeMetadato(k) <=> Con(antes, k)
  BY DEF A!existeMetadato, Con
<1>3. A!existeArchivo(k) <=> 1 \in Presentes(antes, k)
  BY DEF A!existeArchivo, Presentes
<1>4. A!Existe(k) <=> Esta(antes, k)
  BY <1>2, <1>3 DEF A!Existe, Esta
<1>5. A!esPathValido(k) <=> Viva(k)
  BY MismosNombres DEF A!esPathValido
<1>6. Con(antes, k) => A!Renombradas(k, Ultima(antes, k)) = Seguidas(antes, k)
  BY DEF A!Renombradas, Seguidas, Presentes
<1>7. \A n \in Secuencia : EnPapelera(k, n) \in Clave
  BY DEF EnPapelera, Clave
<1>8. \A n \in Secuencia : A!esNumeroSecuencia(k, n) <=> EsSecuencia(antes, k, n)
  <2>1. \A m \in Secuencia :
          [c \in Clave |-> {v \in Version : antes.disco[c][v] # NADA}][EnPapelera(k, m)]
             = Presentes(antes, EnPapelera(k, m))
    BY <1>7 DEF Presentes
  <2> QED
    BY <2>1, MismosNombres DEF A!esNumeroSecuencia, EsSecuencia
<1> QED
  BY <1>1, <1>2, <1>3, <1>4, <1>5, <1>6, <1>8

LEMMA EsPaso == ASSUME NEW u \in Usuario, A!Pedido(u) PROVE A!Next
BY DEF A!Next

LEMMA HaceSubir ==
  ASSUME antes \in Almacenes, NEW u \in Usuario, NEW k \in Clave, Viva(k),
         Puede(antes, u, k), NEW n \in Version,
         n = IF Esta(antes, k) THEN Ultima(antes, k) + 1 ELSE 1,
         u = k.dueno \/ CarpetaDe(k.ruta) \in antes.carpetas[k.dueno],
         antes'.carpetas = MasCarpeta(antes.carpetas, k.dueno, CarpetaDe(k.ruta)),
         antes'.meta = IF Con(antes, k) THEN MasVersion(antes.meta, k, n)
                       ELSE [antes.meta EXCEPT ![k] = MetadatoNuevo(k)],
         \A c \in Clave : Presentes(antes', c) =
           IF c = k THEN Presentes(antes, c) \cup {n} ELSE Presentes(antes, c),
         antes'.permisos = antes.permisos
  PROVE  A!Next
<1> DEFINE D == [c \in Clave |-> {v \in Version : antes.disco[c][v] # NADA}]
<1>1. /\ A!esPathValido(k) /\ A!verificarPermisos(u, k)
      /\ A!Existe(k) <=> Esta(antes, k)
  BY Lecturas
<1>2. A!VersionSubida(k, n, TRUE) = n
  BY <1>1 DEF A!VersionSubida, Ultima
<1>3. A!puedeCrearCarpeta(u, k.dueno, A!CarpetaDe(k.ruta))
  BY MismosNombres DEF A!puedeCrearCarpeta
<1>4. antes'.carpetas = A!ConCarpeta(k.dueno, A!CarpetaDe(k.ruta))
  BY MismosNombres DEF A!ConCarpeta, MasCarpeta
<1>5. D' = [D EXCEPT ![k] = @ \cup {n}]
  <2>1. /\ D = [c \in Clave |-> Presentes(antes, c)]
        /\ D' = [c \in Clave |-> Presentes(antes', c)]
    BY DEF Presentes
  <2> QED
    BY <2>1
<1>6. antes'.meta = [antes.meta EXCEPT ![k] = IF @ = NADA THEN A!MetadatoNuevo(k)
                                              ELSE [@ EXCEPT !.ultimaVersion = n]]
  BY DEF Con, MasVersion, A!MetadatoNuevo, MetadatoNuevo
<1>7. n \in A!Version /\ k \in A!Clave
  BY MismosNombres
<1>8. A!subirArchivo(u, k, n, TRUE)
  BY <1>1, <1>2, <1>3, <1>4, <1>5, <1>6, <1>7 DEF A!subirArchivo
<1>9. A!Pedido(u)
  BY <1>7, <1>8 DEF A!Pedido
<1> QED
  BY <1>9, EsPaso

LEMMA HacePurgar ==
  ASSUME antes \in Almacenes, NEW u \in Usuario, NEW k \in Clave, ~Viva(k),
         Puede(antes, u, k), Esta(antes, k),
         antes'.meta = [antes.meta EXCEPT ![k] = NADA],
         \A c \in Clave : Presentes(antes', c) = IF c = k THEN {} ELSE Presentes(antes, c),
         antes'.carpetas = antes.carpetas, antes'.permisos = antes.permisos
  PROVE  A!Next
<1> DEFINE D == [c \in Clave |-> {v \in Version : antes.disco[c][v] # NADA}]
<1>1. ~A!Viva(k) /\ A!verificarPermisos(u, k) /\ A!Existe(k)
  BY Lecturas, MismosNombres
<1>2. D' = [D EXCEPT ![k] = {}]
  BY DEF Presentes
<1>3. A!eliminarDefinitivamente(u, k)
  BY <1>1, <1>2 DEF A!eliminarDefinitivamente
<1>4. A!Pedido(u)
  BY <1>3, MismosNombres DEF A!Pedido, A!PideEliminar
<1> QED
  BY <1>4, EsPaso

LEMMA HaceRestaurar ==
  ASSUME antes \in Almacenes, NEW u \in Usuario, NEW k \in Clave, NEW c \in Clave, ~Viva(k),
         Puede(antes, u, k), c = ClaveReal(u, k),
         antes'.carpetas = MasCarpeta(antes.carpetas, u, CarpetaDe(k.ruta)),
         antes'.permisos = antes.permisos,
         NEW vs \in SUBSET Version,
         \A x \in Clave : Presentes(antes', x) =
           IF x = k THEN Presentes(antes, x) \ vs
           ELSE IF x = c THEN Presentes(antes, x) \cup vs ELSE Presentes(antes, x),
         IF Esta(antes, k) /\ ~Con(antes, c) /\ 1 \notin Presentes(antes, c)
         THEN /\ vs = Seguidas(antes, k)
              /\ antes'.meta = IF vs = 1..Ultima(antes, k)
                               THEN [antes.meta EXCEPT ![k] = NADA, ![c] = antes.meta[k]]
                               ELSE antes.meta
         ELSE vs = {} /\ antes'.meta = antes.meta
  PROVE  A!Next
<1> DEFINE D == [x \in Clave |-> {v \in Version : antes.disco[x][v] # NADA}]
<1>1. /\ ~A!Viva(k) /\ A!verificarPermisos(u, k) /\ c = A!ClaveReal(u, k)
      /\ k # c
  BY Lecturas, MismosNombres DEF ClaveReal, Viva
<1>2. A!puedoRestaurarA(k, c) <=>
        Esta(antes, k) /\ ~Con(antes, c) /\ 1 \notin Presentes(antes, c)
  BY Lecturas DEF A!puedoRestaurarA
<1>3. antes'.carpetas = A!ConCarpeta(u, A!CarpetaDe(k.ruta))
  BY MismosNombres DEF A!ConCarpeta, MasCarpeta
<1>4. D' = [D EXCEPT ![k] = @ \ vs, ![c] = @ \cup vs]
  BY <1>1 DEF Presentes
<1>5. CASE A!puedoRestaurarA(k, c)
  <2>1. vs = A!Renombradas(k, antes.meta[k].ultimaVersion)
    BY <1>2, <1>5, Lecturas DEF Ultima, Esta
  <2>2. D' = A!Mover(k, c, vs)
    BY <1>4 DEF A!Mover
  <2>3. antes'.meta = IF vs = 1..antes.meta[k].ultimaVersion
                      THEN [antes.meta EXCEPT ![k] = NADA, ![c] = antes.meta[k]]
                      ELSE antes.meta
    BY <1>2, <1>5 DEF Ultima
  <2>4. A!restaurar(u, k)
    BY <1>1, <1>3, <1>5, <2>1, <2>2, <2>3 DEF A!restaurar
  <2>5. A!Pedido(u)
    BY <2>4, MismosNombres DEF A!Pedido
  <2> QED
    BY <2>5, EsPaso
<1>6. CASE ~A!puedoRestaurarA(k, c)
  <2>1. D' = D /\ antes'.meta = antes.meta
    BY <1>2, <1>6 DEF Presentes
  <2>4. A!restaurar(u, k)
    BY <1>1, <1>3, <1>6, <2>1 DEF A!restaurar
  <2>5. A!Pedido(u)
    BY <2>4, MismosNombres DEF A!Pedido
  <2> QED
    BY <2>5, EsPaso
<1> QED
  BY <1>5, <1>6

\* A change of the users list, as Archivos is asked for it.
LEMMA Cambio ==
  ASSUME antes \in Almacenes, NEW r \in Pedido, NEW c \in Clave, Viva(r.clave),
         Puede(antes, r.user, r.clave), Con(antes, r.clave),
         r.lista = antes.meta[r.clave].usuarios \/ r.clave.dueno \in r.lista,
         NEW Q, Quitados(r, antes, {}, Q)
  PROVE  \E lista \in SUBSET Usuario :
           /\ A!ListaFinal(r.clave, lista) = r.lista
           /\ A!PideActualizar(r.user, r.clave, lista, r.clave.dueno, c, Q)
           /\ A!Agregados(r.clave, lista) = Nuevos(r, antes)
           /\ A!PermisosTras(r.clave, lista, Q)
                = Repartidos(antes, r.clave, Nuevos(r, antes), Q)
           /\ Q \in SUBSET antes.meta[r.clave].usuarios
<1> DEFINE k == r.clave
           V == antes.meta[k].usuarios
           lista == IF r.lista = V THEN {} ELSE r.lista
<1>1. /\ k \in Clave /\ r.lista \in SUBSET Usuario /\ r.user \in Usuario
      /\ antes.meta[k] \in Metadato /\ V \in SUBSET Usuario
  BY DEF Pedido, Almacenes, Con, Metadato
<1>2. lista \in SUBSET Usuario /\ (lista # {} => k.dueno \in lista)
  BY <1>1
<1>3. A!ListaFinal(k, lista) = r.lista
  BY DEF A!ListaFinal
<1>4. A!Agregados(k, lista) = Nuevos(r, antes)
  BY <1>1, <1>3 DEF A!Agregados, Nuevos
<1>5. A!verificarPermisos(r.user, k) /\ A!existeMetadato(k) /\ A!Viva(k)
  BY <1>1, Lecturas, MismosNombres
<1>6. A!Cuidadoso(r.user, k, lista, k.dueno, c)
  BY <1>2, <1>5 DEF A!Cuidadoso
<1>7. A!Revocados(r.user, k, lista, Q)
  <2>1. (antes.meta[k].usuarios \ A!ListaFinal(k, lista)) \cap Usuario = Sobran(r, antes)
    BY <1>1, <1>3 DEF Sobran
  <2> QED
    BY <2>1 DEF A!Revocados, Quitados
<1>8. A!PermisosTras(k, lista, Q) = Repartidos(antes, k, Nuevos(r, antes), Q)
  BY <1>4, <1>5 DEF A!PermisosTras, Repartidos
<1>9. Q \subseteq V
  BY DEF Quitados, Sobran
<1>10. A!PideActualizar(r.user, k, lista, k.dueno, c, Q)
  BY <1>5, <1>6, <1>7 DEF A!PideActualizar
<1> QED
  BY <1>2, <1>3, <1>4, <1>8, <1>9, <1>10

LEMMA HaceActualizar ==
  ASSUME antes \in Almacenes, NEW r \in Pedido, Viva(r.clave),
         Puede(antes, r.user, r.clave), Con(antes, r.clave),
         r.lista = antes.meta[r.clave].usuarios \/ r.clave.dueno \in r.lista,
         NEW Q, Quitados(r, antes, {}, Q),
         antes'.meta = [antes.meta EXCEPT ![r.clave] =
                          [propietario |-> r.clave.dueno,
                           ultimaVersion |-> Ultima(antes, r.clave), usuarios |-> r.lista]],
         antes'.permisos = Repartidos(antes, r.clave, Nuevos(r, antes), Q),
         antes'.carpetas = antes.carpetas,
         \A x \in Clave : Presentes(antes', x) = Presentes(antes, x)
  PROVE  A!Next
<1> DEFINE k == r.clave
           D == [x \in Clave |-> {v \in Version : antes.disco[x][v] # NADA}]
<1>1. k \in Clave /\ r.user \in Usuario /\ k.dueno \in Usuario
  BY DEF Pedido, Clave
<1>2. PICK lista \in SUBSET Usuario :
           /\ A!ListaFinal(k, lista) = r.lista
           /\ A!PideActualizar(r.user, k, lista, k.dueno, k, Q)
           /\ A!PermisosTras(k, lista, Q) = Repartidos(antes, k, Nuevos(r, antes), Q)
           /\ Q \in SUBSET antes.meta[k].usuarios
  BY <1>1, Cambio
<1>3. D' = D
  BY DEF Presentes
<1>4. antes'.meta = [antes.meta EXCEPT ![k] = A!MetadatoEnviado(k, lista, k.dueno)]
  BY <1>2 DEF A!MetadatoEnviado, Ultima
<1>5. A!actualizarPermisos(r.user, k, lista, k.dueno, Q)
  <2>1. A!TrozosTras(k, lista) = {}
    BY MismosNombres DEF A!TrozosTras
  <2> QED
    BY <1>2, <1>3, <1>4, <2>1 DEF A!actualizarPermisos
<1>6. A!PideMetadatos(r.user)
  BY <1>1, <1>2, <1>5, MismosNombres, Lecturas DEF A!PideMetadatos
<1> QED
  BY <1>1, <1>6, EsPaso DEF A!Pedido

\* The versions that a renaming moves, when it stops at n.
LEMMA RenombrablesEs ==
  ASSUME antes \in Almacenes, NEW k \in Clave, NEW c \in Clave, Con(antes, k), Tipado(antes),
         NEW n \in 1..(Ultima(antes, k) + 1), ~Con(antes, c),
         1..(n - 1) \subseteq Presentes(antes, k),
         n = Ultima(antes, k) + 1 \/ n \notin Presentes(antes, k)
  PROVE  /\ A!Renombrables(k, c) = 1..(n - 1)
         /\ A!Completo(k, c) <=> n = Ultima(antes, k) + 1
<1>1. Ultima(antes, k) \in Version
  BY DEF Tipado
<1>2. Ultima(antes, k) \in Nat /\ n \in Nat
  BY <1>1 DEF Version
<1>3. A!Renombradas(k, antes.meta[k].ultimaVersion) = Seguidas(antes, k) /\ ~A!existeMetadato(c)
  BY Lecturas DEF Ultima
<1>4. A!Renombrables(k, c) = Seguidas(antes, k)
  BY <1>3 DEF A!Renombrables, Ultima
<1>5. A!Renombrables(k, c) = 1..(n - 1)
  BY <1>2, <1>4 DEF Seguidas
<1>6. A!Completo(k, c) <=> 1..(n - 1) = 1..Ultima(antes, k)
  BY <1>5 DEF A!Completo, Ultima
<1>7. 1..(n - 1) = 1..Ultima(antes, k) <=> n = Ultima(antes, k) + 1
  BY <1>2
<1> QED
  BY <1>5, <1>6, <1>7

LEMMA HaceRenombrarFallido ==
  ASSUME antes \in Almacenes, NEW r \in Pedido, Viva(r.clave), r.destino # r.clave,
         MismaCarpeta(r.clave, r.destino), Puede(antes, r.user, r.clave),
         Con(antes, r.clave), r.lista = antes.meta[r.clave].usuarios \/ r.clave.dueno \in r.lista,
         NEW Q, Quitados(r, antes, {}, Q), ~A!Completo(r.clave, r.destino),
         antes'.meta = MasUsuarios(antes.meta, r.clave, Nuevos(r, antes)),
         antes'.permisos = Repartidos(antes, r.clave, Nuevos(r, antes), Q),
         antes'.carpetas = antes.carpetas,
         NEW vs, vs = A!Renombrables(r.clave, r.destino),
         \A x \in Clave : Presentes(antes', x) =
           IF x = r.clave THEN Presentes(antes, x) \ vs
           ELSE IF x = r.destino THEN Presentes(antes, x) \cup vs ELSE Presentes(antes, x)
  PROVE  A!Next
<1> DEFINE k == r.clave
           c == r.destino
           D == [x \in Clave |-> {v \in Version : antes.disco[x][v] # NADA}]
<1>1. k \in Clave /\ c \in Clave /\ r.user \in Usuario /\ k.dueno \in Usuario
  BY DEF Pedido, Clave
<1>2. PICK lista \in SUBSET Usuario :
           /\ A!PideActualizar(r.user, k, lista, k.dueno, c, Q)
           /\ A!Agregados(k, lista) = Nuevos(r, antes)
           /\ A!PermisosTras(k, lista, Q) = Repartidos(antes, k, Nuevos(r, antes), Q)
           /\ Q \in SUBSET antes.meta[k].usuarios
  BY <1>1, Cambio
<1>3. D' = [D EXCEPT ![k] = @ \ vs, ![c] = @ \cup vs]
  <2>1. /\ D = [x \in Clave |-> Presentes(antes, x)]
        /\ D' = [x \in Clave |-> Presentes(antes', x)]
    BY DEF Presentes
  <2> HIDE DEF D
  <2> QED
    BY <1>1, <2>1
<1>4. D' = A!Mover(k, c, A!Renombrables(k, c))
  BY <1>3 DEF A!Mover
<1>5. antes'.meta = [antes.meta EXCEPT ![k] = A!MetadatoTras(k, lista)]
  BY <1>2 DEF A!MetadatoTras, MasUsuarios
<1>6. A!Viva(k) /\ A!MismaCarpeta(k, c)
  BY MismosNombres
<1>7. A!renombrarFallido(r.user, k, lista, k.dueno, c, Q)
  BY <1>2, <1>4, <1>5, <1>6 DEF A!renombrarFallido
<1>8. A!PideMetadatos(r.user)
  BY <1>1, <1>2, <1>7, MismosNombres, Lecturas DEF A!PideMetadatos
<1> QED
  BY <1>1, <1>8, EsPaso DEF A!Pedido

LEMMA HaceRenombrar ==
  ASSUME antes \in Almacenes, NEW r \in Pedido, Viva(r.clave), r.destino # r.clave,
         MismaCarpeta(r.clave, r.destino), Puede(antes, r.user, r.clave),
         Con(antes, r.clave), r.lista = antes.meta[r.clave].usuarios \/ r.clave.dueno \in r.lista,
         NEW Q, Quitados(r, antes, {}, Q), A!Completo(r.clave, r.destino),
         antes'.meta = [antes.meta EXCEPT ![r.clave] = NADA,
                                          ![r.destino] =
                          [propietario |-> r.clave.dueno,
                           ultimaVersion |-> Ultima(antes, r.clave), usuarios |-> r.lista]],
         antes'.permisos = Renombrados(Repartidos(antes, r.clave, Nuevos(r, antes), Q),
                                       r.lista \ {r.clave.dueno}, r.clave, r.destino),
         antes'.carpetas = antes.carpetas,
         NEW vs, vs = 1..Ultima(antes, r.clave),
         \A x \in Clave : Presentes(antes', x) =
           IF x = r.clave THEN Presentes(antes, x) \ vs
           ELSE IF x = r.destino THEN Presentes(antes, x) \cup vs ELSE Presentes(antes, x)
  PROVE  A!Next
<1> DEFINE k == r.clave
           c == r.destino
           D == [x \in Clave |-> {v \in Version : antes.disco[x][v] # NADA}]
<1>1. /\ k \in Clave /\ c \in Clave /\ r.user \in Usuario /\ k.dueno \in Usuario
      /\ r.lista \subseteq Usuario
  BY DEF Pedido, Clave
<1>2. PICK lista \in SUBSET Usuario :
           /\ A!ListaFinal(k, lista) = r.lista
           /\ A!PideActualizar(r.user, k, lista, k.dueno, c, Q)
           /\ A!PermisosTras(k, lista, Q) = Repartidos(antes, k, Nuevos(r, antes), Q)
           /\ Q \in SUBSET antes.meta[k].usuarios
  BY <1>1, Cambio
<1>3. D' = [D EXCEPT ![k] = @ \ vs, ![c] = @ \cup vs]
  <2>1. /\ D = [x \in Clave |-> Presentes(antes, x)]
        /\ D' = [x \in Clave |-> Presentes(antes', x)]
    BY DEF Presentes
  <2> HIDE DEF D
  <2> QED
    BY <1>1, <2>1
<1>4. D' = A!Mover(k, c, 1..antes.meta[k].ultimaVersion)
  BY <1>3 DEF A!Mover, Ultima
<1>5. antes'.meta = [antes.meta EXCEPT ![k] = NADA,
                                       ![c] = A!MetadatoEnviado(k, lista, k.dueno)]
  BY <1>2 DEF A!MetadatoEnviado, Ultima
<1>6. A!Viva(k) /\ A!MismaCarpeta(k, c)
  BY MismosNombres
<1>7. antes'.permisos = A!PermisosRenombrado(A!ListaFinal(k, lista) \ {k.dueno},
                                             A!PermisosTras(k, lista, Q), k, c)
  BY <1>2 DEF A!PermisosRenombrado, Renombrados
<1>8. A!renombrarArchivo(r.user, k, lista, k.dueno, c, Q)
  BY <1>1, <1>2, <1>4, <1>5, <1>6, <1>7 DEF A!renombrarArchivo
<1>9. A!PideMetadatos(r.user)
  BY <1>1, <1>2, <1>8, MismosNombres, Lecturas DEF A!PideMetadatos
<1> QED
  BY <1>1, <1>9, EsPaso DEF A!Pedido

\* Files sent to the trash, one by one, are sent as Archivos sends them all.
LEMMA MandaVarios ==
  ASSUME antes \in Almacenes, antes' \in Almacenes, NEW K \in SUBSET Clave,
         \A k \in K : Viva(k) /\ Con(antes, k) /\ antes.meta[k].propietario = k.dueno,
         NEW sec \in [K -> Secuencia],
         \A k \in K : IF Con(antes, EnPapelera(k, sec[k])) THEN Intacto(antes, antes', k)
                      ELSE Mandado(antes, antes', k, sec[k], Seguidas(antes, k)),
         \A k \in Clave : Viva(k) /\ k \notin K => Intacto(antes, antes', k),
         NEW S, S = {k \in K : ~Con(antes, EnPapelera(k, sec[k]))}
  PROVE  A!MandarArchivosATrash(S, sec)
<1> DEFINE Origen(c) == [c EXCEPT !.sec = VIVA]
           Destino(c) == ~Viva(c) /\ Origen(c) \in S /\ sec[Origen(c)] = c.sec
           D == [x \in Clave |-> {v \in Version : antes.disco[x][v] # NADA}]
<1>1. S = {k \in K : ~Con(antes, EnPapelera(k, sec[k]))}
  OBVIOUS
<1>2. \A c \in Clave : Origen(c) \in Clave /\ Viva(Origen(c)) /\ Archivo(Origen(c)) = Archivo(c)
  BY DEF Clave, Viva, VIVA, Archivo
<1>3. \A c \in Clave : /\ Viva(c) => Origen(c) = c
                       /\ \A n : Origen(c) = [c EXCEPT !.sec = VIVA]
                                 /\ EnPapelera(Origen(c), c.sec) = c
  BY DEF Clave, Viva, VIVA, EnPapelera
<1>4. ASSUME NEW c \in Clave, c \in S
      PROVE  /\ antes'.meta[c] = NADA
             /\ Presentes(antes', c) = Presentes(antes, c) \ Seguidas(antes, c)
  BY <1>1, <1>4 DEF Mandado
<1>5. ASSUME NEW c \in Clave, Destino(c)
      PROVE  /\ c \notin S
             /\ antes'.meta[c] = [antes.meta[Origen(c)] EXCEPT
                                    !.usuarios = {antes.meta[Origen(c)].propietario}]
             /\ Presentes(antes', c) = Presentes(antes, c) \cup Seguidas(antes, Origen(c))
  BY <1>1, <1>3, <1>5 DEF Mandado
<1>6. ASSUME NEW c \in Clave, c \notin S, ~Destino(c)
      PROVE  Igual(antes, antes', c)
  <2> DEFINE k == Origen(c)
  <2>1. k \in Clave /\ Viva(k) /\ Archivo(c) = Archivo(k) /\ EnPapelera(k, c.sec) = c
    BY <1>2, <1>3
  <2>2. CASE k \in S
    <3>1. Mandado(antes, antes', k, sec[k], Seguidas(antes, k))
      BY <1>1, <2>2
    <3>2. c # k
      BY <1>6, <2>2
    <3>3. ~Viva(c)
      BY <1>3, <3>2
    <3>4. c # EnPapelera(k, sec[k])
      <4>1. EnPapelera(k, sec[k]).sec = sec[k]
        BY <2>1 DEF EnPapelera, Clave
      <4> QED
        BY <1>6, <2>2, <3>3, <4>1
    <3> HIDE DEF k
    <3> QED
      BY <2>1, <3>1, <3>2, <3>4 DEF Mandado
  <2>3. CASE k \notin S
    <3>1. Intacto(antes, antes', k)
      BY <1>1, <2>1, <2>3
    <3> QED
      BY <2>1, <3>1 DEF Intacto
  <2> QED
    BY <2>2, <2>3
<1>7. antes'.meta = [c \in Clave |->
         IF c \in S THEN NADA
         ELSE IF Destino(c) THEN [antes.meta[Origen(c)] EXCEPT
                                    !.usuarios = {antes.meta[Origen(c)].propietario}]
         ELSE antes.meta[c]]
  <2>1. \A c \in Clave : antes'.meta[c] =
          IF c \in S THEN NADA
          ELSE IF Destino(c) THEN [antes.meta[Origen(c)] EXCEPT
                                     !.usuarios = {antes.meta[Origen(c)].propietario}]
          ELSE antes.meta[c]
    <3> HIDE DEF Destino, Origen
    <3> QED
      BY <1>4, <1>5, <1>6 DEF Igual
  <2> HIDE DEF Destino, Origen
  <2> QED
    BY <2>1 DEF Almacenes
<1>8. D' = [c \in Clave |->
         IF c \in S THEN D[c] \ Seguidas(antes, c)
         ELSE IF Destino(c) THEN D[c] \cup Seguidas(antes, Origen(c)) ELSE D[c]]
  <2>1. /\ D = [x \in Clave |-> Presentes(antes, x)]
        /\ D' = [x \in Clave |-> Presentes(antes', x)]
    BY DEF Presentes
  <2> HIDE DEF Destino, Origen, D
  <2> QED
    BY <1>4, <1>5, <1>6, <2>1 DEF Igual
<1>9. antes'.permisos = [u \in Usuario |-> antes.permisos[u] \
         {k \in S : u \in antes.meta[k].usuarios \ {antes.meta[k].propietario}}]
  <2>1. ASSUME NEW u \in Usuario, NEW c \in Clave
        PROVE  c \in antes'.permisos[u] <=>
                 /\ c \in antes.permisos[u]
                 /\ ~(c \in S /\ u \in antes.meta[c].usuarios \ {antes.meta[c].propietario})
    <3>1. CASE c \in S
      BY <1>1, <3>1 DEF Mandado
    <3>2. CASE Destino(c)
      <4>1. c \notin S /\ Origen(c) \in S /\ EnPapelera(Origen(c), sec[Origen(c)]) = c
        BY <1>3, <1>5, <3>2
      <4>2. Mandado(antes, antes', Origen(c), sec[Origen(c)], Seguidas(antes, Origen(c)))
        BY <1>1, <4>1
      <4> HIDE DEF Destino, Origen
      <4> QED
        BY <4>1, <4>2 DEF Mandado
    <3>3. CASE c \notin S /\ ~Destino(c)
      <4> HIDE DEF Destino
      <4> QED
        BY <1>6, <3>3 DEF Igual
    <3> QED
      BY <3>1, <3>2, <3>3
  <2>2. \A u \in Usuario : antes.permisos[u] \subseteq Clave /\ antes'.permisos[u] \subseteq Clave
    BY DEF Almacenes
  <2>3. S \subseteq Clave
    BY <1>1
  <2>4. \A u \in Usuario : antes'.permisos[u] = antes.permisos[u] \
          {k \in S : u \in antes.meta[k].usuarios \ {antes.meta[k].propietario}}
    <3> QED
      BY <2>1, <2>2, <2>3
  <2> QED
    BY <2>4 DEF Almacenes
<1>10. \A c \in S : c.dueno \in Usuario
                    /\ A!Renombradas(c, antes.meta[c].ultimaVersion) = Seguidas(antes, c)
  BY <1>1, Lecturas DEF Ultima, Clave
<1>11. \A c : Viva(c) <=> A!Viva(c)
  BY MismosNombres
<1>12. antes'.meta = [c \in A!Clave |->
         IF c \in S THEN NADA
         ELSE IF ~A!Viva(c) /\ [c EXCEPT !.sec = A!VIVA] \in S
                 /\ sec[[c EXCEPT !.sec = A!VIVA]] = c.sec
         THEN [antes.meta[[c EXCEPT !.sec = A!VIVA]] EXCEPT
                 !.usuarios = {antes.meta[[c EXCEPT !.sec = A!VIVA]].propietario}]
         ELSE antes.meta[c]]
  BY <1>7, MismosNombres
<1>13. D' = [c \in A!Clave |->
         IF c \in S THEN D[c] \ (IF c.dueno \in Usuario
                                 THEN A!Renombradas(c, antes.meta[c].ultimaVersion) ELSE {})
         ELSE IF ~A!Viva(c) /\ [c EXCEPT !.sec = A!VIVA] \in S
                 /\ sec[[c EXCEPT !.sec = A!VIVA]] = c.sec
         THEN D[c] \cup (IF [c EXCEPT !.sec = A!VIVA].dueno \in Usuario
                         THEN A!Renombradas([c EXCEPT !.sec = A!VIVA],
                                antes.meta[[c EXCEPT !.sec = A!VIVA]].ultimaVersion)
                         ELSE {})
         ELSE D[c]]
  <2> HIDE DEF D
  <2> QED
    BY <1>8, <1>10, MismosNombres
<1> QED
  BY <1>9, <1>12, <1>13 DEF A!MandarArchivosATrash, A!PermisosDepurados

\* What the deletion of the files of K moves.
LEMMA MoviblesEs ==
  ASSUME NEW K \in SUBSET Clave, NEW sec \in [K -> Secuencia]
  PROVE  A!Movibles(K, sec) = {k \in K : ~Con(antes, EnPapelera(k, sec[k]))}
<1>1. \A k \in K : EnPapelera(k, sec[k]) \in Clave
  BY DEF EnPapelera, Clave
<1> QED
  BY <1>1, MismosNombres, Lecturas DEF A!Movibles

LEMMA HaceEliminar ==
  ASSUME antes \in Almacenes, antes' \in Almacenes, NEW u \in Usuario, NEW k \in Clave,
         Viva(k), Puede(antes, u, k), Esta(antes, k), antes.meta[k].propietario = k.dueno,
         Borrado(antes, antes', k),
         \A c \in Clave : Viva(c) /\ c # k => Intacto(antes, antes', c),
         antes'.carpetas = antes.carpetas
  PROVE  A!Next
<1>1. PICK n \in Secuencia :
        /\ EsSecuencia(antes, k, n)
        /\ IF Con(antes, EnPapelera(k, n)) THEN Intacto(antes, antes', k)
           ELSE Mandado(antes, antes', k, n, Seguidas(antes, k))
  BY DEF Borrado
<1> DEFINE sec == [c \in {k} |-> n]
<1>2. sec \in [{k} -> Secuencia] /\ sec[k] = n
  OBVIOUS
<1>3. A!MandarArchivosATrash(A!Movibles({k}, sec), sec)
  <2> DEFINE K == {k}
  <2>1. K \in SUBSET Clave /\ sec \in [K -> Secuencia]
    BY <1>2
  <2>2. \A c \in K : /\ Viva(c) /\ Con(antes, c) /\ antes.meta[c].propietario = c.dueno
                     /\ IF Con(antes, EnPapelera(c, sec[c])) THEN Intacto(antes, antes', c)
                        ELSE Mandado(antes, antes', c, sec[c], Seguidas(antes, c))
    BY <1>1, <1>2 DEF Esta
  <2>3. \A c \in Clave : Viva(c) /\ c \notin K => Intacto(antes, antes', c)
    OBVIOUS
  <2> HIDE DEF sec, K
  <2>4. PICK S : S = {c \in K : ~Con(antes, EnPapelera(c, sec[c]))}
    OBVIOUS
  <2>5. A!MandarArchivosATrash(S, sec)
    BY <2>1, <2>2, <2>3, <2>4, MandaVarios
  <2>6. A!Movibles(K, sec) = S
    BY <2>1, <2>4, MoviblesEs
  <2> QED
    BY <2>5, <2>6 DEF K, A!MandarArchivosATrash, A!PermisosDepurados
<1>4. /\ A!Viva(k) /\ A!verificarPermisos(u, k) /\ A!Existe(k) /\ A!esNumeroSecuencia(k, sec[k])
      /\ sec \in [{k} -> A!Secuencia]
  BY <1>1, <1>2, Lecturas, MismosNombres
<1>5. A!eliminarArchivo(u, k)
  <2> HIDE DEF sec
  <2> QED
    BY <1>3, <1>4 DEF A!eliminarArchivo
<1>6. A!Pedido(u)
  BY <1>5, MismosNombres DEF A!Pedido, A!PideEliminar
<1> QED
  BY <1>6, EsPaso

LEMMA HaceEliminarCarpeta ==
  ASSUME antes \in Almacenes, antes' \in Almacenes, NEW u \in Usuario, NEW x \in Clave,
         NEW dir, dir = CarpetaDe(x.ruta), dir # <<>>, dir \in antes.carpetas[u],
         \A d \in antes.carpetas[u] : ~IsStrictPrefix(dir, d),
         \A c \in Bajo(u, dir) : Presentes(antes, c) # {} => CarpetaDe(c.ruta) = dir,
         NEW K, K = Contenidos(antes, u, dir),
         \A k \in K : antes.meta[k].propietario = k.dueno /\ Borrado(antes, antes', k),
         \A c \in Clave : Viva(c) /\ c \notin K => Intacto(antes, antes', c),
         Retirada(antes, antes', u, dir)
  PROVE  A!Next
<1> DEFINE D == [c \in Clave |-> {v \in Version : antes.disco[c][v] # NADA}]
           Ocupada(e) == \E k \in A!Clave : /\ A!Viva(k) /\ k.dueno = u
                                            /\ A!IsPrefix(e, A!CarpetaDe(k.ruta))
                                            /\ D'[k] # {}
           Vale(k, n) == /\ EsSecuencia(antes, k, n)
                         /\ IF Con(antes, EnPapelera(k, n)) THEN Intacto(antes, antes', k)
                            ELSE Mandado(antes, antes', k, n, Seguidas(antes, k))
<1>1. K \in SUBSET Clave /\ \A k \in K : Viva(k) /\ k.dueno = u /\ Esta(antes, k)
  BY DEF EnCarpeta, Contenidos
<1>2. PICK sec \in [K -> Secuencia] : \A k \in K : Vale(k, sec[k])
  <2>1. \A k \in K : \E n \in Secuencia : Vale(k, n)
    BY DEF Borrado
  <2> HIDE DEF Vale
  <2> DEFINE s == [k \in K |-> CHOOSE n \in Secuencia : Vale(k, n)]
  <2>2. \A k \in K : s[k] \in Secuencia /\ Vale(k, s[k])
    BY <2>1
  <2>3. s \in [K -> Secuencia]
    BY <2>2
  <2> HIDE DEF s
  <2> QED
    BY <2>2, <2>3
<1>3. K = A!Contenido(u, dir)
  <2>1. \A k \in EnCarpeta(u, dir) : IsPrefix(dir, CarpetaDe(k.ruta))
    BY CarpetaEnSi DEF EnCarpeta
  <2>2. \A k \in Clave : Esta(antes, k) => Presentes(antes, k) # {}
    BY DEF Esta
  <2>3. \A k \in Clave : A!Existe(k) <=> Esta(antes, k)
    BY Lecturas
  <2>4. A!Contenido(u, dir) = {k \in Clave : /\ Viva(k) /\ k.dueno = u /\ Esta(antes, k)
                                             /\ IsPrefix(dir, CarpetaDe(k.ruta))}
    BY <2>3, MismosNombres DEF A!Contenido
  <2> QED
    BY <2>1, <2>2, <2>4 DEF EnCarpeta, Bajo, Contenidos
<1>4. A!MandarArchivosATrash(A!Movibles(A!Contenido(u, dir), sec), sec)
  <2>1. PICK S : S = {k \in K : ~Con(antes, EnPapelera(k, sec[k]))}
    OBVIOUS
  <2>2. A!MandarArchivosATrash(S, sec)
    <3>1. \A k \in K : Viva(k) /\ Con(antes, k) /\ antes.meta[k].propietario = k.dueno
      BY <1>1 DEF Esta
    <3>2. \A k \in K : IF Con(antes, EnPapelera(k, sec[k])) THEN Intacto(antes, antes', k)
                       ELSE Mandado(antes, antes', k, sec[k], Seguidas(antes, k))
      BY <1>2
    <3> QED
      BY <1>1, <2>1, <3>1, <3>2, MandaVarios
  <2>3. A!Movibles(A!Contenido(u, dir), sec) = S
    <3>1. A!Movibles(K, sec) = S
      BY <1>1, <2>1, MoviblesEs
    <3> QED
      BY <1>3, <3>1 DEF A!Movibles
  <2> QED
    BY <2>2, <2>3 DEF A!MandarArchivosATrash, A!PermisosDepurados
<1>6. \A e : Ocupada(e) <=> \E c \in Bajo(u, e) : Presentes(antes', c) # {}
  <2>1. \A c \in Clave : D'[c] = Presentes(antes', c)
    BY DEF Presentes
  <2> HIDE DEF D
  <2> QED
    BY <2>1, MismosNombres DEF Bajo
<1>7. Ocupada(dir) <=> \E c \in EnCarpeta(u, dir) : Presentes(antes', c) # {}
  <2>1. \A c \in EnCarpeta(u, dir) : c \in Bajo(u, dir)
    BY CarpetaEnSi DEF EnCarpeta, Bajo
  <2>2. ASSUME NEW c \in Bajo(u, dir), Presentes(antes', c) # {}
        PROVE  c \in EnCarpeta(u, dir)
    <3>1. c \in Clave /\ Viva(c) /\ c.dueno = u
      BY DEF Bajo
    <3>2. CASE c \in K
      BY <3>2 DEF Contenidos
    <3>3. CASE c \notin K
      <4>1. Presentes(antes', c) = Presentes(antes, c)
        BY <3>1, <3>3 DEF Intacto, Igual
      <4> QED
        BY <2>2, <3>1, <4>1 DEF EnCarpeta
    <3> QED
      BY <3>2, <3>3
  <2> HIDE DEF Ocupada
  <2> QED
    BY <1>6, <2>1, <2>2
<1>8. \A e \in antes.carpetas[u] : IsPrefix(dir, e) => e = dir
  BY DEF IsStrictPrefix
<1>9. antes'.carpetas = [antes.carpetas EXCEPT ![u] =
                           {e \in @ : ~A!IsPrefix(dir, e) \/ Ocupada(e)}]
  <2> HIDE DEF Ocupada
  <2>1. CASE Ocupada(dir)
    <3>1. {e \in antes.carpetas[u] : ~A!IsPrefix(dir, e) \/ Ocupada(e)} = antes.carpetas[u]
      BY <1>8, <2>1, MismosNombres
    <3>2. antes'.carpetas = antes.carpetas
      BY <1>7, <2>1 DEF Retirada
    <3> QED
      BY <3>1, <3>2 DEF Almacenes
  <2>2. CASE ~Ocupada(dir)
    <3>1. {e \in antes.carpetas[u] : ~A!IsPrefix(dir, e) \/ Ocupada(e)}
            = {e \in antes.carpetas[u] : ~IsPrefix(dir, e)}
      BY <1>8, <2>2, MismosNombres
    <3>2. antes'.carpetas = [antes.carpetas EXCEPT ![u] = {e \in @ : ~IsPrefix(dir, e)}]
      BY <1>7, <2>2 DEF Retirada
    <3> QED
      BY <3>1, <3>2
  <2> QED
    BY <2>1, <2>2
<1>10. /\ \A k \in A!Contenido(u, dir) : /\ A!esNumeroSecuencia(k, sec[k])
                                         /\ antes.meta[k].propietario = k.dueno
       /\ sec \in [A!Contenido(u, dir) -> A!Secuencia]
  BY <1>1, <1>2, <1>3, Lecturas, MismosNombres
<1>11. A!eliminarCarpeta(u, dir)
  <2> HIDE DEF Vale
  <2> QED
    BY <1>4, <1>9, <1>10 DEF A!eliminarCarpeta
<1>12. dir \in A!Carpeta
  BY MismosNombres DEF Almacenes
<1>13. A!Pedido(u)
  BY <1>11, <1>12, MismosNombres DEF A!Pedido, A!PideEliminar
<1> QED
  BY <1>13, EsPaso

-----------------------------------------------------------------------------
(* A request that is at work alone *)

\* Thread h is at work alone, on the stores as antes has them.
Sola(h) ==
  /\ Inv /\ Inv' /\ Aislados /\ Duenos /\ EnSuSitio
  /\ h \in Hilo /\ hilo[h] # OCIOSO /\ \A g \in Hilo : g # h => hilo[g] = OCIOSO
  /\ antes \in Almacenes /\ Tipado(antes) /\ Hecho(hilo[h], antes, Ahora)

\* A request that goes on as q has done its part so far, or all of a step of Archivos.
Sale(q) == IF q = OCIOSO THEN A!Next \/ UNCHANGED A!vars ELSE Hecho(q, antes, Ahora')

\* What one reads of the stores.
LEMMA Leidas ==
  /\ Ahora.carpetas = carpetas /\ Ahora.meta = meta /\ Ahora.permisos = permisos
  /\ Ahora.disco = disco
  /\ \A k : /\ Con(Ahora, k) <=> existeMetadato(k)
            /\ Presentes(Ahora, k) = {v \in Version : disco[k][v] # NADA}
            /\ 1 \in Presentes(Ahora, k) <=> existeArchivo(k)
            /\ Esta(Ahora, k) <=> Existe(k)
            /\ HayEnDisco(k) <=> Presentes(Ahora, k) # {}
            /\ \A u : Puede(Ahora, u, k) <=> verificarPermisos(u, k)
<1>1. /\ Ahora.carpetas = carpetas /\ Ahora.meta = meta /\ Ahora.permisos = permisos
      /\ Ahora.disco = disco
  BY DEF Ahora
<1>2. 1 \in Version
  BY MaxVersionAssumption DEF Version
<1> QED
  BY <1>1, <1>2 DEF Con, Presentes, Esta, Puede, existeMetadato, existeArchivo, Existe,
                    HayEnDisco, verificarPermisos

\* And what one will.
LEMMA Quedaran ==
  /\ Ahora'.carpetas = carpetas' /\ Ahora'.meta = meta' /\ Ahora'.permisos = permisos'
  /\ Ahora'.disco = disco'
  /\ \A k : Presentes(Ahora', k) = {v \in Version : disco'[k][v] # NADA}
BY DEF Ahora, Presentes

LEMMA MismoDisco == ASSUME disco' = disco PROVE \A c : Presentes(Ahora', c) = Presentes(Ahora, c)
BY DEF Ahora, Presentes

LEMMA MismaFila ==
  ASSUME NEW x, disco'[x] = disco[x] PROVE Presentes(Ahora', x) = Presentes(Ahora, x)
BY DEF Ahora, Presentes

LEMMA Almacenado ==
  /\ Inv => Ahora \in Almacenes
  /\ Inv' => Ahora' \in Almacenes
BY DEF Ahora, Almacenes, Inv, Tipos

\* A request that ends takes antes again; one that goes on leaves it.
LEMMA Continua ==
  ASSUME NEW h, Sola(h), NEW q, Sigue(h, q)
  PROVE  /\ hilo'[h] = q /\ \A g \in Hilo : g # h => hilo'[g] = OCIOSO
         /\ q = OCIOSO => antes' = Ahora'
         /\ q # OCIOSO => antes' = antes
         /\ antes' \in Almacenes
<1>1. h \in Hilo /\ hilo' = [hilo EXCEPT ![h] = q] /\ hilo \in [Hilo -> {OCIOSO} \cup Pedido]
  BY DEF Sola, Sigue, Inv, Hilos
<1>2. hilo'[h] = q /\ \A g \in Hilo : g # h => hilo'[g] = OCIOSO
  BY <1>1 DEF Sola
<1>3. hilo' = [g \in Hilo |-> OCIOSO] <=> q = OCIOSO
  BY <1>1, <1>2
<1> QED
  BY <1>2, <1>3, Almacenado DEF Sola, Sigue

\* What a thread at work alone knows.
LEMMA Sabe ==
  ASSUME NEW h, Sola(h)
  PROVE  /\ hilo[h] \in Pedido /\ Forma(hilo[h]) /\ hilo[h].clave \in Clave
         /\ hilo[h].destino \in Clave /\ hilo[h].user \in Usuario
         /\ hilo[h].clave.dueno \in Usuario /\ hilo[h].destino.dueno \in Usuario
         /\ carpetas \in [Usuario -> SUBSET Carpeta] /\ disco \in Disco
         /\ meta \in [Clave -> Metadato \cup {NADA}] /\ permisos \in [Usuario -> SUBSET Clave]
         /\ antes.carpetas \in [Usuario -> SUBSET Carpeta] /\ antes.disco \in Disco
         /\ antes.meta \in [Clave -> Metadato \cup {NADA}]
         /\ antes.permisos \in [Usuario -> SUBSET Clave]
         /\ \A k \in Clave : Con(antes, k) =>
              antes.meta[k] \in Metadato /\ Ultima(antes, k) \in Version
<1>1. hilo[h] \in Pedido /\ Forma(hilo[h])
  BY DEF Sola, Inv, Hilos, Aislados, EnCurso
<1>2. hilo[h].clave \in Clave /\ hilo[h].destino \in Clave /\ hilo[h].user \in Usuario
  BY <1>1 DEF Pedido
<1>3. hilo[h].clave.dueno \in Usuario /\ hilo[h].destino.dueno \in Usuario
  BY <1>2 DEF Clave
<1>4. /\ carpetas \in [Usuario -> SUBSET Carpeta] /\ disco \in Disco
      /\ meta \in [Clave -> Metadato \cup {NADA}] /\ permisos \in [Usuario -> SUBSET Clave]
  BY DEF Sola, Inv, Tipos
<1>5. /\ antes.carpetas \in [Usuario -> SUBSET Carpeta] /\ antes.disco \in Disco
      /\ antes.meta \in [Clave -> Metadato \cup {NADA}]
      /\ antes.permisos \in [Usuario -> SUBSET Clave]
  BY DEF Sola, Almacenes
<1>6. \A k \in Clave : Con(antes, k) =>
        antes.meta[k] \in Metadato /\ Ultima(antes, k) \in Version
  BY <1>5 DEF Sola, Tipado, Con
<1> QED
  BY <1>1, <1>2, <1>3, <1>4, <1>5, <1>6

LEMMA NoHace ==
  ASSUME antes'.carpetas = antes.carpetas, antes'.meta = antes.meta,
         antes'.permisos = antes.permisos,
         \A c \in Clave : Presentes(antes', c) = Presentes(antes, c)
  PROVE  UNCHANGED A!vars
BY DEF A!vars, Presentes

LEMMA LeeIgual == ASSUME NEW h, NEW q, Lee(h, q) PROVE Ahora' = Ahora /\ Sigue(h, q)
BY DEF Lee, Ahora

LEMMA EsHecho ==
  ASSUME NEW r, NEW a, NEW e
  PROVE  /\ r.paso \in Subiendo => (Hecho(r, a, e) <=> HechoSubir(r, a, e))
         /\ r.paso \in Borrando => (Hecho(r, a, e) <=> HechoBorrar(r, a, e))
         /\ r.paso \in Purgando => (Hecho(r, a, e) <=> HechoPurgar(r, a, e))
         /\ r.paso \in Restaurando => (Hecho(r, a, e) <=> HechoRestaurar(r, a, e))
         /\ r.paso \in Cambiando => (Hecho(r, a, e) <=> HechoActualizar(r, a, e))
         /\ r.paso = "busca" => (Hecho(r, a, e) <=> e = a)
BY DEF Hecho, Subiendo, Borrando, Purgando, Restaurando, Cambiando

\* A step that only reads goes on or ends.
LEMMA LeeSale ==
  ASSUME NEW h, Sola(h), NEW q, Lee(h, q),
         IF q = OCIOSO
         THEN /\ carpetas = antes.carpetas /\ meta = antes.meta /\ permisos = antes.permisos
              /\ \A c \in Clave : Presentes(Ahora, c) = Presentes(antes, c)
         ELSE Hecho(q, antes, Ahora)
  PROVE  Sale(hilo'[h])
<1>1. Ahora' = Ahora /\ hilo'[h] = q /\ (q = OCIOSO => antes' = Ahora)
  BY LeeIgual, Continua
<1>2. CASE q = OCIOSO
  <2>1. UNCHANGED A!vars
    BY <1>1, <1>2, NoHace, Leidas
  <2> QED
    BY <1>1, <1>2, <2>1 DEF Sale
<1>3. CASE q # OCIOSO
  BY <1>1, <1>3 DEF Sale
<1> QED
  BY <1>2, <1>3

-----------------------------------------------------------------------------
(* Uploads *)

LEMMA SubeSolo ==
  ASSUME NEW h, Sola(h), Sube(h)
  PROVE  Sale(hilo'[h])
<1> DEFINE r == hilo[h]
           k == r.clave
           u == r.user
<1>0. /\ r \in Pedido /\ k \in Clave /\ u \in Usuario /\ r # OCIOSO /\ r.paso \in Subiendo
      /\ Viva(k) /\ k.dueno \in Usuario
  <2>1. r \in Pedido /\ k \in Clave /\ u \in Usuario /\ Forma(r) /\ k.dueno \in Usuario
    BY Sabe
  <2>2. r.paso \in Subiendo
    BY DEF Sube, validaVersion, creaCarpeta, hayMetadato, subeGet, subePut, escribe, cargaGet,
           cargaPut, Subiendo
  <2> QED
    BY <2>1, <2>2 DEF Sola, Forma
<1>t. /\ antes \in Almacenes
      /\ carpetas \in [Usuario -> SUBSET Carpeta] /\ disco \in Disco
      /\ meta \in [Clave -> Metadato \cup {NADA}]
      /\ antes.carpetas \in [Usuario -> SUBSET Carpeta]
      /\ antes.meta \in [Clave -> Metadato \cup {NADA}]
      /\ Con(antes, k) => antes.meta[k] \in Metadato /\ Ultima(antes, k) \in Version
  BY <1>0, Sabe DEF Sola
<1>h. HechoSubir(r, antes, Ahora)
  BY <1>0, EsHecho DEF Sola
<1>p. /\ Puede(antes, u, k) /\ permisos = antes.permisos
      /\ (r.primera <=> ~Esta(antes, k))
      /\ verificarPermisos(u, k)
      /\ ~r.primera => Con(antes, k)
  BY <1>h, Leidas DEF HechoSubir, Puede, verificarPermisos, Esta
<1>m. /\ meta = IF r.paso \in PorCargar \cup {"escribe"} /\ Con(antes, k)
                THEN MasVersion(antes.meta, k, r.n) ELSE antes.meta
      /\ r.paso # "version" => r.n \in Version /\ r.n = IF r.primera THEN 1 ELSE Ultima(antes, k) + 1
      /\ \A c \in Clave : Presentes(Ahora, c) =
           IF c = k /\ r.paso \in PorCargar THEN Presentes(antes, c) \cup {1} ELSE Presentes(antes, c)
  BY <1>h, Leidas DEF HechoSubir
<1>c. IF r.paso \in {"version", "carpeta"} THEN carpetas = antes.carpetas
      ELSE /\ u = k.dueno \/ CarpetaDe(k.ruta) \in antes.carpetas[k.dueno]
           /\ carpetas = MasCarpeta(antes.carpetas, k.dueno, CarpetaDe(k.ruta))
  BY <1>h, Leidas DEF HechoSubir
<1>e. /\ existeMetadato(k) <=> Con(antes, k)
      /\ r.paso \notin PorCargar \cup {"escribe"} => meta = antes.meta
  <2>1. Con(antes, k) /\ r.n \in Version => [antes.meta[k] EXCEPT !.ultimaVersion = r.n] \in Metadato
    BY <1>t DEF Metadato, Version
  <2>2. Con(antes, k) /\ meta # antes.meta => meta[k] \in Metadato
    BY <1>0, <1>t, <1>m, <2>1 DEF MasVersion, PorCargar
  <2> QED
    BY <1>m, <2>2, NadaHilosAssumption DEF Con, existeMetadato
<1>1. CASE validaVersion(h)
  <2> DEFINE n == SiguienteVersion(k)
             q == [En("carpeta", r) EXCEPT !.n = n]
  <2>1. r.paso = "version"
    BY <1>1 DEF validaVersion
  <2>2. \/ Lee(h, OCIOSO)
        \/ Lee(h, q) /\ ~(n > MaxVersion)
    BY <1>1 DEF validaVersion, En
  <2>3. ~r.primera
    BY <1>h, <2>1 DEF HechoSubir
  <2>4. Con(antes, k) /\ n = Ultima(antes, k) + 1 /\ n \in Int /\ n >= 1
    <3>1. Con(antes, k) /\ meta = antes.meta /\ existeMetadato(k)
      BY <1>p, <1>e, <2>1, <2>3 DEF PorCargar
    <3> QED
      BY <1>t, <3>1 DEF SiguienteVersion, Ultima, Version
  <2>5. CASE Lee(h, OCIOSO)
    BY <1>p, <1>m, <1>c, <1>e, <2>1, <2>5, LeeSale, Zenon DEF PorCargar
  <2>6. CASE Lee(h, q) /\ ~(n > MaxVersion)
    <3>1. /\ q.paso = "carpeta" /\ q.n = n /\ q.clave = k /\ q.user = u /\ q.primera = r.primera
          /\ q # OCIOSO
      BY <1>0 DEF En, Pedido, OCIOSO
    <3>2. n \in Version
      BY <2>4, <2>6, MaxVersionAssumption DEF Version
    <3> HIDE DEF q, n
    <3>3. HechoSubir(q, antes, Ahora)
      BY <1>p, <1>m, <1>c, <1>e, <2>1, <2>3, <2>4, <3>1, <3>2, Leidas DEF HechoSubir, PorCargar
    <3>4. Hecho(q, antes, Ahora)
      BY <3>1, <3>3, EsHecho DEF Subiendo
    <3> QED
      BY <2>6, <3>1, <3>4, LeeSale
  <2> QED
    BY <2>2, <2>5, <2>6
<1>2. CASE creaCarpeta(h)
  <2> DEFINE puede == verificarPermisos(u, k) /\ (u = k.dueno \/ HayCarpeta(k))
             q == En("hay", r)
  <2>1. /\ r.paso = "carpeta" /\ carpetas' = IF puede THEN ConCarpeta(k.dueno, CarpetaDe(k.ruta)) ELSE carpetas
        /\ UNCHANGED <<disco, meta, permisos>> /\ Sigue(h, IF puede THEN q ELSE OCIOSO)
    BY <1>2 DEF creaCarpeta
  <2>2. carpetas = antes.carpetas /\ meta = antes.meta
        /\ \A c \in Clave : Presentes(Ahora', c) = Presentes(antes, c)
    BY <1>c, <1>e, <1>m, <2>1, MismoDisco DEF PorCargar
  <2>3. CASE ~puede
    <3>1. antes' = Ahora' /\ hilo'[h] = OCIOSO
      BY <2>1, <2>3, Continua
    <3>2. UNCHANGED A!vars
      BY <1>p, <2>1, <2>2, <2>3, <3>1, NoHace, Quedaran
    <3> QED
      BY <3>1, <3>2 DEF Sale
  <2>4. CASE puede
    <3>1. /\ q.paso = "hay" /\ q.n = r.n /\ q.clave = k /\ q.user = u /\ q.primera = r.primera
          /\ q # OCIOSO
      BY <1>0 DEF En, Pedido, OCIOSO
    <3>2. hilo'[h] = q
      BY <2>1, <2>4, Continua
    <3>3. carpetas' = MasCarpeta(antes.carpetas, k.dueno, CarpetaDe(k.ruta))
      BY <2>1, <2>2, <2>4 DEF ConCarpeta, MasCarpeta
    <3>4. u = k.dueno \/ CarpetaDe(k.ruta) \in antes.carpetas[k.dueno]
      BY <1>0, <2>2, <2>4 DEF HayCarpeta
    <3> HIDE DEF q
    <3>5. HechoSubir(q, antes, Ahora')
      BY <1>p, <1>m, <2>1, <2>2, <3>1, <3>3, <3>4, Quedaran DEF HechoSubir, PorCargar
    <3>6. Hecho(q, antes, Ahora')
      BY <3>1, <3>5, EsHecho DEF Subiendo
    <3> QED
      BY <3>1, <3>2, <3>6 DEF Sale
  <2> QED
    BY <2>3, <2>4
<1>3. CASE hayMetadato(h)
  <2> DEFINE p == IF existeMetadato(k) THEN "sube_get" ELSE "escribe"
             q == En(p, r)
  <2>1. r.paso = "hay" /\ Lee(h, q)
    BY <1>3 DEF hayMetadato
  <2>2. /\ q.paso = p /\ q.n = r.n /\ q.clave = k /\ q.user = u /\ q.primera = r.primera
        /\ q # OCIOSO
    BY <1>0 DEF En, Pedido, OCIOSO
  <2> HIDE DEF q
  <2>3. HechoSubir(q, antes, Ahora)
    BY <1>p, <1>m, <1>c, <1>e, <2>1, <2>2, Leidas DEF HechoSubir, PorCargar
  <2>4. Hecho(q, antes, Ahora)
    BY <2>2, <2>3, EsHecho DEF Subiendo
  <2> QED
    BY <2>1, <2>2, <2>4, LeeSale
<1>4. CASE subeGet(h)
  <2> DEFINE m == [meta[k] EXCEPT !.ultimaVersion = r.n]
             q == [En("sube_put", r) EXCEPT !.leido = m]
  <2>1. r.paso = "sube_get" /\ Lee(h, q) /\ existeMetadato(k)
    BY <1>4 DEF subeGet, Get
  <2>2. /\ q.paso = "sube_put" /\ q.n = r.n /\ q.clave = k /\ q.user = u /\ q.primera = r.primera
        /\ q.leido = m /\ q # OCIOSO
    BY <1>0 DEF En, Pedido, OCIOSO
  <2> HIDE DEF q
  <2>3. HechoSubir(q, antes, Ahora)
    BY <1>p, <1>m, <1>c, <1>e, <2>1, <2>2, Leidas DEF HechoSubir, PorCargar
  <2>4. Hecho(q, antes, Ahora)
    BY <2>2, <2>3, EsHecho DEF Subiendo
  <2> QED
    BY <2>1, <2>2, <2>4, LeeSale
<1>5. CASE subePut(h)
  <2> DEFINE q == En("escribe", r)
  <2>1. /\ r.paso = "sube_put" /\ meta' = [meta EXCEPT ![k] = r.leido]
        /\ UNCHANGED <<carpetas, disco, permisos>> /\ Sigue(h, q)
    BY <1>5 DEF subePut, EscribeDB
  <2>2. /\ q.paso = "escribe" /\ q.n = r.n /\ q.clave = k /\ q.user = u /\ q.primera = r.primera
        /\ q # OCIOSO
    BY <1>0 DEF En, Pedido, OCIOSO
  <2>3. Con(antes, k) /\ meta' = MasVersion(antes.meta, k, r.n)
    BY <1>h, <1>e, <2>1 DEF HechoSubir, PorCargar, MasVersion
  <2>4. hilo'[h] = q
    BY <2>1, Continua
  <2>5. \A c \in Clave : Presentes(Ahora', c) = Presentes(antes, c)
    BY <1>m, <2>1, MismoDisco DEF PorCargar
  <2> HIDE DEF q
  <2>6. HechoSubir(q, antes, Ahora')
    BY <1>p, <1>m, <1>c, <2>1, <2>2, <2>3, <2>5, Quedaran DEF HechoSubir, PorCargar
  <2>7. Hecho(q, antes, Ahora')
    BY <2>2, <2>6, EsHecho DEF Subiendo
  <2> QED
    BY <2>2, <2>4, <2>7 DEF Sale
<1>6. CASE escribe(h)
  <2> DEFINE q == En("carga_get", r)
             x == <<k, r.n, r.id>>
  <2>1. /\ r.paso = "escribe" /\ UNCHANGED <<carpetas, meta, permisos>>
        /\ Sigue(h, IF r.primera THEN q ELSE OCIOSO)
        /\ disco' = IF HayCarpeta(k) /\ r.n \in Version THEN [disco EXCEPT ![k][r.n] = x] ELSE disco
    BY <1>6 DEF escribe
  <2>2. HayCarpeta(k)
    <3>1. carpetas[k.dueno] = antes.carpetas[k.dueno] \cup Prefixes(CarpetaDe(k.ruta))
      BY <1>0, <1>t, <1>c, <2>1 DEF MasCarpeta
    <3> QED
      BY <1>0, <3>1, CarpetaEnSi DEF HayCarpeta
  <2>3. r.n \in Version /\ disco' = [disco EXCEPT ![k][r.n] = x] /\ x # NADA
    <3>1. r.n \in Version /\ r.id \in 0..MaxPedidos
      BY <1>0, <1>m, <2>1 DEF Pedido
    <3>2. x \in Contenido
      BY <1>0, <3>1 DEF Contenido
    <3> QED
      BY <2>1, <2>2, <3>1, <3>2, NadaHilosAssumption
  <2>4. \A c \in Clave : Presentes(Ahora', c) =
          IF c = k THEN Presentes(antes, c) \cup {r.n} ELSE Presentes(antes, c)
    <3>1. \A c \in Clave, v \in Version :
            disco'[c][v] = IF c = k /\ v = r.n THEN x ELSE disco[c][v]
      BY <1>0, <1>t, <2>3 DEF Disco
    <3>2. \A c \in Clave : Presentes(antes, c) = {v \in Version : disco[c][v] # NADA}
      BY <1>m, <2>1, Leidas DEF PorCargar
    <3>3. \A c \in Clave : Presentes(Ahora', c) = {v \in Version : disco'[c][v] # NADA}
      BY Quedaran
    <3> HIDE DEF x
    <3>4. ASSUME NEW c \in Clave
          PROVE  Presentes(Ahora', c) =
                   IF c = k THEN Presentes(antes, c) \cup {r.n} ELSE Presentes(antes, c)
      <4>1. \A v \in Version :
              disco'[c][v] # NADA <=> (c = k /\ v = r.n) \/ disco[c][v] # NADA
        BY <2>3, <3>1
      <4> QED
        BY <2>3, <3>2, <3>3, <4>1
    <3> QED
      BY <3>4
  <2>5. CASE r.primera
    <3>1. /\ q.paso = "carga_get" /\ q.n = r.n /\ q.clave = k /\ q.user = u
          /\ q.primera = r.primera /\ q # OCIOSO
      BY <1>0 DEF En, Pedido, OCIOSO
    <3>2. hilo'[h] = q
      BY <2>1, <2>5, Continua
    <3> HIDE DEF q
    <3>3. HechoSubir(q, antes, Ahora')
      BY <1>p, <1>m, <1>c, <2>1, <2>4, <2>5, <3>1, Quedaran DEF HechoSubir, PorCargar
    <3>4. Hecho(q, antes, Ahora')
      BY <3>1, <3>3, EsHecho DEF Subiendo
    <3> QED
      BY <3>1, <3>2, <3>4 DEF Sale
  <2>6. CASE ~r.primera
    <3>1. antes' = Ahora' /\ hilo'[h] = OCIOSO
      BY <2>1, <2>6, Continua
    <3>2. Esta(antes, k) /\ Con(antes, k) /\ r.n = Ultima(antes, k) + 1
      BY <1>p, <1>m, <2>1, <2>6
    <3>3. /\ antes'.carpetas = MasCarpeta(antes.carpetas, k.dueno, CarpetaDe(k.ruta))
          /\ antes'.meta = MasVersion(antes.meta, k, r.n) /\ antes'.permisos = antes.permisos
          /\ u = k.dueno \/ CarpetaDe(k.ruta) \in antes.carpetas[k.dueno]
      BY <1>p, <1>m, <1>c, <2>1, <3>1, <3>2, Quedaran
    <3>4. \A c \in Clave : Presentes(antes', c) =
            IF c = k THEN Presentes(antes, c) \cup {r.n} ELSE Presentes(antes, c)
      BY <2>4, <3>1
    <3> HIDE DEF k, u
    <3>5. A!Next
      BY <1>0, <1>t, <1>p, <2>3, <3>2, <3>3, <3>4, HaceSubir
    <3> QED
      BY <3>1, <3>5 DEF Sale
  <2> QED
    BY <2>5, <2>6
<1>7. CASE cargaGet(h)
  <2> DEFINE q == En("carga_put", r)
  <2>1. r.paso = "carga_get" /\ Lee(h, IF existeMetadato(k) THEN OCIOSO ELSE q)
    BY <1>7 DEF cargaGet
  <2>2. r.primera /\ r.n = 1 /\ 1 \in Version
    BY <1>h, <1>m, <2>1 DEF HechoSubir, PorCargar
  <2>3. CASE existeMetadato(k)
    <3>1. antes' = Ahora' /\ hilo'[h] = OCIOSO /\ Ahora' = Ahora
      BY <2>1, <2>3, LeeIgual, Continua
    <3>2. ~Esta(antes, k) /\ Con(antes, k)
      BY <1>p, <1>e, <2>2, <2>3
    <3>3. /\ antes'.carpetas = MasCarpeta(antes.carpetas, k.dueno, CarpetaDe(k.ruta))
          /\ antes'.meta = MasVersion(antes.meta, k, 1) /\ antes'.permisos = antes.permisos
          /\ u = k.dueno \/ CarpetaDe(k.ruta) \in antes.carpetas[k.dueno]
      BY <1>p, <1>m, <1>c, <2>1, <2>2, <3>1, <3>2, Leidas DEF PorCargar
    <3>4. \A c \in Clave : Presentes(antes', c) =
            IF c = k THEN Presentes(antes, c) \cup {1} ELSE Presentes(antes, c)
      BY <1>m, <2>1, <3>1 DEF PorCargar
    <3>5. /\ 1 = IF Esta(antes, k) THEN Ultima(antes, k) + 1 ELSE 1
          /\ antes'.meta = IF Con(antes, k) THEN MasVersion(antes.meta, k, 1)
                           ELSE [antes.meta EXCEPT ![k] = MetadatoNuevo(k)]
      BY <3>2, <3>3
    <3> HIDE DEF k, u
    <3>6. A!Next
      BY <1>0, <1>t, <1>p, <2>2, <3>3, <3>4, <3>5, HaceSubir
    <3> QED
      BY <3>1, <3>6 DEF Sale
  <2>4. CASE ~existeMetadato(k)
    <3>1. /\ q.paso = "carga_put" /\ q.n = r.n /\ q.clave = k /\ q.user = u
          /\ q.primera = r.primera /\ q # OCIOSO
      BY <1>0 DEF En, Pedido, OCIOSO
    <3> HIDE DEF q
    <3>2. HechoSubir(q, antes, Ahora)
      BY <1>p, <1>m, <1>c, <1>e, <2>1, <2>2, <2>4, <3>1, Leidas DEF HechoSubir, PorCargar
    <3>3. Hecho(q, antes, Ahora)
      BY <3>1, <3>2, EsHecho DEF Subiendo
    <3> QED
      BY <2>1, <2>4, <3>1, <3>3, LeeSale
  <2> QED
    BY <2>3, <2>4
<1>8. CASE cargaPut(h)
  <2>1. /\ r.paso = "carga_put" /\ UNCHANGED <<carpetas, disco, permisos>> /\ Sigue(h, OCIOSO)
        /\ meta' = [meta EXCEPT ![k] = MetadatoNuevo(k)]
    BY <1>8 DEF cargaPut
  <2>2. r.primera /\ r.n = 1 /\ 1 \in Version /\ ~Con(antes, k)
    BY <1>h, <1>m, <2>1 DEF HechoSubir, PorCargar
  <2>3. antes' = Ahora' /\ hilo'[h] = OCIOSO
    BY <2>1, Continua
  <2>4. /\ antes'.carpetas = MasCarpeta(antes.carpetas, k.dueno, CarpetaDe(k.ruta))
        /\ antes'.meta = [antes.meta EXCEPT ![k] = MetadatoNuevo(k)]
        /\ antes'.permisos = antes.permisos
        /\ u = k.dueno \/ CarpetaDe(k.ruta) \in antes.carpetas[k.dueno]
    BY <1>p, <1>m, <1>c, <2>1, <2>2, <2>3, Quedaran
  <2>5. \A c \in Clave : Presentes(antes', c) =
          IF c = k THEN Presentes(antes, c) \cup {1} ELSE Presentes(antes, c)
    BY <1>m, <2>1, <2>3, MismoDisco DEF PorCargar
  <2>6. ~Esta(antes, k)
    BY <2>2 DEF Esta
  <2> HIDE DEF k, u
  <2>7. A!Next
    BY <1>0, <1>t, <1>p, <2>2, <2>4, <2>5, <2>6, HaceSubir
  <2> QED
    BY <2>3, <2>7 DEF Sale
<1> QED
  BY <1>1, <1>2, <1>3, <1>4, <1>5, <1>6, <1>7, <1>8 DEF Sube

-----------------------------------------------------------------------------
(* Purges, and renames on the disk *)

LEMMA PurgaSolo ==
  ASSUME NEW h, Sola(h), Purga(h)
  PROVE  Sale(hilo'[h])
<1> DEFINE r == hilo[h]
           k == r.clave
<1>0. /\ r \in Pedido /\ k \in Clave /\ r.user \in Usuario /\ r # OCIOSO /\ r.paso \in Purgando
      /\ antes \in Almacenes
  BY Sabe DEF Purga, purgaGet, purgaErase, purgaRm, Purgando, Sola
<1>h. HechoPurgar(r, antes, Ahora)
  BY <1>0, EsHecho DEF Sola
<1>e. /\ ~Viva(k) /\ Puede(antes, r.user, k) /\ Esta(antes, k)
      /\ meta = IF r.paso = "purga_rm" THEN [antes.meta EXCEPT ![k] = NADA] ELSE antes.meta
      /\ carpetas = antes.carpetas /\ permisos = antes.permisos
      /\ \A c \in Clave : Presentes(Ahora, c) = Presentes(antes, c)
  BY <1>h, Leidas DEF HechoPurgar
<1>q. ASSUME NEW p, p \in {"purga_erase", "purga_rm"}
      PROVE  /\ En(p, r).paso = p /\ En(p, r).clave = k /\ En(p, r).user = r.user
             /\ En(p, r) # OCIOSO
  BY <1>0, <1>q DEF En, Pedido, OCIOSO
<1>1. CASE purgaGet(h)
  <2> DEFINE q == En("purga_erase", r)
  <2>1. r.paso = "purga_get" /\ Lee(h, q)
    BY <1>1 DEF purgaGet, Get
  <2>2. q.paso = "purga_erase" /\ q.clave = k /\ q.user = r.user /\ q # OCIOSO
    BY <1>q
  <2> HIDE DEF q
  <2>3. Hecho(q, antes, Ahora)
    BY <1>h, <2>1, <2>2, EsHecho DEF HechoPurgar, Purgando
  <2> QED
    BY <2>1, <2>2, <2>3, LeeSale
<1>2. CASE purgaErase(h)
  <2> DEFINE q == En("purga_rm", r)
  <2>1. /\ r.paso = "purga_erase" /\ meta' = [meta EXCEPT ![k] = NADA]
        /\ UNCHANGED <<carpetas, disco, permisos>> /\ Sigue(h, q)
    BY <1>2 DEF purgaErase, EscribeDB
  <2>2. q.paso = "purga_rm" /\ q.clave = k /\ q.user = r.user /\ q # OCIOSO
    BY <1>q
  <2>3. hilo'[h] = q
    BY <2>1, Continua
  <2> HIDE DEF q
  <2>4. HechoPurgar(q, antes, Ahora')
    BY <1>e, <2>1, <2>2, MismoDisco, Quedaran DEF HechoPurgar
  <2>5. Hecho(q, antes, Ahora')
    BY <2>2, <2>4, EsHecho DEF Purgando
  <2> QED
    BY <2>2, <2>3, <2>5 DEF Sale
<1>3. CASE purgaRm(h)
  <2>1. /\ r.paso = "purga_rm" /\ disco' = [disco EXCEPT ![k] = [v \in Version |-> NADA]]
        /\ UNCHANGED <<carpetas, meta, permisos>> /\ Sigue(h, OCIOSO)
    BY <1>3 DEF purgaRm
  <2>2. antes' = Ahora' /\ hilo'[h] = OCIOSO
    BY <2>1, Continua
  <2>3. /\ antes'.meta = [antes.meta EXCEPT ![k] = NADA]
        /\ antes'.carpetas = antes.carpetas /\ antes'.permisos = antes.permisos
    BY <1>e, <2>1, <2>2, Quedaran
  <2>4. \A c \in Clave : Presentes(antes', c) = IF c = k THEN {} ELSE Presentes(antes, c)
    <3>1. \A c \in Clave : c # k => disco'[c] = disco[c]
      BY <2>1, Sabe DEF Disco
    <3>2. \A v \in Version : disco'[k][v] = NADA
      BY <1>0, <2>1, Sabe DEF Disco
    <3>3. Presentes(antes', k) = {}
      BY <2>2, <3>2, Quedaran
    <3>4. \A c \in Clave : c # k => Presentes(antes', c) = Presentes(Ahora, c)
      BY <2>2, <3>1, MismaFila
    <3> QED
      BY <1>e, <3>3, <3>4
  <2> HIDE DEF k, r
  <2>5. A!Next
    BY <1>0, <1>e, <2>3, <2>4, HacePurgar
  <2> QED
    BY <2>2, <2>5 DEF Sale, r
<1> QED
  BY <1>1, <1>2, <1>3 DEF Purga

\* A rename moves one version.
LEMMA RenombraUna ==
  ASSUME disco \in Disco, NEW k \in Clave, NEW c \in Clave, k # c, NEW n \in Version,
         disco[k][n] # NADA, disco' = Renombra(k, c, n)
  PROVE  /\ Presentes(Ahora', k) = Presentes(Ahora, k) \ {n}
         /\ Presentes(Ahora', c) = Presentes(Ahora, c) \cup {n}
         /\ \A x \in Clave : x # k /\ x # c => Presentes(Ahora', x) = Presentes(Ahora, x)
<1>1. /\ \A v \in Version : disco'[k][v] = IF v = n THEN NADA ELSE disco[k][v]
      /\ \A v \in Version : disco'[c][v] = IF v = n THEN disco[k][n] ELSE disco[c][v]
      /\ \A x \in Clave : x # k /\ x # c => disco'[x] = disco[x]
  BY DEF Renombra, Disco
<1>2. \A x : /\ Presentes(Ahora, x) = {v \in Version : disco[x][v] # NADA}
             /\ Presentes(Ahora', x) = {v \in Version : disco'[x][v] # NADA}
  BY Leidas, Quedaran
<1>3. \A v \in Version : disco'[k][v] # NADA <=> disco[k][v] # NADA /\ v # n
  BY <1>1
<1>4. \A v \in Version : disco'[c][v] # NADA <=> disco[c][v] # NADA \/ v = n
  BY <1>1
<1>5. Presentes(Ahora', k) = Presentes(Ahora, k) \ {n}
  BY <1>2, <1>3
<1>6. Presentes(Ahora', c) = Presentes(Ahora, c) \cup {n}
  BY <1>2, <1>4
<1>7. \A x \in Clave : x # k /\ x # c => Presentes(Ahora', x) = Presentes(Ahora, x)
  BY <1>1, MismaFila
<1> QED
  BY <1>5, <1>6, <1>7

\* A rename of the next version.
LEMMA MueveUna ==
  ASSUME disco \in Disco, NEW k \in Clave, NEW c \in Clave, k # c, NEW n, Ultima(antes, k) \in Version,
         Movido(antes, Ahora, k, c, n), n <= Ultima(antes, k), disco[k][n] # NADA,
         disco' = Renombra(k, c, n)
  PROVE  Movido(antes, Ahora', k, c, n + 1)
<1> DEFINE L == Ultima(antes, k)
<1>1. /\ L \in Version /\ n \in 1..(L + 1) /\ 1..(n - 1) \subseteq Presentes(antes, k)
      /\ \A x \in Clave : Presentes(Ahora, x) =
           IF x = k THEN Presentes(antes, x) \ (1..(n - 1))
           ELSE IF x = c THEN Presentes(antes, x) \cup 1..(n - 1)
           ELSE Presentes(antes, x)
  BY DEF Movido
<1>2. /\ n \in Version /\ n + 1 \in 1..(L + 1) /\ (n + 1) - 1 = n
      /\ 1..n = (1..(n - 1)) \cup {n}
  BY <1>1, MaxVersionAssumption DEF Version
<1>3. n \in Presentes(antes, k)
  BY <1>1, <1>2, Leidas
<1>5. /\ Presentes(Ahora', k) = Presentes(Ahora, k) \ {n}
      /\ Presentes(Ahora', c) = Presentes(Ahora, c) \cup {n}
      /\ \A x \in Clave : x # k /\ x # c => Presentes(Ahora', x) = Presentes(Ahora, x)
  BY <1>2, RenombraUna
<1>6. \A x \in Clave : Presentes(Ahora', x) =
        IF x = k THEN Presentes(antes, x) \ (1..n)
        ELSE IF x = c THEN Presentes(antes, x) \cup 1..n
        ELSE Presentes(antes, x)
  BY <1>1, <1>2, <1>5
<1>7. 1..n \subseteq Presentes(antes, k)
  BY <1>1, <1>2, <1>3
<1> HIDE DEF L
<1> QED
  BY <1>2, <1>6, <1>7 DEF Movido, L

LEMMA SeguidasEs ==
  ASSUME NEW a, NEW k, Ultima(a, k) \in Version, NEW n \in 1..(Ultima(a, k) + 1),
         1..(n - 1) \subseteq Presentes(a, k),
         n = Ultima(a, k) + 1 \/ n \notin Presentes(a, k)
  PROVE  Seguidas(a, k) = 1..(n - 1)
<1> DEFINE L == Ultima(a, k)
           P == Presentes(a, k)
<1>0. L \in Nat
  BY DEF Version
<1>1. ASSUME NEW i \in 1..L, \A j \in 1..i : j \in P PROVE i \in 1..(n - 1)
  <2>1. n = L + 1 \/ n \notin 1..i
    BY <1>1
  <2> QED
    BY <1>0, <2>1
<1>2. ASSUME NEW i \in 1..(n - 1) PROVE i \in 1..L /\ \A j \in 1..i : j \in P
  <2>1. \A j \in 1..i : j \in 1..(n - 1)
    BY <1>0
  <2> QED
    BY <1>0, <2>1
<1> HIDE DEF L, P
<1>3. {i \in 1..L : \A j \in 1..i : j \in P} = 1..(n - 1)
  BY <1>1, <1>2
<1> QED
  BY <1>3 DEF Seguidas, L, P

-----------------------------------------------------------------------------
(* Restorations *)

LEMMA RestauraSolo ==
  ASSUME NEW h, Sola(h), Restaura(h)
  PROVE  Sale(hilo'[h])
<1> DEFINE r == hilo[h]
           k == r.clave
           c == r.destino
           u == r.user
           C == MasCarpeta(antes.carpetas, u, CarpetaDe(k.ruta))
<1>0. /\ r \in Pedido /\ k \in Clave /\ c \in Clave /\ u \in Usuario /\ r # OCIOSO
      /\ r.paso \in Restaurando /\ Forma(r) /\ antes \in Almacenes
  <2>1. r.paso \in Restaurando
    BY DEF Restaura, restauraCarpeta, puedoRestaurarA, restauraGet, restauraMueve, restauraLee,
           loteRestaura, restauraEscribe, deshacerRestaurado, Restaurando
  <2> QED
    BY <2>1, Sabe DEF Sola
<1>f. ~Viva(k) /\ c = ClaveReal(u, k) /\ Viva(c) /\ c # k
  BY <1>0 DEF Forma, Restaurando, ClaveReal, Viva
<1>t. /\ disco \in Disco /\ antes.carpetas \in [Usuario -> SUBSET Carpeta]
      /\ Con(antes, k) => antes.meta[k] \in Metadato /\ Ultima(antes, k) \in Version
  BY <1>0, Sabe
<1>h. HechoRestaurar(r, antes, Ahora)
  BY <1>0, EsHecho DEF Sola
<1>e. /\ Puede(antes, u, k) /\ r.paso # "deshace"
      /\ carpetas = IF r.paso = "rest_carpeta" THEN antes.carpetas ELSE C
      /\ meta = antes.meta /\ permisos = antes.permisos
      /\ IF r.paso \in Moviendo \cup TrasMover THEN Movido(antes, Ahora, k, c, r.n)
         ELSE \A x \in Clave : Presentes(Ahora, x) = Presentes(antes, x)
  BY <1>h, Leidas DEF HechoRestaurar
<1>v. r.paso \notin {"rest_carpeta", "puedo"} =>
        /\ Esta(antes, k) /\ ~Con(antes, c) /\ 1 \notin Presentes(antes, c)
        /\ antes.meta[k] \in Metadato /\ Ultima(antes, k) \in Version
  BY <1>h, <1>t DEF HechoRestaurar, Esta
<1>q. ASSUME NEW p
      PROVE  /\ En(p, r).paso = p /\ En(p, r).clave = k /\ En(p, r).destino = c
             /\ En(p, r).user = u /\ En(p, r).n = r.n /\ En(p, r).leido = r.leido
             /\ En(p, r).nuevo = r.nuevo /\ En(p, r) # OCIOSO
  BY <1>0 DEF En, Pedido, OCIOSO
\* The end of a restoration that moved vs.
<1>s. ASSUME Sigue(h, OCIOSO), carpetas' = C, permisos' = permisos, NEW vs \in SUBSET Version,
             \A x \in Clave : Presentes(Ahora', x) =
               IF x = k THEN Presentes(antes, x) \ vs
               ELSE IF x = c THEN Presentes(antes, x) \cup vs ELSE Presentes(antes, x),
             IF Esta(antes, k) /\ ~Con(antes, c) /\ 1 \notin Presentes(antes, c)
             THEN /\ vs = Seguidas(antes, k)
                  /\ meta' = IF vs = 1..Ultima(antes, k)
                             THEN [antes.meta EXCEPT ![k] = NADA, ![c] = antes.meta[k]]
                             ELSE antes.meta
             ELSE vs = {} /\ meta' = antes.meta
      PROVE  Sale(hilo'[h])
  <2>1. antes' = Ahora' /\ hilo'[h] = OCIOSO
    BY <1>s, Continua
  <2>2. /\ antes'.carpetas = C /\ antes'.permisos = antes.permisos /\ antes'.meta = meta'
        /\ \A x \in Clave : Presentes(antes', x) = Presentes(Ahora', x)
    BY <1>e, <1>s, <2>1, Quedaran
  <2>3. /\ \A x \in Clave : Presentes(antes', x) =
             IF x = k THEN Presentes(antes, x) \ vs
             ELSE IF x = c THEN Presentes(antes, x) \cup vs ELSE Presentes(antes, x)
        /\ IF Esta(antes, k) /\ ~Con(antes, c) /\ 1 \notin Presentes(antes, c)
           THEN /\ vs = Seguidas(antes, k)
                /\ antes'.meta = IF vs = 1..Ultima(antes, k)
                                 THEN [antes.meta EXCEPT ![k] = NADA, ![c] = antes.meta[k]]
                                 ELSE antes.meta
           ELSE vs = {} /\ antes'.meta = antes.meta
    BY <1>s, <2>2
  <2>4. /\ Puede(antes, u, k) /\ vs \in SUBSET Version
        /\ antes'.carpetas = MasCarpeta(antes.carpetas, u, CarpetaDe(k.ruta))
        /\ antes'.permisos = antes.permisos
    BY <1>e, <1>s, <2>2
  <2> HIDE DEF k, c, u, C
  <2>5. A!Next
    BY <1>0, <1>f, <2>3, <2>4, HaceRestaurar
  <2> QED
    BY <2>1, <2>5 DEF Sale
<1>1. CASE restauraCarpeta(h)
  <2> DEFINE q == En("puedo", r)
  <2>1. /\ r.paso = "rest_carpeta" /\ carpetas' = ConCarpeta(u, CarpetaDe(k.ruta))
        /\ UNCHANGED <<disco, meta, permisos>> /\ Sigue(h, q)
    BY <1>1 DEF restauraCarpeta
  <2>2. hilo'[h] = q
    BY <1>q, <2>1, Continua
  <2>3. carpetas' = C
    BY <1>e, <2>1 DEF ConCarpeta, MasCarpeta
  <2>4. \A x \in Clave : Presentes(Ahora', x) = Presentes(antes, x)
    BY <1>e, <2>1, MismoDisco DEF Moviendo, TrasMover
  <2> HIDE DEF q
  <2>5. HechoRestaurar(q, antes, Ahora')
    BY <1>e, <1>q, <2>1, <2>3, <2>4, Quedaran DEF HechoRestaurar, Moviendo, TrasMover, q
  <2>6. Hecho(q, antes, Ahora') /\ q # OCIOSO
    BY <1>q, <2>5, EsHecho DEF Restaurando, q
  <2> QED
    BY <2>2, <2>6 DEF Sale
<1>2. CASE puedoRestaurarA(h)
  <2> DEFINE q == En("rest_get", r)
             puede == ~existeMetadato(c) /\ ~existeArchivo(c) /\ Existe(k)
  <2>1. r.paso = "puedo" /\ Lee(h, IF puede THEN q ELSE OCIOSO)
    BY <1>2 DEF puedoRestaurarA
  <2>2. carpetas = C /\ \A x \in Clave : Presentes(Ahora, x) = Presentes(antes, x)
    BY <1>e, <2>1 DEF Moviendo, TrasMover
  <2>3. puede <=> Esta(antes, k) /\ ~Con(antes, c) /\ 1 \notin Presentes(antes, c)
    <3>1. /\ existeMetadato(k) <=> Con(antes, k)
          /\ existeMetadato(c) <=> Con(antes, c)
      BY <1>e DEF existeMetadato, Con
    <3>2. /\ existeArchivo(k) <=> 1 \in Presentes(antes, k)
          /\ existeArchivo(c) <=> 1 \in Presentes(antes, c)
      BY <1>0, <2>2, Leidas
    <3> QED
      BY <3>1, <3>2 DEF Existe, Esta
  <2>4. CASE puede
    <3> HIDE DEF q, puede
    <3>1. HechoRestaurar(q, antes, Ahora)
      BY <1>e, <1>q, <2>1, <2>2, <2>3, <2>4, Leidas DEF HechoRestaurar, Moviendo, TrasMover, q
    <3>2. Hecho(q, antes, Ahora) /\ q # OCIOSO
      BY <1>q, <3>1, EsHecho DEF Restaurando, q
    <3> QED
      BY <2>1, <2>4, <3>2, LeeSale
  <2>5. CASE ~puede
    <3>1. Sigue(h, OCIOSO) /\ Ahora' = Ahora /\ UNCHANGED <<carpetas, meta, permisos>>
      BY <2>1, <2>5, LeeIgual DEF Lee
    <3>2. \A x \in Clave : Presentes(Ahora', x) =
            IF x = k THEN Presentes(antes, x) \ {}
            ELSE IF x = c THEN Presentes(antes, x) \cup {} ELSE Presentes(antes, x)
      BY <2>2, <3>1
    <3>3. carpetas' = C /\ permisos' = permisos /\ meta' = antes.meta
      BY <1>e, <2>2, <3>1
    <3> HIDE DEF k, c, u, C, puede
    <3> QED
      BY <1>s, <2>3, <2>5, <3>1, <3>2, <3>3
  <2> QED
    BY <2>4, <2>5
<1>3. CASE restauraGet(h)
  <2> DEFINE q == [En("rest_mueve", r) EXCEPT !.leido = meta[k]]
  <2>1. r.paso = "rest_get" /\ Lee(h, q)
    BY <1>3 DEF restauraGet, Get
  <2>2. /\ q.paso = "rest_mueve" /\ q.clave = k /\ q.destino = c /\ q.user = u /\ q.n = 1
        /\ q.leido = antes.meta[k] /\ q # OCIOSO
    BY <1>0, <1>e, <2>1 DEF En, Pedido, OCIOSO, Forma
  <2>3. carpetas = C /\ \A x \in Clave : Presentes(Ahora, x) = Presentes(antes, x)
    BY <1>e, <2>1 DEF Moviendo, TrasMover
  <2>4. Movido(antes, Ahora, k, c, 1)
    <3>1. 1 \in 1..(Ultima(antes, k) + 1) /\ 1..(1 - 1) = {}
      BY <1>v, <2>1 DEF Version
    <3> QED
      BY <2>3, <3>1 DEF Movido
  <2> HIDE DEF q
  <2>5. HechoRestaurar(q, antes, Ahora)
    BY <1>e, <1>v, <2>1, <2>2, <2>3, <2>4, Leidas DEF HechoRestaurar, Moviendo, TrasMover
  <2>6. Hecho(q, antes, Ahora)
    BY <2>2, <2>5, EsHecho DEF Restaurando
  <2> QED
    BY <2>1, <2>2, <2>6, LeeSale
<1>4. CASE restauraMueve(h)
  <2> DEFINE falla == disco[k][r.n] = NADA \/ ~HayCarpeta(c)
             q == [r EXCEPT !.n = @ + 1]
  <2>1. /\ r.paso = "rest_mueve" /\ ~Movidas(r)
        /\ disco' = IF falla THEN disco ELSE Renombra(k, c, r.n)
        /\ UNCHANGED <<carpetas, meta, permisos>>
        /\ Sigue(h, IF falla THEN OCIOSO ELSE q)
    BY <1>4 DEF restauraMueve, EscribeDisco
  <2>2. /\ r.leido = antes.meta[k] /\ carpetas = C /\ Movido(antes, Ahora, k, c, r.n)
        /\ ~(r.n > Ultima(antes, k))
    BY <1>h, <1>e, <2>1 DEF HechoRestaurar, Movidas, Ultima, Moviendo
  <2>3. /\ r.n \in 1..(Ultima(antes, k) + 1) /\ 1..(r.n - 1) \subseteq Presentes(antes, k)
        /\ Ultima(antes, k) \in Version
    BY <1>v, <2>1, <2>2 DEF Movido
  <2>4. r.n <= Ultima(antes, k) /\ r.n \in Version /\ r.n \notin 1..(r.n - 1)
    BY <2>2, <2>3, MaxVersionAssumption DEF Version
  <2>5. CASE ~falla
    <3>1. Movido(antes, Ahora', k, c, r.n + 1)
      BY <1>0, <1>f, <1>t, <2>1, <2>2, <2>3, <2>4, <2>5, MueveUna
    <3>2. /\ q.paso = "rest_mueve" /\ q.clave = k /\ q.destino = c /\ q.user = u
          /\ q.n = r.n + 1 /\ q.leido = r.leido /\ q # OCIOSO
      BY <1>0, <2>1 DEF Pedido, OCIOSO
    <3>3. hilo'[h] = q
      BY <2>1, <2>5, Continua
    <3> HIDE DEF q
    <3>4. HechoRestaurar(q, antes, Ahora')
      BY <1>e, <1>v, <2>1, <2>2, <3>1, <3>2, Quedaran DEF HechoRestaurar, Moviendo, TrasMover
    <3>5. Hecho(q, antes, Ahora')
      BY <3>2, <3>4, EsHecho DEF Restaurando
    <3> QED
      BY <3>2, <3>3, <3>5 DEF Sale
  <2>6. CASE falla
    <3>1. HayCarpeta(c)
      <4>1. CarpetaDe(c.ruta) \in C[u] /\ c.dueno = u
        BY <1>0, <1>f, <1>t, CarpetaEnSi DEF MasCarpeta, ClaveReal
      <4> QED
        BY <2>2, <4>1 DEF HayCarpeta
    <3>2. r.n \notin Presentes(antes, k)
      <4>1. r.n \notin Presentes(Ahora, k)
        BY <2>6, <3>1, Leidas
      <4> QED
        BY <1>0, <2>2, <2>4, <4>1 DEF Movido
    <3>3. Seguidas(antes, k) = 1..(r.n - 1)
      BY <2>3, <3>2, SeguidasEs
    <3>4. 1..(r.n - 1) # 1..Ultima(antes, k) /\ 1..(r.n - 1) \in SUBSET Version
      <4>1. r.n \in 1..Ultima(antes, k)
        BY <2>3, <2>4 DEF Version
      <4>2. Presentes(antes, k) \subseteq Version
        BY DEF Presentes
      <4> QED
        BY <2>3, <2>4, <4>1, <4>2
    <3>5. \A x \in Clave : Presentes(Ahora', x) =
            IF x = k THEN Presentes(antes, x) \ (1..(r.n - 1))
            ELSE IF x = c THEN Presentes(antes, x) \cup 1..(r.n - 1) ELSE Presentes(antes, x)
      BY <2>1, <2>2, <2>6, MismoDisco DEF Movido
    <3>6. /\ Esta(antes, k) /\ ~Con(antes, c) /\ 1 \notin Presentes(antes, c)
          /\ meta' = antes.meta /\ carpetas' = C /\ permisos' = permisos /\ Sigue(h, OCIOSO)
      BY <1>e, <1>v, <2>1, <2>2, <2>6
    <3> HIDE DEF k, c, u, C, falla
    <3> QED
      BY <1>s, <3>3, <3>4, <3>5, <3>6
  <2> QED
    BY <2>5, <2>6
<1>5. CASE restauraLee(h)
  <2> DEFINE q == [En("rest_lote", r) EXCEPT !.nuevo = meta[k]]
  <2>1. r.paso = "rest_mueve" /\ Movidas(r) /\ Lee(h, q)
    BY <1>5 DEF restauraLee, Get
  <2>2. r.leido = antes.meta[k] /\ carpetas = C /\ Movido(antes, Ahora, k, c, r.n)
    BY <1>h, <1>e, <2>1 DEF HechoRestaurar, Moviendo
  <2>3. r.n = Ultima(antes, k) + 1
    <3>1. r.n > Ultima(antes, k) /\ r.n \in 1..(Ultima(antes, k) + 1) /\ Ultima(antes, k) \in Nat
      BY <1>v, <2>1, <2>2 DEF Movidas, Ultima, Movido, Version
    <3> QED
      BY <3>1
  <2>4. /\ q.paso = "rest_lote" /\ q.clave = k /\ q.destino = c /\ q.user = u /\ q.n = r.n
        /\ q.nuevo = antes.meta[k] /\ q # OCIOSO
    BY <1>0, <1>e, <2>1 DEF En, Pedido, OCIOSO
  <2> HIDE DEF q
  <2>5. HechoRestaurar(q, antes, Ahora)
    BY <1>e, <1>v, <2>1, <2>2, <2>3, <2>4, Leidas DEF HechoRestaurar, Moviendo, TrasMover
  <2>6. Hecho(q, antes, Ahora)
    BY <2>4, <2>5, EsHecho DEF Restaurando
  <2> QED
    BY <2>1, <2>4, <2>6, LeeSale
<1>6. CASE loteRestaura(h)
  <2> DEFINE q == En("rest_escribe", r)
  <2>1. /\ r.paso = "rest_lote"
        /\ Lee(h, IF existeMetadato(k) /\ ~existeMetadato(c)
                  THEN q ELSE [En("deshace", r) EXCEPT !.n = 1])
    BY <1>6 DEF loteRestaura
  <2>2. existeMetadato(k) /\ ~existeMetadato(c)
    BY <1>e, <1>v, <2>1 DEF existeMetadato, Con, Esta
  <2>3. Lee(h, q)
    BY <2>1, <2>2
  <2>4. /\ r.nuevo = antes.meta[k] /\ carpetas = C /\ Movido(antes, Ahora, k, c, r.n)
        /\ r.n = Ultima(antes, k) + 1
    BY <1>h, <1>e, <2>1 DEF HechoRestaurar, TrasMover
  <2> HIDE DEF q
  <2>5. HechoRestaurar(q, antes, Ahora)
    BY <1>e, <1>q, <1>v, <2>1, <2>4, Leidas DEF HechoRestaurar, Moviendo, TrasMover, q
  <2>6. Hecho(q, antes, Ahora) /\ q # OCIOSO
    BY <1>q, <2>5, EsHecho DEF Restaurando, q
  <2> QED
    BY <2>3, <2>6, LeeSale
<1>7. CASE restauraEscribe(h)
  <2>1. /\ r.paso = "rest_escribe" /\ meta' = [meta EXCEPT ![k] = NADA, ![c] = r.nuevo]
        /\ UNCHANGED <<carpetas, disco, permisos>> /\ Sigue(h, OCIOSO)
    BY <1>7 DEF restauraEscribe, EscribeDB
  <2>2. /\ r.nuevo = antes.meta[k] /\ carpetas = C /\ Movido(antes, Ahora, k, c, r.n)
        /\ r.n = Ultima(antes, k) + 1
    BY <1>h, <1>e, <2>1 DEF HechoRestaurar, TrasMover
  <2>3. /\ r.n \in 1..(Ultima(antes, k) + 1) /\ 1..(r.n - 1) \subseteq Presentes(antes, k)
        /\ Ultima(antes, k) \in Version /\ r.n - 1 = Ultima(antes, k)
    BY <1>v, <2>1, <2>2 DEF Movido, Version
  <2>4. Seguidas(antes, k) = 1..Ultima(antes, k) /\ 1..Ultima(antes, k) \in SUBSET Version
    <3>1. Presentes(antes, k) \subseteq Version
      BY DEF Presentes
    <3> QED
      BY <2>2, <2>3, <3>1, SeguidasEs
  <2>5. \A x \in Clave : Presentes(Ahora', x) =
          IF x = k THEN Presentes(antes, x) \ (1..Ultima(antes, k))
          ELSE IF x = c THEN Presentes(antes, x) \cup 1..Ultima(antes, k) ELSE Presentes(antes, x)
    BY <2>1, <2>2, <2>3, MismoDisco DEF Movido
  <2>6. /\ Esta(antes, k) /\ ~Con(antes, c) /\ 1 \notin Presentes(antes, c)
        /\ meta' = [antes.meta EXCEPT ![k] = NADA, ![c] = antes.meta[k]]
        /\ carpetas' = C /\ permisos' = permisos /\ Sigue(h, OCIOSO)
    BY <1>e, <1>v, <2>1, <2>2
  <2> HIDE DEF k, c, u, C
  <2> QED
    BY <1>s, <2>4, <2>5, <2>6
<1>8. ~deshacerRestaurado(h)
  BY <1>e DEF deshacerRestaurado
<1> QED
  BY <1>1, <1>2, <1>3, <1>4, <1>5, <1>6, <1>7, <1>8 DEF Restaura

-----------------------------------------------------------------------------
(* Changes of the users list *)

\* Whom the next step of a change leaves for later, and whose path it has taken.  One that
\* finds that the requester reaches the file no more,
LEMMA MenosUno ==
  ASSUME NEW r, NEW a, NEW E, NEW Q, Quitados(r, a, E, Q), NEW g \in E,
         E \subseteq Nuevos(r, a) \cup Sobran(r, a), r.user \in Q, r.user # r.clave.dueno
  PROVE  /\ Quitados(r, a, E \ {g}, Q)
         /\ Nuevos(r, a) \ (E \ {g}) = Nuevos(r, a) \ E
BY DEF Quitados, Nuevos, Sobran

\* one that gives a user the path,
LEMMA MenosNuevo ==
  ASSUME NEW r, NEW a, NEW E, NEW Q, Quitados(r, a, E, Q), NEW g \in E,
         E \subseteq Nuevos(r, a) \cup Sobran(r, a), g \in r.lista
  PROVE  /\ Quitados(r, a, E \ {g}, Q) /\ g \notin Q
         /\ Nuevos(r, a) \ (E \ {g}) = (Nuevos(r, a) \ E) \cup {g}
<1>1. Nuevos(r, a) \subseteq r.lista /\ Sobran(r, a) \cap r.lista = {}
  BY DEF Nuevos, Sobran
<1> QED
  BY <1>1 DEF Quitados

\* and one that takes it from him.
LEMMA MenosSobrante ==
  ASSUME NEW r, NEW a, NEW E, NEW Q, Quitados(r, a, E, Q), NEW g \in E,
         E \subseteq Nuevos(r, a) \cup Sobran(r, a), g \notin r.lista,
         r.user = r.clave.dueno \/ r.user \notin Q, Nuevos(r, a) \cap (E \ {g}) = {}
  PROVE  /\ Quitados(r, a, E \ {g}, Q \cup {g}) /\ g \notin Nuevos(r, a)
         /\ Nuevos(r, a) \ (E \ {g}) = Nuevos(r, a) \ E
<1>1. Nuevos(r, a) \subseteq r.lista /\ Sobran(r, a) \cap r.lista = {}
  BY DEF Nuevos, Sobran
<1> QED
  BY <1>1 DEF Quitados

LEMMA RepartidosMas ==
  ASSUME NEW a, NEW k, NEW N, NEW Q, NEW g \in Usuario, g \notin Q
  PROVE  [Repartidos(a, k, N, Q) EXCEPT ![g] = @ \cup {k}] = Repartidos(a, k, N \cup {g}, Q)
BY DEF Repartidos

LEMMA RepartidosMenos ==
  ASSUME NEW a, NEW k, NEW N, NEW Q, NEW g \in Usuario, g \notin N
  PROVE  [Repartidos(a, k, N, Q) EXCEPT ![g] = @ \ {k}] = Repartidos(a, k, N, Q \cup {g})
BY DEF Repartidos

LEMMA UsuariosMas ==
  ASSUME NEW M \in [Clave -> Metadato \cup {NADA}], NEW k \in Clave, M[k] \in Metadato,
         NEW N \in SUBSET Usuario
  PROVE  /\ MasUsuarios(M, k, N)[k] \in Metadato
         /\ MasUsuarios(M, k, N)[k] = [M[k] EXCEPT !.usuarios = @ \cup N]
         /\ \A c \in Clave : c # k => MasUsuarios(M, k, N)[c] = M[c]
         /\ MasUsuarios(M, k, N) \in [Clave -> Metadato \cup {NADA}]
<1>1. [M[k] EXCEPT !.usuarios = M[k].usuarios \cup N] \in Metadato
  BY DEF Metadato
<1> QED
  BY <1>1 DEF MasUsuarios

LEMMA UsuarioMas ==
  ASSUME NEW M \in [Clave -> Metadato \cup {NADA}], NEW k \in Clave, M[k] \in Metadato,
         NEW N \in SUBSET Usuario, NEW g \in Usuario, NEW P, P = MasUsuarios(M, k, N)
  PROVE  [P EXCEPT ![k] = [P[k] EXCEPT !.usuarios = @ \cup {g}]] = MasUsuarios(M, k, N \cup {g})
<1> DEFINE m == [M[k] EXCEPT !.usuarios = M[k].usuarios \cup N]
<1>1. P[k] = m /\ P = [M EXCEPT ![k] = m]
  BY DEF MasUsuarios
<1>2. [m EXCEPT !.usuarios = m.usuarios \cup {g}]
         = [M[k] EXCEPT !.usuarios = M[k].usuarios \cup (N \cup {g})]
  BY DEF Metadato
<1> HIDE DEF m
<1>3. [P EXCEPT ![k] = [m EXCEPT !.usuarios = m.usuarios \cup {g}]]
         = [M EXCEPT ![k] = [m EXCEPT !.usuarios = m.usuarios \cup {g}]]
  BY <1>1
<1> QED
  BY <1>1, <1>2, <1>3 DEF MasUsuarios

LEMMA MismoCambio ==
  ASSUME NEW r, NEW q, q.clave = r.clave, q.lista = r.lista, q.user = r.user, NEW a
  PROVE  /\ Nuevos(q, a) = Nuevos(r, a) /\ Sobran(q, a) = Sobran(r, a)
         /\ \A E, Q : Quitados(q, a, E, Q) <=> Quitados(r, a, E, Q)
BY DEF Nuevos, Sobran, Quitados

\* The change of r goes on as q.
LEMMA SigueCambio ==
  ASSUME NEW r, NEW q, NEW a, NEW e,
         q.clave = r.clave, q.lista = r.lista, q.user = r.user, q.destino = r.destino,
         q.leido = a.meta[r.clave],
         q.paso \in Cambiando \ (Moviendo \cup TrasMover \cup {"act_get"}),
         Puede(a, r.user, r.clave), Con(a, r.clave), e.carpetas = a.carpetas,
         r.lista = a.meta[r.clave].usuarios \/ r.clave.dueno \in r.lista,
         Faltan(q) \subseteq Nuevos(r, a) \cup Sobran(r, a),
         NEW N, N = Nuevos(r, a) \ Faltan(q), e.meta = MasUsuarios(a.meta, r.clave, N),
         NEW Q \in SUBSET Usuario, Quitados(r, a, Faltan(q), Q),
         e.permisos = Repartidos(a, r.clave, N, Q),
         \A x \in Clave : Presentes(e, x) = Presentes(a, x),
         q.paso \in PorPermiso =>
           /\ Puede(e, r.user, r.clave) /\ q.quien \notin q.pend
           /\ q.quien \in r.lista \/ q.pend \cap r.lista = {},
         q.paso \in PorPermiso \ {"perm_get"} =>
           q.nuevo = [e.meta[r.clave] EXCEPT !.usuarios =
                        IF q.quien \in r.lista THEN @ \cup {q.quien} ELSE @],
         q.paso \in {"perm_lote", "perm_escribe"} =>
           q.indices[q.quien] = IF q.quien \in r.lista
                                THEN e.permisos[q.quien] \cup {r.clave}
                                ELSE e.permisos[q.quien] \ {r.clave},
         q.paso = "act_put" => q.pend = {} /\ r.destino = r.clave
  PROVE  Hecho(q, a, e)
<1>1. /\ Nuevos(q, a) = Nuevos(r, a) /\ Sobran(q, a) = Sobran(r, a)
      /\ Quitados(q, a, Faltan(q), Q)
  BY MismoCambio
<1>2. HechoRepartir(q, a, e)
  BY <1>1 DEF HechoRepartir
<1>3. HechoActualizar(q, a, e)
  BY <1>2 DEF HechoActualizar
<1> QED
  BY <1>3, EsHecho

LEMMA ActualizaSolo ==
  ASSUME NEW h, Sola(h), Actualiza(h)
  PROVE  Sale(hilo'[h])
<1> DEFINE r == hilo[h]
           k == r.clave
           c == r.destino
           u == r.user
           pasos == {"permiso", "perm_get", "perm_indice", "perm_lote", "perm_escribe", "act_put"}
<1>0. /\ r \in Pedido /\ k \in Clave /\ c \in Clave /\ u \in Usuario /\ r # OCIOSO
      /\ r.paso \in pasos \cup {"act_get"} /\ r.paso \in Cambiando /\ Forma(r) /\ Viva(k)
      /\ antes \in Almacenes
  <2>1. r.paso \in pasos \cup {"act_get"}
    BY DEF Actualiza, actualizaGet, siguientePermiso, permisoGet, permisoIndice, permisoLote,
           permisoEscribe, actualizaModify, actualizaPut, PorModificar
  <2>2. r.paso \in Cambiando
    BY <2>1 DEF Cambiando
  <2> QED
    BY <2>1, <2>2, Sabe DEF Sola, Forma
<1>t. /\ antes.meta \in [Clave -> Metadato \cup {NADA}] /\ permisos \in [Usuario -> SUBSET Clave]
      /\ antes.permisos \in [Usuario -> SUBSET Clave]
      /\ Con(antes, k) => antes.meta[k] \in Metadato
  BY <1>0, Sabe
<1>h. HechoActualizar(r, antes, Ahora)
  BY <1>0, EsHecho DEF Sola
<1>e. /\ Puede(antes, u, k) /\ Con(antes, k) /\ carpetas = antes.carpetas
      /\ antes.meta[k] \in Metadato
  BY <1>h, <1>t, Leidas DEF HechoActualizar
<1>1. CASE actualizaGet(h)
  <2> DEFINE viejos == meta[k].usuarios
             lista == IF r.lista = {} THEN viejos ELSE r.lista
             q == [En("permiso", r) EXCEPT
                     !.leido = meta[k], !.lista = lista,
                     !.pend = (lista \ viejos) \cup (viejos \ lista)]
  <2>1. /\ r.paso = "act_get" /\ Sigue(h, q) /\ UNCHANGED almacenes
    BY <1>1 DEF actualizaGet, almacenes
  <2>2. Ahora' = Ahora /\ Ahora = antes /\ (r.lista # {} => k.dueno \in r.lista)
    BY <1>h, <2>1 DEF HechoActualizar, Ahora, almacenes
  <2>3. meta = antes.meta /\ permisos = antes.permisos
    BY <2>2, Leidas
  <2>4. /\ q.paso = "permiso" /\ q.clave = k /\ q.destino = c /\ q.user = u /\ q.leido = antes.meta[k]
        /\ q.lista = lista /\ q.pend = (lista \ viejos) \cup (viejos \ lista) /\ q # OCIOSO
    BY <1>0, <2>3 DEF En, Pedido, OCIOSO
  <2>5. hilo'[h] = q
    BY <2>1, <2>4, Continua
  <2>6. viejos = antes.meta[k].usuarios /\ (lista = viejos \/ k.dueno \in lista)
    BY <2>2, <2>3
  <2> HIDE DEF q, viejos, lista
  <2>7. /\ Nuevos(q, antes) = lista \ viejos /\ Sobran(q, antes) = viejos \ lista
        /\ Faltan(q) = (lista \ viejos) \cup (viejos \ lista)
    BY <2>4, <2>6 DEF Nuevos, Sobran, Faltan, PorPermiso
  <2>8. Quitados(q, antes, Faltan(q), {})
    BY <2>7 DEF Quitados
  <2>9. Nuevos(q, antes) \ Faltan(q) = {}
    BY <2>7
  <2>10. permisos = Repartidos(antes, k, {}, {})
    BY <1>t, <2>3 DEF Repartidos
  <2>11. meta = MasUsuarios(antes.meta, k, {})
    BY <1>0, <1>t, <1>e, <2>3 DEF MasUsuarios, Metadato
  <2>12. HechoRepartir(q, antes, Ahora)
    BY <2>2, <2>3, <2>4, <2>7, <2>8, <2>9, <2>10, <2>11 DEF HechoRepartir, PorPermiso
  <2>13. HechoActualizar(q, antes, Ahora)
    BY <1>e, <2>2, <2>4, <2>6, <2>12 DEF HechoActualizar, Moviendo, TrasMover
  <2>14. Hecho(q, antes, Ahora)
    BY <2>4, <2>13, EsHecho DEF Cambiando
  <2> QED
    BY <2>2, <2>4, <2>5, <2>14 DEF Sale
<1>d. ASSUME r.paso \in pasos
      PROVE  /\ r.lista = antes.meta[k].usuarios \/ k.dueno \in r.lista
             /\ r.leido = antes.meta[k] /\ HechoRepartir(r, antes, Ahora)
  BY <1>h, <1>d DEF HechoActualizar, Moviendo, TrasMover
<1> DEFINE E == Faltan(r)
           N == Nuevos(r, antes) \ E
<1>r. ASSUME r.paso \in pasos
      PROVE  /\ E \subseteq Nuevos(r, antes) \cup Sobran(r, antes)
             /\ meta = MasUsuarios(antes.meta, k, N)
             /\ \E Q \in SUBSET Usuario : Quitados(r, antes, E, Q) /\ permisos = Repartidos(antes, k, N, Q)
             /\ \A x \in Clave : Presentes(Ahora, x) = Presentes(antes, x)
             /\ N \in SUBSET Usuario /\ existeMetadato(k)
             /\ r.paso \in PorPermiso =>
                  /\ Puede(Ahora, u, k) /\ r.quien \notin r.pend /\ E = r.pend \cup {r.quien}
                  /\ r.quien \in r.lista \/ r.pend \cap r.lista = {}
             /\ r.paso \in PorPermiso \ {"perm_get"} =>
                  r.nuevo = [meta[k] EXCEPT !.usuarios =
                               IF r.quien \in r.lista THEN @ \cup {r.quien} ELSE @]
             /\ r.paso \in {"perm_lote", "perm_escribe"} =>
                  r.indices[r.quien] = IF r.quien \in r.lista THEN permisos[r.quien] \cup {k}
                                                             ELSE permisos[r.quien] \ {k}
  <2>1. HechoRepartir(r, antes, Ahora)
    BY <1>d, <1>r
  <2>2. /\ E \subseteq Nuevos(r, antes) \cup Sobran(r, antes)
        /\ meta = MasUsuarios(antes.meta, k, N)
        /\ \E Q \in SUBSET Usuario : Quitados(r, antes, E, Q) /\ permisos = Repartidos(antes, k, N, Q)
        /\ \A x \in Clave : Presentes(Ahora, x) = Presentes(antes, x)
    BY <2>1, Leidas DEF HechoRepartir
  <2>3. N \in SUBSET Usuario
    BY <1>0 DEF Nuevos, Pedido
  <2>4. existeMetadato(k)
    <3>1. meta[k] \in Metadato
      BY <1>0, <1>t, <1>e, <2>2, <2>3, UsuariosMas
    <3> QED
      BY <3>1, NadaHilosAssumption DEF existeMetadato
  <2>5. r.paso \in PorPermiso =>
                  /\ Puede(Ahora, u, k) /\ r.quien \notin r.pend /\ E = r.pend \cup {r.quien}
                  /\ r.quien \in r.lista \/ r.pend \cap r.lista = {}
    BY <2>1 DEF HechoRepartir, Faltan
  <2>6. /\ r.paso \in PorPermiso \ {"perm_get"} =>
                  r.nuevo = [meta[k] EXCEPT !.usuarios =
                               IF r.quien \in r.lista THEN @ \cup {r.quien} ELSE @]
        /\ r.paso \in {"perm_lote", "perm_escribe"} =>
                  r.indices[r.quien] = IF r.quien \in r.lista THEN permisos[r.quien] \cup {k}
                                                             ELSE permisos[r.quien] \ {k}
    BY <2>1, Leidas DEF HechoRepartir
  <2> QED
    BY <2>2, <2>3, <2>4, <2>5, <2>6
<1> HIDE DEF E, N
\* A step that only reads, to q, with the same to do.
<1>l. ASSUME r.paso \in pasos, NEW q, Lee(h, q), q # OCIOSO,
             q.clave = k, q.lista = r.lista, q.user = u, q.destino = c,
             q.leido = r.leido, q.paso \in pasos, Faltan(q) = E,
             q.paso \in PorPermiso =>
               /\ Puede(Ahora, u, k) /\ q.quien \notin q.pend
               /\ q.quien \in r.lista \/ q.pend \cap r.lista = {},
             q.paso \in PorPermiso \ {"perm_get"} =>
               q.nuevo = [meta[k] EXCEPT !.usuarios =
                            IF q.quien \in r.lista THEN @ \cup {q.quien} ELSE @],
             q.paso \in {"perm_lote", "perm_escribe"} =>
               q.indices[q.quien] = IF q.quien \in r.lista THEN permisos[q.quien] \cup {k}
                                                           ELSE permisos[q.quien] \ {k},
             q.paso = "act_put" => q.pend = {} /\ c = k
      PROVE  Sale(hilo'[h])
  <2>1. PICK Q \in SUBSET Usuario : Quitados(r, antes, E, Q) /\ permisos = Repartidos(antes, k, N, Q)
    BY <1>r, <1>l
  <2>2. q.paso \in Cambiando \ (Moviendo \cup TrasMover \cup {"act_get"})
    BY <1>l DEF Cambiando, Moviendo, TrasMover
  <2>3. /\ Ahora.carpetas = antes.carpetas /\ Ahora.meta = MasUsuarios(antes.meta, k, N)
        /\ Ahora.permisos = Repartidos(antes, k, N, Q) /\ Ahora.meta[k] = meta[k]
        /\ Ahora.permisos = permisos
        /\ \A x \in Clave : Presentes(Ahora, x) = Presentes(antes, x)
    BY <1>e, <1>l, <1>r, <2>1, Leidas
  <2>4. /\ r.lista = antes.meta[k].usuarios \/ k.dueno \in r.lista
        /\ q.leido = antes.meta[k]
        /\ Faltan(q) \subseteq Nuevos(r, antes) \cup Sobran(r, antes)
        /\ N = Nuevos(r, antes) \ Faltan(q) /\ Quitados(r, antes, Faltan(q), Q)
    BY <1>d, <1>l, <1>r, <2>1 DEF N
  <2>5. /\ q.paso \in PorPermiso \ {"perm_get"} =>
             q.nuevo = [Ahora.meta[k] EXCEPT !.usuarios =
                          IF q.quien \in r.lista THEN @ \cup {q.quien} ELSE @]
        /\ q.paso \in {"perm_lote", "perm_escribe"} =>
             q.indices[q.quien] = IF q.quien \in r.lista
                                  THEN Ahora.permisos[q.quien] \cup {k}
                                  ELSE Ahora.permisos[q.quien] \ {k}
    BY <1>l, <2>3
  <2> HIDE DEF r, k, c, u
  <2>6. Hecho(q, antes, Ahora)
    BY <1>e, <1>l, <2>1, <2>2, <2>3, <2>4, <2>5, SigueCambio DEF r, k, c, u
  <2> QED
    BY <1>l, <2>6, LeeSale DEF r
<1>2. CASE siguientePermiso(h)
  <2> DEFINE nuevos == r.pend \cap r.lista
             puede == verificarPermisos(u, k) /\ existeMetadato(k)
  <2>1. r.paso = "permiso"
    BY <1>2 DEF siguientePermiso
  <2>2. PICK g \in IF nuevos # {} THEN nuevos ELSE r.pend :
          LET q == [r EXCEPT !.pend = @ \ {g}, !.quien = g]
          IN  Lee(h, IF puede THEN En("perm_get", q) ELSE q)
    BY <1>2 DEF siguientePermiso
  <2> DEFINE s == [r EXCEPT !.pend = @ \ {g}, !.quien = g]
             t == En("perm_get", s)
  <2>3. Lee(h, IF puede THEN t ELSE s)
    BY <2>2
  <2>4. g \in r.pend /\ (g \in r.lista \/ r.pend \cap r.lista = {}) /\ E = r.pend
    BY <2>1, <2>2 DEF E, Faltan, PorPermiso
  <2>5. /\ s \in Pedido /\ s.paso = "permiso" /\ s.clave = k /\ s.lista = r.lista /\ s.user = u
        /\ s.destino = c /\ s.leido = r.leido /\ s.pend = r.pend \ {g} /\ s.quien = g
    BY <1>0, <2>1, <2>4 DEF Pedido
  <2>6. /\ t.paso = "perm_get" /\ t.clave = k /\ t.lista = r.lista /\ t.user = u
        /\ t.destino = c /\ t.leido = r.leido /\ t.pend = r.pend \ {g} /\ t.quien = g
        /\ s # OCIOSO /\ t # OCIOSO
    BY <2>5 DEF Pedido, En, OCIOSO
  <2> HIDE DEF s, t
  <2>7. CASE puede
    <3>1. Faltan(t) = E /\ Puede(Ahora, u, k) /\ t.quien \notin t.pend
          /\ (t.quien \in r.lista \/ t.pend \cap r.lista = {})
      BY <2>4, <2>6, <2>7, Leidas DEF Faltan, PorPermiso
    <3>2. Lee(h, t) /\ t.paso \in pasos
      BY <2>3, <2>6, <2>7
    <3> QED
      BY <1>l, <2>1, <2>6, <3>1, <3>2
  <2>8. CASE ~puede
    <3>1. PICK Q \in SUBSET Usuario : Quitados(r, antes, E, Q) /\ permisos = Repartidos(antes, k, N, Q)
      BY <1>r, <2>1
    <3>2. u # k.dueno /\ u \in Q
      <4>1. u # k.dueno /\ k \notin permisos[u]
        BY <1>r, <2>1, <2>8 DEF verificarPermisos
      <4> QED
        BY <1>0, <1>e, <3>1, <4>1 DEF Puede, Repartidos
    <3>3. E \subseteq Nuevos(r, antes) \cup Sobran(r, antes)
      BY <1>r, <2>1
    <3>4. /\ Quitados(r, antes, E \ {g}, Q) /\ Nuevos(r, antes) \ (E \ {g}) = N
      <4>1. Quitados(r, antes, E \ {g}, Q) /\ Nuevos(r, antes) \ (E \ {g}) = Nuevos(r, antes) \ E
        <5>1. g \in E /\ r.user \in Q /\ r.user # r.clave.dueno /\ Quitados(r, antes, E, Q)
          BY <2>4, <3>1, <3>2
        <5> HIDE DEF r
        <5> QED
          BY <3>3, <5>1, MenosUno
      <4> QED
        BY <4>1 DEF N
    <3>5. Faltan(s) = E \ {g}
      BY <2>4, <2>5 DEF Faltan, PorPermiso
    <3>6. /\ Ahora.carpetas = antes.carpetas /\ Ahora.meta = MasUsuarios(antes.meta, k, N)
          /\ Ahora.permisos = Repartidos(antes, k, N, Q)
          /\ \A x \in Clave : Presentes(Ahora, x) = Presentes(antes, x)
      BY <1>e, <1>r, <2>1, <3>1, Leidas
    <3>7. /\ s.paso \in Cambiando \ (Moviendo \cup TrasMover \cup {"act_get"})
          /\ s.paso \notin PorPermiso /\ s.paso # "act_put"
      BY <2>5 DEF Cambiando, Moviendo, TrasMover, PorPermiso
    <3>8. /\ r.lista = antes.meta[k].usuarios \/ k.dueno \in r.lista
          /\ s.leido = antes.meta[k]
          /\ Faltan(s) \subseteq Nuevos(r, antes) \cup Sobran(r, antes)
          /\ N = Nuevos(r, antes) \ Faltan(s) /\ Quitados(r, antes, Faltan(s), Q)
      BY <1>d, <2>1, <2>5, <3>3, <3>4, <3>5
    <3> HIDE DEF r, k, c, u
    <3>9. Hecho(s, antes, Ahora)
      BY <1>e, <2>5, <3>1, <3>6, <3>7, <3>8, SigueCambio DEF r, k, c, u, PorPermiso
    <3> QED
      BY <2>3, <2>6, <2>8, <3>9, LeeSale DEF r
  <2> QED
    BY <2>7, <2>8
<1>3. CASE permisoGet(h)
  <2> DEFINE m == [meta[k] EXCEPT !.usuarios =
                     IF r.quien \in r.lista THEN @ \cup {r.quien} ELSE @]
             q == [En("perm_indice", r) EXCEPT !.nuevo = m]
  <2>1. r.paso = "perm_get" /\ Lee(h, q)
    BY <1>3 DEF permisoGet, Get
  <2>2. /\ q.paso = "perm_indice" /\ q.clave = k /\ q.lista = r.lista /\ q.user = u
        /\ q.destino = c /\ q.leido = r.leido /\ q.pend = r.pend /\ q.quien = r.quien
        /\ q.nuevo = m /\ q # OCIOSO
    BY <1>0 DEF Pedido, En, OCIOSO
  <2> HIDE DEF q, m
  <2>3. Faltan(q) = E
    BY <2>1, <2>2 DEF E, Faltan, PorPermiso
  <2>4. /\ Puede(Ahora, u, k) /\ q.quien \notin q.pend
        /\ q.quien \in r.lista \/ q.pend \cap r.lista = {}
        /\ q.nuevo = [meta[k] EXCEPT !.usuarios =
                        IF q.quien \in r.lista THEN @ \cup {q.quien} ELSE @]
    BY <1>r, <2>1, <2>2 DEF PorPermiso, m
  <2> QED
    BY <1>l, <2>1, <2>2, <2>3, <2>4
<1>4. CASE permisoIndice(h)
  <2> DEFINE g == r.quien
             I == IF g \in r.lista THEN permisos[g] \cup {k} ELSE permisos[g] \ {k}
             q == [En("perm_lote", r) EXCEPT !.indices[g] = I]
  <2>1. r.paso = "perm_indice" /\ Lee(h, q)
    BY <1>4 DEF permisoIndice
  <2>2. /\ q.paso = "perm_lote" /\ q.clave = k /\ q.lista = r.lista /\ q.user = u
        /\ q.destino = c /\ q.leido = r.leido /\ q.pend = r.pend /\ q.quien = g
        /\ q.nuevo = r.nuevo /\ q.indices[g] = I /\ q # OCIOSO
    BY <1>0 DEF Pedido, En, OCIOSO
  <2> HIDE DEF q, I
  <2>3. Faltan(q) = E
    BY <2>1, <2>2 DEF E, Faltan, PorPermiso
  <2>4. /\ Puede(Ahora, u, k) /\ q.quien \notin q.pend
        /\ q.quien \in r.lista \/ q.pend \cap r.lista = {}
        /\ q.nuevo = [meta[k] EXCEPT !.usuarios =
                        IF q.quien \in r.lista THEN @ \cup {q.quien} ELSE @]
    BY <1>r, <2>1, <2>2 DEF PorPermiso
  <2>5. q.indices[q.quien] = IF q.quien \in r.lista THEN permisos[q.quien] \cup {k}
                                                     ELSE permisos[q.quien] \ {k}
    BY <2>2 DEF I
  <2> QED
    BY <1>l, <2>1, <2>2, <2>3, <2>4, <2>5
<1>5. CASE permisoLote(h)
  <2> DEFINE q == En("perm_escribe", r)
  <2>1. r.paso = "perm_lote" /\ Lee(h, q)
    BY <1>5, <1>r DEF permisoLote
  <2>2. /\ q.paso = "perm_escribe" /\ q.clave = k /\ q.lista = r.lista /\ q.user = u
        /\ q.destino = c /\ q.leido = r.leido /\ q.pend = r.pend /\ q.quien = r.quien
        /\ q.nuevo = r.nuevo /\ q.indices = r.indices /\ q # OCIOSO
    BY <1>0 DEF Pedido, En, OCIOSO
  <2> HIDE DEF q
  <2>3. Faltan(q) = E
    BY <2>1, <2>2 DEF E, Faltan, PorPermiso
  <2>4. /\ Puede(Ahora, u, k) /\ q.quien \notin q.pend
        /\ q.quien \in r.lista \/ q.pend \cap r.lista = {}
        /\ q.nuevo = [meta[k] EXCEPT !.usuarios =
                        IF q.quien \in r.lista THEN @ \cup {q.quien} ELSE @]
        /\ q.indices[q.quien] = IF q.quien \in r.lista THEN permisos[q.quien] \cup {k}
                                                     ELSE permisos[q.quien] \ {k}
    BY <1>r, <2>1, <2>2 DEF PorPermiso
  <2> QED
    BY <1>l, <2>1, <2>2, <2>3, <2>4
<1>6. CASE permisoEscribe(h)
  <2> DEFINE g == r.quien
             q == En("permiso", r)
  <2>1. /\ r.paso = "perm_escribe" /\ Sigue(h, q) /\ UNCHANGED <<carpetas, disco>>
        /\ meta' = [meta EXCEPT ![k] = r.nuevo]
        /\ permisos' = [permisos EXCEPT ![g] = r.indices[g]]
    BY <1>6 DEF permisoEscribe, EscribeDB
  <2>2. /\ q.paso = "permiso" /\ q.clave = k /\ q.lista = r.lista /\ q.user = u
        /\ q.destino = c /\ q.leido = r.leido /\ q.pend = r.pend /\ q # OCIOSO
    BY <1>0 DEF Pedido, En, OCIOSO
  <2>3. hilo'[h] = q
    BY <2>1, <2>2, Continua
  <2>4. /\ g \in Usuario /\ g \in E /\ E \ {g} = r.pend
        /\ g \in r.lista \/ r.pend \cap r.lista = {}
        /\ E \subseteq Nuevos(r, antes) \cup Sobran(r, antes)
        /\ Puede(Ahora, u, k)
    BY <1>0, <1>r, <2>1 DEF PorPermiso, Pedido
  <2>5. Faltan(q) = E \ {g}
    BY <2>2, <2>4 DEF Faltan, PorPermiso
  <2>6. PICK Q \in SUBSET Usuario : Quitados(r, antes, E, Q) /\ permisos = Repartidos(antes, k, N, Q)
    BY <1>r, <2>1
  <2>7. /\ q.paso \in Cambiando \ (Moviendo \cup TrasMover \cup {"act_get"})
        /\ q.paso \notin PorPermiso /\ q.paso # "act_put"
    BY <2>2 DEF Cambiando, Moviendo, TrasMover, PorPermiso
  <2>8. /\ r.lista = antes.meta[k].usuarios \/ k.dueno \in r.lista
        /\ q.leido = antes.meta[k]
        /\ Faltan(q) \subseteq Nuevos(r, antes) \cup Sobran(r, antes)
        /\ Ahora'.carpetas = antes.carpetas
        /\ \A x \in Clave : Presentes(Ahora', x) = Presentes(antes, x)
    BY <1>d, <1>e, <1>r, <2>1, <2>2, <2>4, <2>5, MismoDisco, Quedaran
  <2>9. /\ N \in SUBSET Usuario /\ meta = MasUsuarios(antes.meta, k, N)
        /\ r.nuevo = [meta[k] EXCEPT !.usuarios = IF g \in r.lista THEN @ \cup {g} ELSE @]
        /\ r.indices[g] = IF g \in r.lista THEN permisos[g] \cup {k} ELSE permisos[g] \ {k}
    BY <1>r, <2>1 DEF PorPermiso
  <2> HIDE DEF q, g
  <2>10. CASE g \in r.lista
    <3>1. /\ Quitados(r, antes, E \ {g}, Q) /\ g \notin Q
          /\ Nuevos(r, antes) \ (E \ {g}) = N \cup {g}
      BY <2>4, <2>6, <2>10, MenosNuevo DEF N
    <3>2. Ahora'.permisos = Repartidos(antes, k, N \cup {g}, Q)
      <4>1. permisos' = [permisos EXCEPT ![g] = permisos[g] \cup {k}]
        BY <2>1, <2>9, <2>10 DEF g
      <4> QED
        BY <2>4, <2>6, <3>1, <4>1, RepartidosMas, Quedaran
    <3>3. Ahora'.meta = MasUsuarios(antes.meta, k, N \cup {g})
      <4>1. meta' = [meta EXCEPT ![k] = [meta[k] EXCEPT !.usuarios = @ \cup {g}]]
        BY <2>1, <2>9, <2>10
      <4> QED
        BY <1>0, <1>t, <1>e, <2>4, <2>9, <4>1, UsuarioMas, Quedaran
    <3>4. Hecho(q, antes, Ahora')
      <4>1. /\ Quitados(r, antes, Faltan(q), Q) /\ Q \in SUBSET Usuario
            /\ N \cup {g} = Nuevos(r, antes) \ Faltan(q)
        BY <2>4, <2>5, <3>1, <3>2, <3>3
      <4>2. q.paso \notin PorPermiso /\ q.paso \notin {"perm_lote", "perm_escribe"}
        BY <2>7 DEF PorPermiso
      <4> HIDE DEF r, k, c, u
      <4> QED
        BY <1>e, <2>2, <2>7, <2>8, <3>1, <3>2, <3>3, <4>1, <4>2, SigueCambio DEF r, k, c, u
    <3> QED
      BY <2>2, <2>3, <3>4 DEF Sale
  <2>11. CASE g \notin r.lista
    <3>1. Nuevos(r, antes) \cap (E \ {g}) = {}
      BY <2>4, <2>11 DEF Nuevos
    <3>2. u = k.dueno \/ u \notin Q
      <4>1. u # k.dueno => k \in permisos[u]
        BY <2>4, Leidas DEF Puede
      <4> QED
        BY <1>0, <2>6, <4>1 DEF Repartidos
    <3>3. /\ Quitados(r, antes, E \ {g}, Q \cup {g}) /\ g \notin Nuevos(r, antes)
          /\ Nuevos(r, antes) \ (E \ {g}) = N
      BY <2>4, <2>6, <2>11, <3>1, <3>2, MenosSobrante DEF N
    <3>4. Ahora'.permisos = Repartidos(antes, k, N, Q \cup {g}) /\ Q \cup {g} \in SUBSET Usuario
      <4>1. g \notin N
        BY <3>3 DEF N
      <4>2. permisos' = [permisos EXCEPT ![g] = permisos[g] \ {k}]
        BY <2>1, <2>9, <2>11 DEF g
      <4>3. permisos' = Repartidos(antes, k, N, Q \cup {g})
        <5>1. [Repartidos(antes, k, N, Q) EXCEPT ![g] = @ \ {k}] = Repartidos(antes, k, N, Q \cup {g})
          BY <2>4, <4>1, RepartidosMenos
        <5> QED
          BY <2>6, <4>2, <5>1
      <4> QED
        BY <2>4, <4>3, Quedaran
    <3>5. Ahora'.meta = MasUsuarios(antes.meta, k, N)
      <4>1. meta[k] \in Metadato /\ meta \in [Clave -> Metadato \cup {NADA}]
        BY <1>0, <1>t, <1>e, <2>9, UsuariosMas
      <4>2. r.nuevo = meta[k]
        BY <2>9, <2>11, <4>1 DEF Metadato
      <4>3. meta' = meta
        BY <1>0, <2>1, <4>1, <4>2
      <4> QED
        BY <2>9, <4>3, Quedaran
    <3>6. Hecho(q, antes, Ahora')
      <4>1. /\ Quitados(r, antes, Faltan(q), Q \cup {g}) /\ Q \cup {g} \in SUBSET Usuario
            /\ N = Nuevos(r, antes) \ Faltan(q)
        BY <2>4, <2>5, <3>3, <3>4, <3>5
      <4>2. q.paso \notin PorPermiso /\ q.paso \notin {"perm_lote", "perm_escribe"}
        BY <2>7 DEF PorPermiso
      <4> HIDE DEF r, k, c, u
      <4> QED
        BY <1>e, <2>2, <2>7, <2>8, <3>3, <3>4, <3>5, <4>1, <4>2, SigueCambio DEF r, k, c, u
    <3> QED
      BY <2>2, <2>3, <3>6 DEF Sale
  <2> QED
    BY <2>10, <2>11
<1>7. CASE actualizaModify(h)
  <2> DEFINE q == En("act_put", r)
  <2>1. r.paso = "permiso" /\ r.pend = {} /\ c = k /\ Lee(h, q)
    BY <1>7 DEF actualizaModify, PorModificar, Get
  <2>2. /\ q.paso = "act_put" /\ q.clave = k /\ q.lista = r.lista /\ q.user = u
        /\ q.destino = c /\ q.leido = r.leido /\ q.pend = r.pend /\ q # OCIOSO
    BY <1>0 DEF Pedido, En, OCIOSO
  <2> HIDE DEF q
  <2>3. Faltan(q) = E /\ q.paso \notin PorPermiso
    BY <2>1, <2>2 DEF E, Faltan, PorPermiso
  <2> QED
    BY <1>l, <2>1, <2>2, <2>3 DEF PorPermiso
<1>8. CASE actualizaPut(h)
  <2>1. /\ r.paso = "act_put" /\ Sigue(h, OCIOSO) /\ UNCHANGED <<carpetas, disco, permisos>>
        /\ meta' = [meta EXCEPT ![k] = Enviado(r)]
    BY <1>8 DEF actualizaPut, EscribeDB
  <2>2. antes' = Ahora' /\ hilo'[h] = OCIOSO
    BY <2>1, Continua
  <2>3. E = {}
    <3>1. r.pend = {}
      BY <1>d, <2>1 DEF HechoRepartir
    <3> QED
      BY <2>1, <3>1 DEF E, Faltan, PorPermiso
  <2>4. PICK Q \in SUBSET Usuario : Quitados(r, antes, {}, Q) /\ permisos = Repartidos(antes, k, N, Q)
    BY <1>r, <2>1, <2>3
  <2>5. N = Nuevos(r, antes)
    BY <2>3 DEF N
  <2>6. meta' = [antes.meta EXCEPT ![k] = Enviado(r)]
    <3>1. meta = MasUsuarios(antes.meta, k, N)
      BY <1>r, <2>1
    <3>2. [MasUsuarios(antes.meta, k, N) EXCEPT ![k] = Enviado(r)]
            = [antes.meta EXCEPT ![k] = Enviado(r)]
      BY <1>0, <1>t DEF MasUsuarios
    <3> QED
      BY <2>1, <3>1, <3>2
  <2>7. /\ antes'.meta = [antes.meta EXCEPT ![k] =
                            [propietario |-> k.dueno, ultimaVersion |-> Ultima(antes, k),
                             usuarios |-> r.lista]]
        /\ antes'.permisos = Repartidos(antes, k, Nuevos(r, antes), Q)
        /\ antes'.carpetas = antes.carpetas
        /\ \A x \in Clave : Presentes(antes', x) = Presentes(antes, x)
        /\ r.lista = antes.meta[k].usuarios \/ k.dueno \in r.lista
    <3>1. r.leido = antes.meta[k]
      BY <1>d, <2>1
    <3> QED
      BY <1>d, <1>e, <1>r, <2>1, <2>2, <2>4, <2>5, <2>6, <3>1, MismoDisco, Quedaran DEF Enviado, Ultima
  <2> HIDE DEF r
  <2>8. A!Next
    BY <1>0, <1>e, <2>4, <2>7, HaceActualizar
  <2> QED
    BY <2>2, <2>8 DEF Sale, r
<1> QED
  BY <1>1, <1>2, <1>3, <1>4, <1>5, <1>6, <1>7, <1>8 DEF Actualiza

-----------------------------------------------------------------------------
(* Renamings and searches *)

\* The renaming of r goes on as q.
LEMMA SigueRenombrado ==
  ASSUME NEW r, NEW q, NEW a, NEW e,
         q.clave = r.clave, q.lista = r.lista, q.user = r.user, q.destino = r.destino,
         q.leido = a.meta[r.clave], q.paso \in {"ren_mueve", "ren_indice", "ren_modify", "ren_escribe"},
         Puede(a, r.user, r.clave), Con(a, r.clave), e.carpetas = a.carpetas,
         r.lista = a.meta[r.clave].usuarios \/ r.clave.dueno \in r.lista,
         e.meta = MasUsuarios(a.meta, r.clave, Nuevos(r, a)), ~Con(a, r.destino),
         NEW H, H = (r.lista \ {r.clave.dueno}) \ PorRenombrar(q),
         NEW Q \in SUBSET Usuario, Quitados(r, a, {}, Q),
         e.permisos = Renombrados(Repartidos(a, r.clave, Nuevos(r, a), Q), H, r.clave, r.destino),
         q.paso # "ren_mueve" =>
           q.n = Ultima(a, r.clave) + 1 /\ q.pend \subseteq r.lista \ {r.clave.dueno},
         q.paso = "ren_modify" =>
           /\ q.quien \in r.lista \ {r.clave.dueno} /\ q.quien \notin q.pend
           /\ q.indices[q.quien] = (e.permisos[q.quien] \ {r.clave}) \cup {r.destino},
         q.paso = "ren_escribe" => q.pend = {},
         Movido(a, e, r.clave, r.destino, q.n)
  PROVE  Hecho(q, a, e)
<1>1. /\ Nuevos(q, a) = Nuevos(r, a) /\ Quitados(q, a, {}, Q)
  BY MismoCambio
<1>2. HechoRenombrar(q, a, e)
  BY <1>1 DEF HechoRenombrar
<1>3. q.paso \in (Moviendo \cup TrasMover) /\ q.paso \in Cambiando /\ q.paso # "act_get"
  BY DEF Moviendo, TrasMover, Cambiando
<1>4. HechoActualizar(q, a, e)
  BY <1>2, <1>3 DEF HechoActualizar
<1> QED
  BY <1>3, <1>4, EsHecho

LEMMA RenombraSolo ==
  ASSUME NEW h, Sola(h), RenombraArchivo(h)
  PROVE  Sale(hilo'[h])
<1> DEFINE r == hilo[h]
           k == r.clave
           c == r.destino
           u == r.user
           L == Ultima(antes, k)
           pasos == {"ren_mueve", "ren_indice", "ren_modify", "ren_escribe"}
<1>0. /\ r \in Pedido /\ k \in Clave /\ c \in Clave /\ u \in Usuario /\ r # OCIOSO
      /\ r.paso \in pasos \cup {"permiso"} /\ r.paso \in Cambiando /\ Forma(r) /\ Viva(k)
      /\ antes \in Almacenes /\ Tipado(antes)
      /\ k # c /\ MismaCarpeta(k, c)
  <2>1. r.paso \in pasos \cup {"permiso"} /\ (r.paso = "permiso" => c # k)
    BY DEF RenombraArchivo, renombraHay, renombraMueve, renombraGet, renombraIndice,
           renombraModify, renombraLote, renombraEscribe
  <2>2. r.paso \in Cambiando /\ (r.paso \in pasos => r.paso \in Moviendo \cup TrasMover)
    BY <2>1 DEF Cambiando, Moviendo, TrasMover
  <2> QED
    BY <2>1, <2>2, Sabe DEF Sola, Forma
<1>t. /\ antes.meta \in [Clave -> Metadato \cup {NADA}] /\ disco \in Disco
      /\ Con(antes, k) => antes.meta[k] \in Metadato /\ L \in Version
  BY <1>0, Sabe
<1>h. HechoActualizar(r, antes, Ahora)
  BY <1>0, EsHecho DEF Sola
<1>e. /\ Puede(antes, u, k) /\ Con(antes, k) /\ carpetas = antes.carpetas
      /\ antes.meta[k] \in Metadato /\ L \in Version
      /\ r.lista = antes.meta[k].usuarios \/ k.dueno \in r.lista
      /\ r.leido = antes.meta[k]
  BY <1>0, <1>h, <1>t, Leidas DEF HechoActualizar
<1> DEFINE H == (r.lista \ {k.dueno}) \ PorRenombrar(r)
<1>r. ASSUME r.paso \in pasos
      PROVE  /\ meta = MasUsuarios(antes.meta, k, Nuevos(r, antes)) /\ ~Con(antes, c)
             /\ \E Q \in SUBSET Usuario :
                  /\ Quitados(r, antes, {}, Q)
                  /\ permisos = Renombrados(Repartidos(antes, k, Nuevos(r, antes), Q), H, k, c)
             /\ r.paso # "ren_mueve" => r.n = L + 1 /\ r.pend \subseteq r.lista \ {k.dueno}
             /\ r.paso = "ren_modify" =>
                  /\ r.quien \in r.lista \ {k.dueno} /\ r.quien \notin r.pend
                  /\ r.indices[r.quien] = (permisos[r.quien] \ {k}) \cup {c}
             /\ r.paso = "ren_escribe" => r.pend = {}
             /\ Movido(antes, Ahora, k, c, r.n)
  <2>1. HechoRenombrar(r, antes, Ahora)
    BY <1>h, <1>r DEF HechoActualizar, Moviendo, TrasMover
  <2> QED
    BY <2>1, Leidas DEF HechoRenombrar
<1>m. meta = MasUsuarios(antes.meta, k, Nuevos(r, antes)) => existeMetadato(k) /\ meta[c] = antes.meta[c]
  <2>1. Nuevos(r, antes) \in SUBSET Usuario
    BY <1>0 DEF Nuevos, Pedido
  <2>2. /\ MasUsuarios(antes.meta, k, Nuevos(r, antes))[k] \in Metadato
        /\ MasUsuarios(antes.meta, k, Nuevos(r, antes))[c] = antes.meta[c]
    <3> DEFINE N == Nuevos(r, antes)
    <3> HIDE DEF N, k, c, r
    <3>1. MasUsuarios(antes.meta, k, N)[k] \in Metadato
      BY <1>0, <1>t, <1>e, <2>1, UsuariosMas DEF N
    <3>2. MasUsuarios(antes.meta, k, N)[c] = antes.meta[c]
      BY <1>0, <1>t DEF MasUsuarios
    <3> QED
      BY <3>1, <3>2 DEF N
  <2> QED
    BY <2>2, NadaHilosAssumption DEF existeMetadato
<1> HIDE DEF H
\* A step that only reads, to q, with the same to do.
<1>l. ASSUME r.paso \in pasos, NEW q, Lee(h, q), q # OCIOSO,
             q.clave = k, q.lista = r.lista, q.user = u, q.destino = c,
             q.leido = r.leido, q.n = r.n, q.paso \in pasos \ {"ren_mueve"},
             H = (r.lista \ {k.dueno}) \ PorRenombrar(q),
             q.n = L + 1, q.pend \subseteq r.lista \ {k.dueno},
             q.paso = "ren_modify" =>
               /\ q.quien \in r.lista \ {k.dueno} /\ q.quien \notin q.pend
               /\ q.indices[q.quien] = (permisos[q.quien] \ {k}) \cup {c},
             q.paso = "ren_escribe" => q.pend = {}
      PROVE  Sale(hilo'[h])
  <2>1. PICK Q \in SUBSET Usuario :
          /\ Quitados(r, antes, {}, Q)
          /\ permisos = Renombrados(Repartidos(antes, k, Nuevos(r, antes), Q), H, k, c)
    BY <1>l, <1>r
  <2>2. /\ Ahora.carpetas = antes.carpetas /\ Ahora.permisos = permisos
        /\ Ahora.meta = MasUsuarios(antes.meta, k, Nuevos(r, antes)) /\ ~Con(antes, c)
        /\ Ahora.permisos = Renombrados(Repartidos(antes, k, Nuevos(r, antes), Q), H, k, c)
        /\ q.leido = antes.meta[k] /\ Movido(antes, Ahora, k, c, q.n)
    BY <1>e, <1>l, <1>r, <2>1, Leidas
  <2>3. q.paso = "ren_modify" =>
          /\ q.quien \in r.lista \ {k.dueno} /\ q.quien \notin q.pend
          /\ q.indices[q.quien] = (Ahora.permisos[q.quien] \ {k}) \cup {c}
    BY <1>l, <2>2
  <2> HIDE DEF r
  <2>4. Hecho(q, antes, Ahora)
    BY <1>e, <1>l, <2>1, <2>2, <2>3, SigueRenombrado
  <2> QED
    BY <1>l, <2>4, LeeSale DEF r
\* A renaming that ends without the metadata.
<1>s. ASSUME Sigue(h, OCIOSO), UNCHANGED <<carpetas, disco, meta, permisos>>,
             NEW Q \in SUBSET Usuario, Quitados(r, antes, {}, Q),
             meta = MasUsuarios(antes.meta, k, Nuevos(r, antes)),
             permisos = Repartidos(antes, k, Nuevos(r, antes), Q), ~A!Completo(k, c),
             NEW vs, vs = A!Renombrables(k, c),
             \A x \in Clave : Presentes(Ahora, x) =
               IF x = k THEN Presentes(antes, x) \ vs
               ELSE IF x = c THEN Presentes(antes, x) \cup vs ELSE Presentes(antes, x)
      PROVE  Sale(hilo'[h])
  <2>1. antes' = Ahora' /\ hilo'[h] = OCIOSO /\ Ahora' = Ahora
    BY <1>s, Continua DEF Ahora
  <2>2. /\ antes'.meta = MasUsuarios(antes.meta, k, Nuevos(r, antes))
        /\ antes'.permisos = Repartidos(antes, k, Nuevos(r, antes), Q)
        /\ antes'.carpetas = antes.carpetas
        /\ \A x \in Clave : Presentes(antes', x) =
             IF x = k THEN Presentes(antes, x) \ vs
             ELSE IF x = c THEN Presentes(antes, x) \cup vs ELSE Presentes(antes, x)
    BY <1>e, <1>s, <2>1, Leidas
  <2> HIDE DEF r
  <2>3. A!Next
    BY <1>0, <1>e, <1>s, <2>2, HaceRenombrarFallido
  <2> QED
    BY <2>1, <2>3 DEF Sale, r
<1>1. CASE renombraHay(h)
  <2> DEFINE q == En("ren_mueve", r)
  <2>1. r.paso = "permiso" /\ r.pend = {} /\ Lee(h, IF existeMetadato(c) THEN OCIOSO ELSE q)
    BY <1>1 DEF renombraHay
  <2>2. HechoRepartir(r, antes, Ahora) /\ Faltan(r) = {}
    BY <1>h, <2>1 DEF HechoActualizar, Moviendo, TrasMover, Faltan, PorPermiso
  <2>3. PICK Q \in SUBSET Usuario :
          Quitados(r, antes, {}, Q) /\ permisos = Repartidos(antes, k, Nuevos(r, antes), Q)
    BY <2>2, Leidas DEF HechoRepartir
  <2>4. /\ meta = MasUsuarios(antes.meta, k, Nuevos(r, antes))
        /\ \A x \in Clave : Presentes(Ahora, x) = Presentes(antes, x)
    BY <2>2, Leidas DEF HechoRepartir
  <2>5. existeMetadato(c) <=> Con(antes, c)
    BY <1>m, <2>4 DEF existeMetadato, Con
  <2>6. CASE existeMetadato(c)
    <3>1. A!Renombrables(k, c) = {} /\ ~A!Completo(k, c)
      <4>1. A!existeMetadato(c)
        BY <1>0, <2>5, <2>6, Lecturas
      <4>2. A!Renombrables(k, c) = {}
        BY <4>1 DEF A!Renombrables
      <4>3. 1 \in 1..L
        BY <1>e DEF Version
      <4> QED
        BY <4>2, <4>3 DEF A!Completo, Ultima
    <3>2. Sigue(h, OCIOSO) /\ UNCHANGED <<carpetas, disco, meta, permisos>>
      BY <2>1, <2>6 DEF Lee
    <3>3. \A x \in Clave : Presentes(Ahora, x) =
            IF x = k THEN Presentes(antes, x) \ {}
            ELSE IF x = c THEN Presentes(antes, x) \cup {} ELSE Presentes(antes, x)
      BY <2>4
    <3> HIDE DEF r, k, c
    <3> QED
      BY <1>s, <2>3, <2>4, <3>1, <3>2, <3>3
  <2>7. CASE ~existeMetadato(c)
    <3>1. /\ q.paso = "ren_mueve" /\ q.clave = k /\ q.lista = r.lista /\ q.user = u
          /\ q.destino = c /\ q.leido = r.leido /\ q.n = 1 /\ q # OCIOSO
      BY <1>0, <2>1 DEF Pedido, En, OCIOSO, Forma
    <3>2. (r.lista \ {k.dueno}) \ PorRenombrar(q) = {}
      BY <3>1 DEF PorRenombrar
    <3>3. permisos = Renombrados(Repartidos(antes, k, Nuevos(r, antes), Q), {}, k, c)
      BY <2>3 DEF Renombrados, Repartidos
    <3>4. /\ 1 \in 1..(L + 1) /\ 1..(1 - 1) = {}
      BY <1>e DEF Version
    <3>5. Movido(antes, Ahora, k, c, 1)
      BY <2>4, <3>4 DEF Movido
    <3>6. /\ Ahora.carpetas = antes.carpetas
          /\ Ahora.meta = MasUsuarios(antes.meta, k, Nuevos(r, antes)) /\ ~Con(antes, c)
          /\ Ahora.permisos = Renombrados(Repartidos(antes, k, Nuevos(r, antes), Q), {}, k, c)
          /\ q.leido = antes.meta[k]
      BY <1>e, <2>4, <2>5, <2>7, <3>1, <3>3, Leidas
    <3> HIDE DEF r, q
    <3>7. Hecho(q, antes, Ahora)
      BY <1>e, <2>3, <3>1, <3>2, <3>5, <3>6, SigueRenombrado
    <3> QED
      BY <2>1, <2>7, <3>1, <3>7, LeeSale DEF r
  <2> QED
    BY <2>6, <2>7
<1>2. CASE renombraMueve(h)
  <2> DEFINE falla == disco[k][r.n] = NADA \/ ~HayCarpeta(c)
             q == [r EXCEPT !.n = @ + 1]
  <2>1. /\ r.paso = "ren_mueve" /\ ~Movidas(r)
        /\ disco' = IF falla THEN disco ELSE Renombra(k, c, r.n)
        /\ UNCHANGED <<carpetas, meta, permisos>>
        /\ Sigue(h, IF falla THEN OCIOSO ELSE q)
    BY <1>2 DEF renombraMueve, EscribeDisco
  <2>2. /\ Movido(antes, Ahora, k, c, r.n) /\ ~(r.n > L) /\ ~Con(antes, c)
        /\ meta = MasUsuarios(antes.meta, k, Nuevos(r, antes))
    BY <1>r, <1>e, <2>1 DEF Movidas, Ultima
  <2>3. /\ r.n \in 1..(L + 1) /\ 1..(r.n - 1) \subseteq Presentes(antes, k)
        /\ Presentes(Ahora, k) = Presentes(antes, k) \ (1..(r.n - 1))
        /\ Presentes(Ahora, c) = Presentes(antes, c) \cup 1..(r.n - 1)
    BY <1>0, <2>2 DEF Movido
  <2>4. /\ r.n <= L /\ r.n \in Version /\ r.n \notin 1..(r.n - 1) /\ r.n # L + 1
        /\ (r.n + 1) - 1 = r.n /\ 1..r.n = (1..(r.n - 1)) \cup {r.n}
    BY <1>e, <2>2, <2>3, MaxVersionAssumption DEF Version
  <2>5. PICK Q \in SUBSET Usuario :
          /\ Quitados(r, antes, {}, Q)
          /\ permisos = Renombrados(Repartidos(antes, k, Nuevos(r, antes), Q), H, k, c)
    BY <1>r, <2>1
  <2>6. H = {}
    BY <2>1 DEF H, PorRenombrar
  <2>7. CASE ~falla
    <3>1. Movido(antes, Ahora', k, c, r.n + 1)
      BY <1>0, <1>t, <1>e, <2>1, <2>2, <2>4, <2>7, MueveUna
    <3>2. /\ q.paso = "ren_mueve" /\ q.clave = k /\ q.lista = r.lista /\ q.user = u
          /\ q.destino = c /\ q.leido = r.leido /\ q.n = r.n + 1 /\ q # OCIOSO
      BY <1>0, <2>1 DEF Pedido, OCIOSO
    <3>3. hilo'[h] = q
      BY <2>1, <2>7, Continua
    <3>4. (r.lista \ {k.dueno}) \ PorRenombrar(q) = {}
      BY <3>2 DEF PorRenombrar
    <3>6. /\ Ahora'.carpetas = antes.carpetas
          /\ Ahora'.meta = MasUsuarios(antes.meta, k, Nuevos(r, antes)) /\ ~Con(antes, c)
          /\ Ahora'.permisos = Renombrados(Repartidos(antes, k, Nuevos(r, antes), Q), {}, k, c)
          /\ q.leido = antes.meta[k]
          /\ Movido(antes, Ahora', k, c, q.n)
      BY <1>e, <2>1, <2>2, <2>5, <2>6, <3>1, <3>2, Quedaran
    <3> HIDE DEF r, q
    <3>7. Hecho(q, antes, Ahora')
      BY <1>e, <2>5, <3>2, <3>4, <3>6, SigueRenombrado
    <3> QED
      BY <3>2, <3>3, <3>7 DEF Sale, r
  <2>8. CASE falla
    <3>1. r.n \notin Presentes(antes, k)
      <4>1. ASSUME disco[k][r.n] # NADA PROVE HayCarpeta(c)
        <5>1. EnSuCarpeta(carpetas, k)
          BY <1>0, <2>4, <4>1 DEF Sola, EnSuSitio, HayEnDisco
        <5> QED
          BY <1>0, <5>1 DEF EnSuCarpeta, HayCarpeta, MismaCarpeta
      <4>2. r.n \notin Presentes(Ahora, k)
        BY <2>4, <2>8, <4>1, Leidas
      <4> QED
        BY <2>3, <2>4, <4>2
    <3>2. A!Renombrables(k, c) = 1..(r.n - 1) /\ ~A!Completo(k, c)
      BY <1>0, <1>e, <2>2, <2>3, <2>4, <3>1, RenombrablesEs
    <3>3. permisos = Repartidos(antes, k, Nuevos(r, antes), Q)
      BY <2>5, <2>6 DEF Renombrados, Repartidos
    <3>4. Sigue(h, OCIOSO) /\ UNCHANGED <<carpetas, disco, meta, permisos>>
      BY <2>1, <2>8
    <3>5. \A x \in Clave : Presentes(Ahora, x) =
            IF x = k THEN Presentes(antes, x) \ (1..(r.n - 1))
            ELSE IF x = c THEN Presentes(antes, x) \cup 1..(r.n - 1) ELSE Presentes(antes, x)
      BY <2>2 DEF Movido
    <3> HIDE DEF r, k, c
    <3> QED
      BY <1>s, <2>2, <2>5, <3>2, <3>3, <3>4, <3>5
  <2> QED
    BY <2>7, <2>8
<1>3. CASE renombraGet(h)
  <2> DEFINE q == [En("ren_indice", r) EXCEPT !.pend = r.lista \ {k.dueno}]
  <2>1. r.paso = "ren_mueve" /\ Movidas(r) /\ Lee(h, q)
    BY <1>3 DEF renombraGet, Get
  <2>2. /\ q.paso = "ren_indice" /\ q.clave = k /\ q.lista = r.lista /\ q.user = u
        /\ q.destino = c /\ q.leido = r.leido /\ q.n = r.n /\ q.pend = r.lista \ {k.dueno}
        /\ q # OCIOSO
    BY <1>0 DEF Pedido, En, OCIOSO
  <2>3. r.n = L + 1
    <3>1. r.n > L /\ r.n \in 1..(L + 1) /\ L \in Nat
      BY <1>r, <1>e, <2>1 DEF Movidas, Movido, Version, Ultima
    <3> QED
      BY <3>1
  <2>4. H = (r.lista \ {k.dueno}) \ PorRenombrar(q)
    BY <2>1, <2>2 DEF H, PorRenombrar
  <2> HIDE DEF q
  <2> QED
    BY <1>l, <2>1, <2>2, <2>3, <2>4
<1>4. CASE renombraIndice(h)
  <2>1. PICK g \in r.pend :
          Lee(h, [En("ren_modify", r) EXCEPT
                    !.pend = @ \ {g}, !.quien = g,
                    !.indices[g] = (permisos[g] \ {k}) \cup {c}])
    BY <1>4 DEF renombraIndice
  <2> DEFINE q == [En("ren_modify", r) EXCEPT
                    !.pend = @ \ {g}, !.quien = g,
                    !.indices[g] = (permisos[g] \ {k}) \cup {c}]
  <2>2. r.paso = "ren_indice" /\ Lee(h, q)
    BY <1>4, <2>1 DEF renombraIndice
  <2>3. /\ q.paso = "ren_modify" /\ q.clave = k /\ q.lista = r.lista /\ q.user = u
        /\ q.destino = c /\ q.leido = r.leido /\ q.n = r.n /\ q.pend = r.pend \ {g}
        /\ q.quien = g /\ q.indices[g] = (permisos[g] \ {k}) \cup {c} /\ q # OCIOSO
    BY <1>0, <2>1 DEF Pedido, En, OCIOSO
  <2>4. r.n = L + 1 /\ r.pend \subseteq r.lista \ {k.dueno}
    BY <1>r, <2>2
  <2>5. H = (r.lista \ {k.dueno}) \ PorRenombrar(q)
    BY <2>1, <2>2, <2>3 DEF H, PorRenombrar
  <2> HIDE DEF q
  <2> QED
    BY <1>l, <2>1, <2>2, <2>3, <2>4, <2>5
<1>5. CASE renombraModify(h)
  <2> DEFINE g == r.quien
             q == En("ren_indice", r)
  <2>1. /\ r.paso = "ren_modify" /\ Sigue(h, q) /\ UNCHANGED <<carpetas, disco, meta>>
        /\ permisos' = [permisos EXCEPT ![g] = r.indices[g]]
    BY <1>5 DEF renombraModify, EscribeDB
  <2>2. /\ q.paso = "ren_indice" /\ q.clave = k /\ q.lista = r.lista /\ q.user = u
        /\ q.destino = c /\ q.leido = r.leido /\ q.n = r.n /\ q.pend = r.pend /\ q # OCIOSO
    BY <1>0 DEF Pedido, En, OCIOSO
  <2>3. hilo'[h] = q
    BY <2>1, <2>2, Continua
  <2>4. PICK Q \in SUBSET Usuario :
          /\ Quitados(r, antes, {}, Q)
          /\ permisos = Renombrados(Repartidos(antes, k, Nuevos(r, antes), Q), H, k, c)
    BY <1>r, <2>1
  <2>5. /\ g \in r.lista \ {k.dueno} /\ g \notin r.pend /\ g \in Usuario
        /\ r.indices[g] = (permisos[g] \ {k}) \cup {c}
        /\ r.n = L + 1 /\ r.pend \subseteq r.lista \ {k.dueno}
    BY <1>0, <1>r, <2>1 DEF Pedido
  <2>6. g \notin H /\ H \cup {g} = (r.lista \ {k.dueno}) \ PorRenombrar(q)
    BY <2>1, <2>2, <2>5 DEF H, PorRenombrar
  <2> HIDE DEF g, q
  <2>7. permisos' = Renombrados(Repartidos(antes, k, Nuevos(r, antes), Q), H \cup {g}, k, c)
    <3> DEFINE P == Repartidos(antes, k, Nuevos(r, antes), Q)
               I == r.indices[g]
    <3>0. permisos = Renombrados(P, H, k, c)
      BY <2>4
    <3>1. I = (permisos[g] \ {k}) \cup {c} /\ permisos' = [permisos EXCEPT ![g] = I]
      BY <2>1, <2>5 DEF g
    <3> HIDE DEF P, I, r, k, c
    <3>2. [Renombrados(P, H, k, c) EXCEPT ![g] = I] = Renombrados(P, H \cup {g}, k, c)
      <4>1. g \in Usuario \ H /\ I = (Renombrados(P, H, k, c)[g] \ {k}) \cup {c}
        BY <2>5, <2>6, <3>0, <3>1
      <4> QED
        BY <4>1 DEF Renombrados
    <3> QED
      BY <3>0, <3>1, <3>2 DEF P, r, k, c
  <2>8. Movido(antes, Ahora', k, c, q.n)
    BY <1>r, <2>1, <2>2, MismoDisco DEF Movido
  <2>9. /\ Ahora'.carpetas = antes.carpetas
        /\ Ahora'.meta = MasUsuarios(antes.meta, k, Nuevos(r, antes)) /\ ~Con(antes, c)
        /\ Ahora'.permisos = Renombrados(Repartidos(antes, k, Nuevos(r, antes), Q), H \cup {g}, k, c)
        /\ q.leido = antes.meta[k]
        /\ q.n = Ultima(antes, k) + 1 /\ q.pend \subseteq r.lista \ {k.dueno}
    BY <1>e, <1>r, <2>1, <2>2, <2>5, <2>7, Quedaran
  <2> HIDE DEF r, L
  <2>10. Hecho(q, antes, Ahora')
    BY <1>e, <2>2, <2>4, <2>6, <2>8, <2>9, SigueRenombrado
  <2> QED
    BY <2>2, <2>3, <2>10 DEF Sale, r
<1>6. CASE renombraLote(h)
  <2> DEFINE q == En("ren_escribe", r)
  <2>1. /\ r.paso = "ren_indice" /\ r.pend = {}
        /\ Lee(h, IF existeMetadato(k) /\ ~existeMetadato(c) THEN q ELSE OCIOSO)
    BY <1>6 DEF renombraLote
  <2>2. existeMetadato(k) /\ ~existeMetadato(c)
    BY <1>r, <1>m, <2>1 DEF existeMetadato, Con
  <2>3. /\ q.paso = "ren_escribe" /\ q.clave = k /\ q.lista = r.lista /\ q.user = u
        /\ q.destino = c /\ q.leido = r.leido /\ q.n = r.n /\ q.pend = {}
        /\ q # OCIOSO
    BY <1>0, <2>1 DEF Pedido, En, OCIOSO
  <2>4. r.n = L + 1
    BY <1>r, <2>1
  <2>5. H = (r.lista \ {k.dueno}) \ PorRenombrar(q)
    BY <2>1, <2>3 DEF H, PorRenombrar
  <2>6. Lee(h, q)
    BY <2>1, <2>2
  <2> HIDE DEF q
  <2> QED
    BY <1>l, <2>1, <2>3, <2>4, <2>5, <2>6
<1>7. CASE renombraEscribe(h)
  <2>1. /\ r.paso = "ren_escribe" /\ Sigue(h, OCIOSO) /\ UNCHANGED <<carpetas, disco, permisos>>
        /\ meta' = [meta EXCEPT ![k] = NADA, ![c] = Enviado(r)]
    BY <1>7 DEF renombraEscribe, EscribeDB
  <2>2. antes' = Ahora' /\ hilo'[h] = OCIOSO
    BY <2>1, Continua
  <2>3. PICK Q \in SUBSET Usuario :
          /\ Quitados(r, antes, {}, Q)
          /\ permisos = Renombrados(Repartidos(antes, k, Nuevos(r, antes), Q), H, k, c)
    BY <1>r, <2>1
  <2>4. /\ r.n = L + 1 /\ r.pend = {} /\ Movido(antes, Ahora, k, c, r.n) /\ ~Con(antes, c)
        /\ meta = MasUsuarios(antes.meta, k, Nuevos(r, antes))
    BY <1>r, <2>1
  <2>5. /\ r.n \in 1..(L + 1) /\ 1..(r.n - 1) \subseteq Presentes(antes, k) /\ r.n - 1 = L
    BY <1>e, <2>4 DEF Movido, Version
  <2>6. A!Completo(k, c)
    BY <1>0, <1>e, <2>4, <2>5, RenombrablesEs
  <2>7. H = r.lista \ {k.dueno}
    BY <2>1, <2>4 DEF H, PorRenombrar
  <2>8. antes'.meta = [antes.meta EXCEPT ![k] = NADA, ![c] =
                         [propietario |-> k.dueno, ultimaVersion |-> L, usuarios |-> r.lista]]
    <3>1. [MasUsuarios(antes.meta, k, Nuevos(r, antes)) EXCEPT ![k] = NADA]
            = [antes.meta EXCEPT ![k] = NADA]
      BY <1>0, <1>t DEF MasUsuarios
    <3>2. Enviado(r) = [propietario |-> k.dueno, ultimaVersion |-> L, usuarios |-> r.lista]
      BY <1>e DEF Enviado, Ultima
    <3> QED
      BY <2>1, <2>2, <2>4, <3>1, <3>2, Quedaran
  <2>9. /\ antes'.permisos = Renombrados(Repartidos(antes, k, Nuevos(r, antes), Q),
                                         r.lista \ {k.dueno}, k, c)
        /\ antes'.carpetas = antes.carpetas
        /\ \A x \in Clave : Presentes(antes', x) =
             IF x = k THEN Presentes(antes, x) \ (1..L)
             ELSE IF x = c THEN Presentes(antes, x) \cup 1..L ELSE Presentes(antes, x)
    <3>1. \A x \in Clave : Presentes(Ahora, x) =
            IF x = k THEN Presentes(antes, x) \ (1..L)
            ELSE IF x = c THEN Presentes(antes, x) \cup 1..L ELSE Presentes(antes, x)
      BY <2>4, <2>5 DEF Movido
    <3> QED
      BY <1>e, <2>1, <2>2, <2>3, <2>7, <3>1, MismoDisco, Quedaran
  <2> HIDE DEF r
  <2>10. A!Next
    BY <1>0, <1>e, <2>3, <2>6, <2>8, <2>9, HaceRenombrar
  <2> QED
    BY <2>2, <2>10 DEF Sale, r
<1> QED
  BY <1>1, <1>2, <1>3, <1>4, <1>5, <1>6, <1>7 DEF RenombraArchivo

LEMMA BuscaSolo ==
  ASSUME NEW h, Sola(h), busca(h)
  PROVE  Sale(hilo'[h])
<1> DEFINE r == hilo[h]
<1>1. PICK c \in r.claves : Lee(h, IF r.claves = {c} THEN OCIOSO ELSE [r EXCEPT !.claves = @ \ {c}])
  BY DEF busca, Get
<1>2. r.paso = "busca" /\ r \in Pedido /\ Ahora = antes
  BY Sabe, EsHecho DEF busca, Sola
<1>3. [r EXCEPT !.claves = @ \ {c}].paso = "busca" /\ [r EXCEPT !.claves = @ \ {c}] # OCIOSO
  BY <1>2 DEF Pedido, OCIOSO
<1>4. Hecho([r EXCEPT !.claves = @ \ {c}], antes, Ahora)
  BY <1>2, <1>3, EsHecho
<1>5. /\ carpetas = antes.carpetas /\ meta = antes.meta /\ permisos = antes.permisos
      /\ \A x \in Clave : Presentes(Ahora, x) = Presentes(antes, x)
  BY <1>2, Leidas
<1> QED
  BY <1>1, <1>3, <1>4, <1>5, LeeSale

-----------------------------------------------------------------------------
(* Deletions *)

\* From e to f only the file of k changes.
Otros(e, f, k) == \A c \in Clave : Archivo(c) # Archivo(k) => Igual(e, f, c)

LEMMA IgualSigue ==
  ASSUME NEW a, NEW e, NEW f, NEW c, Igual(a, e, c), Igual(e, f, c)
  PROVE  Igual(a, f, c)
BY DEF Igual

LEMMA VivasDistintas ==
  ASSUME NEW k \in Clave, NEW c \in Clave, Viva(k), Viva(c), Archivo(k) = Archivo(c)
  PROVE  k = c
BY DEF Archivo, Viva, Clave

LEMMA EnLaPapelera ==
  ASSUME NEW k \in Clave, NEW n \in Secuencia
  PROVE  /\ EnPapelera(k, n) \in Clave /\ Archivo(EnPapelera(k, n)) = Archivo(k)
         /\ ~Viva(EnPapelera(k, n)) /\ EnPapelera(k, n).sec = n
BY MaxSecAssumption DEF EnPapelera, Clave, Archivo, Viva, VIVA, Secuencia

LEMMA IntactoSigue ==
  ASSUME NEW a, NEW e, NEW f, NEW k, Intacto(a, e, k),
         \A c \in Clave : Archivo(c) = Archivo(k) => Igual(e, f, c)
  PROVE  Intacto(a, f, k)
BY IgualSigue DEF Intacto

LEMMA MandadoSigue ==
  ASSUME NEW a, NEW e, NEW f, NEW k \in Clave, NEW n \in Secuencia, NEW vs,
         Mandado(a, e, k, n, vs), \A c \in Clave : Archivo(c) = Archivo(k) => Igual(e, f, c)
  PROVE  Mandado(a, f, k, n, vs)
<1> DEFINE t == EnPapelera(k, n)
<1>1. Igual(e, f, k) /\ Igual(e, f, t)
  BY EnLaPapelera
<1>2. \A c \in Clave : Archivo(c) = Archivo(k) /\ c \notin {k, t} => Igual(a, f, c)
  BY IgualSigue DEF Mandado
<1> HIDE DEF t
<1> QED
  BY <1>1, <1>2 DEF Mandado, Igual, t

LEMMA BorradoSigue ==
  ASSUME NEW a, NEW e, NEW f, NEW k \in Clave, Borrado(a, e, k),
         \A c \in Clave : Archivo(c) = Archivo(k) => Igual(e, f, c)
  PROVE  Borrado(a, f, k)
<1>1. PICK n \in Secuencia :
        /\ EsSecuencia(a, k, n)
        /\ IF Con(a, EnPapelera(k, n)) THEN Intacto(a, e, k)
           ELSE Mandado(a, e, k, n, Seguidas(a, k))
  BY DEF Borrado
<1>2. Con(a, EnPapelera(k, n)) => Intacto(a, f, k)
  BY <1>1, IntactoSigue
<1>3. ~Con(a, EnPapelera(k, n)) => Mandado(a, f, k, n, Seguidas(a, k))
  BY <1>1, MandadoSigue
<1> QED
  BY <1>1, <1>2, <1>3 DEF Borrado

\* What the deletion at work on k leaves of the other files.
LEMMA LosDemas ==
  ASSUME NEW r, NEW a, NEW e, NEW f, HechoBorrar(r, a, e), r.paso \notin {"recorre", "rm"},
         r.clave \in Clave, Viva(r.clave), Otros(e, f, r.clave)
  PROVE  /\ \A c \in PorBorrar(r, a) \ Quedan(r) : Borrado(a, f, c)
         /\ \A c \in Clave : Viva(c) /\ c \notin PorBorrar(r, a) \ Quedan(r) /\ c # r.clave =>
              Intacto(a, f, c)
<1> DEFINE k == r.clave
           B == PorBorrar(r, a) \ Quedan(r)
<1>1. /\ \A c \in B : Borrado(a, e, c)
      /\ \A c \in Clave : Viva(c) /\ c \notin B /\ c # k => Intacto(a, e, c)
  BY DEF HechoBorrar
<1>2. \A c \in B : c \in Clave /\ Viva(c) /\ c # k
  BY DEF PorBorrar, Contenidos, Quedan, EnCarpeta
<1> HIDE DEF B, k
<1>3. ASSUME NEW c \in Clave, Viva(c), c # k
      PROVE  \A x \in Clave : Archivo(x) = Archivo(c) => Igual(e, f, x)
  <2>1. Archivo(c) # Archivo(k)
    BY <1>3, VivasDistintas DEF k
  <2> QED
    BY <2>1 DEF Otros, k
<1>4. ASSUME NEW c \in B PROVE Borrado(a, f, c)
  <2>1. /\ c \in Clave /\ Borrado(a, e, c)
        /\ \A x \in Clave : Archivo(x) = Archivo(c) => Igual(e, f, x)
    BY <1>1, <1>2, <1>3, <1>4
  <2> QED
    BY <2>1, BorradoSigue
<1>5. ASSUME NEW c \in Clave, Viva(c), c \notin B, c # k PROVE Intacto(a, f, c)
  <2>1. /\ Intacto(a, e, c)
        /\ \A x \in Clave : Archivo(x) = Archivo(c) => Igual(e, f, x)
    BY <1>1, <1>3, <1>5
  <2> QED
    BY <2>1, IntactoSigue
<1> QED
  BY <1>4, <1>5 DEF B, k

\* The deletion of one file goes on as q.
LEMMA SigueBorrando ==
  ASSUME NEW r, NEW q, NEW a, NEW e, NEW f, HechoBorrar(r, a, e),
         r.paso \notin {"recorre", "rm"}, r.clave \in Clave, Viva(r.clave),
         q.clave = r.clave, q.user = r.user, q.borra = r.borra, q.claves = r.claves,
         q.paso \in {"secuencia", "invitado", "lote_escribe", "mueve"},
         f.carpetas = e.carpetas, Otros(e, f, r.clave),
         q.leido = a.meta[r.clave],
         q.paso # "mueve" => Intacto(a, f, r.clave) /\ q.n = 1,
         q.paso # "secuencia" =>
           \E n \in Secuencia : q.destino = EnPapelera(r.clave, n) /\ EsSecuencia(a, r.clave, n),
         NEW g, g = q.leido.usuarios \ {q.leido.propietario},
         q.paso = "secuencia" => q.pend = g,
         q.paso = "invitado" => q.pend \subseteq g,
         q.paso \in {"invitado", "lote_escribe"} =>
           \A u \in g \ (IF q.paso = "invitado" THEN q.pend ELSE {}) :
             q.indices[u] = f.permisos[u] \ {r.clave},
         q.paso = "lote_escribe" => ~Con(a, q.destino),
         q.paso = "mueve" =>
           /\ q.n \in 1..Ultima(a, r.clave) /\ 1..(q.n - 1) \subseteq Presentes(a, r.clave)
           /\ Mandado(a, f, r.clave, q.destino.sec, 1..(q.n - 1))
  PROVE  Hecho(q, a, f)
<1>1. PorBorrar(q, a) = PorBorrar(r, a) /\ Quedan(q) = Quedan(r)
  BY DEF PorBorrar, Contenidos, Quedan
<1>2. /\ \A c \in PorBorrar(q, a) \ Quedan(q) : Borrado(a, f, c)
      /\ \A c \in Clave : Viva(c) /\ c \notin PorBorrar(q, a) \ Quedan(q) /\ c # r.clave =>
           Intacto(a, f, c)
  BY <1>1, LosDemas
<1>3. \A c \in Clave : Viva(c) /\ c \notin PorBorrar(q, a) \ Quedan(q) =>
           Intacto(a, f, c) \/ (q.paso = "mueve" /\ c = q.clave)
  BY <1>2
<1>4. /\ f.carpetas = a.carpetas
      /\ ~q.borra => Puede(a, q.user, q.clave) /\ q.claves = {}
      /\ q.borra =>
           /\ CarpetaDe(q.clave.ruta) # <<>> /\ CarpetaDe(q.clave.ruta) \in a.carpetas[q.user]
           /\ \A d \in a.carpetas[q.user] : ~IsStrictPrefix(CarpetaDe(q.clave.ruta), d)
           /\ \A c \in Bajo(q.user, CarpetaDe(q.clave.ruta)) :
                Presentes(a, c) # {} => CarpetaDe(c.ruta) = CarpetaDe(q.clave.ruta)
      /\ Esta(a, q.clave) /\ q.clave \notin q.claves
  BY DEF HechoBorrar
<1>5. HechoBorrar(q, a, f)
  BY <1>2, <1>3, <1>4 DEF HechoBorrar, PorMandar
<1> QED
  BY <1>5, EsHecho DEF Borrando

\* The deletion of one file ends, and the walk goes on if there is one.
LEMMA VuelveSale ==
  ASSUME NEW h, Sola(h), hilo[h].paso \in Borrando \ {"recorre", "rm"},
         Sigue(h, Vuelve(hilo[h])), carpetas' = carpetas,
         Otros(Ahora, Ahora', hilo[h].clave), Borrado(antes, Ahora', hilo[h].clave)
  PROVE  Sale(hilo'[h])
<1> DEFINE r == hilo[h]
           k == r.clave
           q == Vuelve(r)
           dir == CarpetaDe(k.ruta)
<1>0. /\ r \in Pedido /\ k \in Clave /\ r.user \in Usuario /\ Forma(r) /\ Viva(k)
      /\ r.paso \notin {"recorre", "rm"} /\ r.paso \in Borrando
  BY Sabe DEF Forma
<1>h. HechoBorrar(r, antes, Ahora)
  BY <1>0, EsHecho DEF Sola
<1>e. /\ carpetas = antes.carpetas /\ Esta(antes, k) /\ k \notin r.claves
      /\ ~r.borra => Puede(antes, r.user, k) /\ r.claves = {}
  BY <1>0, <1>h, Leidas DEF HechoBorrar
<1>d. /\ \A c \in PorBorrar(r, antes) \ Quedan(r) : Borrado(antes, Ahora', c)
      /\ \A c \in Clave : Viva(c) /\ c \notin PorBorrar(r, antes) \ Quedan(r) /\ c # k =>
           Intacto(antes, Ahora', c)
  BY <1>0, <1>h, LosDemas
<1>s. hilo'[h] = q /\ (q = OCIOSO => antes' = Ahora' /\ antes' \in Almacenes)
  BY Continua
<1>1. CASE r.borra
  <2>1. /\ q.paso = "recorre" /\ q.clave = k /\ q.user = r.user /\ q.borra /\ q.claves = r.claves
        /\ q # OCIOSO
    BY <1>0, <1>1 DEF Vuelve, En, Pedido, OCIOSO
  <2>2. k \in PorBorrar(r, antes)
    BY <1>0, <1>1, <1>e DEF PorBorrar, Contenidos, Forma, EnCarpeta
  <2>3. /\ PorBorrar(q, antes) = PorBorrar(r, antes)
        /\ PorBorrar(q, antes) \ Quedan(q) = (PorBorrar(r, antes) \ Quedan(r)) \cup {k}
    <3>1. PorBorrar(q, antes) = PorBorrar(r, antes)
      BY <1>1, <2>1 DEF PorBorrar, Contenidos
    <3>2. Quedan(q) = r.claves /\ Quedan(r) = r.claves \cup {k}
      BY <1>0, <2>1 DEF Quedan
    <3> QED
      BY <1>e, <2>2, <3>1, <3>2
  <2>4. Ahora'.carpetas = antes.carpetas
    BY <1>e, Quedaran
  <2>5. /\ \A c \in PorBorrar(q, antes) \ Quedan(q) : Borrado(antes, Ahora', c)
        /\ \A c \in Clave : Viva(c) /\ c \notin PorBorrar(q, antes) \ Quedan(q) =>
             Intacto(antes, Ahora', c)
    BY <1>d, <2>3
  <2>6. /\ dir # <<>> /\ dir \in antes.carpetas[r.user]
        /\ \A d \in antes.carpetas[r.user] : ~IsStrictPrefix(dir, d)
        /\ \A c \in Bajo(r.user, dir) : Presentes(antes, c) # {} => CarpetaDe(c.ruta) = dir
    BY <1>1, <1>h DEF HechoBorrar
  <2> HIDE DEF q, k, r
  <2>7. HechoBorrar(q, antes, Ahora')
    BY <2>1, <2>4, <2>5, <2>6 DEF HechoBorrar, PorMandar
  <2>8. Hecho(q, antes, Ahora')
    BY <2>1, <2>7, EsHecho DEF Borrando
  <2> QED
    BY <1>s, <2>1, <2>8 DEF Sale, r
<1>2. CASE ~r.borra
  <2>1. q = OCIOSO /\ antes' = Ahora' /\ antes' \in Almacenes
    BY <1>2, <1>s DEF Vuelve
  <2>2. PorBorrar(r, antes) \ Quedan(r) = {}
    BY <1>0, <1>2 DEF PorBorrar, Contenidos, Quedan
  <2>3. \A c \in Clave : Viva(c) /\ c # k => Intacto(antes, antes', c)
    BY <1>d, <2>1, <2>2
  <2>4. antes'.carpetas = antes.carpetas
    BY <1>e, <2>1, Quedaran
  <2>5. antes.meta[k].propietario = k.dueno
    BY <1>0, <1>e DEF Sola, Duenos, DeSuDueno, Esta, Con
  <2>6. /\ antes \in Almacenes /\ Puede(antes, r.user, k) /\ Borrado(antes, antes', k)
    BY <1>2, <1>e, <2>1 DEF Sola
  <2> HIDE DEF q, k, r
  <2>7. A!Next
    BY <1>0, <1>e, <2>1, <2>3, <2>4, <2>5, <2>6, HaceEliminar
  <2> QED
    BY <1>s, <2>1, <2>7 DEF Sale
<1> QED
  BY <1>1, <1>2

\* A version goes to the trash.
LEMMA MandaUna ==
  ASSUME disco \in Disco, NEW k \in Clave, NEW m \in Secuencia, Viva(k), NEW n \in Version,
         Mandado(antes, Ahora, k, m, 1..(n - 1)), disco[k][n] # NADA,
         disco' = Renombra(k, EnPapelera(k, m), n), meta' = meta, permisos' = permisos
  PROVE  Mandado(antes, Ahora', k, m, 1..n) /\ Otros(Ahora, Ahora', k)
<1> DEFINE t == EnPapelera(k, m)
<1>1. t \in Clave /\ Archivo(t) = Archivo(k) /\ t # k
  BY EnLaPapelera
<1>2. 1..n = (1..(n - 1)) \cup {n}
  BY DEF Version
<1> HIDE DEF t
<1>3. disco' = Renombra(k, t, n)
  BY DEF t
<1>4. /\ Presentes(Ahora', k) = Presentes(Ahora, k) \ {n}
      /\ Presentes(Ahora', t) = Presentes(Ahora, t) \cup {n}
      /\ \A x \in Clave : x # k /\ x # t => Presentes(Ahora', x) = Presentes(Ahora, x)
  BY <1>1, <1>3, RenombraUna
<1>5. Ahora'.meta = Ahora.meta /\ Ahora'.permisos = Ahora.permisos
  BY Leidas, Quedaran
<1>6. \A x \in Clave : x # k /\ x # t => Igual(Ahora, Ahora', x)
  BY <1>4, <1>5 DEF Igual
<1>7. Otros(Ahora, Ahora', k)
  BY <1>1, <1>6 DEF Otros
<1>8. \A c \in Clave : Archivo(c) = Archivo(k) /\ c \notin {k, t} => Igual(antes, Ahora', c)
  BY <1>6, IgualSigue DEF Mandado, t
<1>9. Mandado(antes, Ahora', k, m, 1..n)
  <2>1. /\ Presentes(Ahora', k) = Presentes(antes, k) \ (1..n)
        /\ Presentes(Ahora', t) = Presentes(antes, t) \cup 1..n
    BY <1>2, <1>4 DEF Mandado, t
  <2> QED
    BY <1>5, <1>8, <2>1 DEF Mandado, t
<1> QED
  BY <1>7, <1>9

\* The metadata go to the trash.
LEMMA MandaMetadatos ==
  ASSUME NEW k \in Clave, NEW m \in Secuencia, Viva(k),
         Intacto(antes, Ahora, k), NEW t, t = EnPapelera(k, m), ~Con(antes, t),
         NEW d, d = antes.meta[k], NEW g, g = d.usuarios \ {d.propietario},
         meta'[k] = NADA, meta'[t] = [d EXCEPT !.usuarios = {d.propietario}],
         \A x \in Clave : x # k /\ x # t => meta'[x] = meta[x],
         \A u \in Usuario : permisos'[u] = IF u \in g THEN permisos[u] \ {k} ELSE permisos[u],
         disco' = disco
  PROVE  Mandado(antes, Ahora', k, m, {}) /\ Otros(Ahora, Ahora', k)
<1>1. t \in Clave /\ Archivo(t) = Archivo(k) /\ t # k
  BY EnLaPapelera
<1>2. \A x : Presentes(Ahora', x) = Presentes(Ahora, x)
  BY MismoDisco
<1>3. Ahora'.meta = meta' /\ Ahora'.permisos = permisos' /\ Ahora.meta = meta /\ Ahora.permisos = permisos
  BY Leidas, Quedaran
<1>4. Igual(antes, Ahora, k) /\ Igual(antes, Ahora, t)
  BY <1>1 DEF Intacto
<1>7. \A x \in Clave : x # k /\ x # t => Igual(Ahora, Ahora', x)
  BY <1>2, <1>3 DEF Igual
<1>8. Otros(Ahora, Ahora', k)
  BY <1>1, <1>7 DEF Otros
<1>9. \A c \in Clave : Archivo(c) = Archivo(k) /\ c \notin {k, t} => Igual(antes, Ahora', c)
  BY <1>7, IgualSigue DEF Intacto
<1>10. \A u \in Usuario : /\ k \in Ahora'.permisos[u] <=> k \in antes.permisos[u] /\ u \notin g
                          /\ t \in Ahora'.permisos[u] <=> t \in antes.permisos[u]
  BY <1>1, <1>3, <1>4 DEF Igual
<1>11. Presentes(Ahora', k) = Presentes(antes, k) /\ Presentes(Ahora', t) = Presentes(antes, t)
  BY <1>2, <1>4 DEF Igual
<1>12. Mandado(antes, Ahora', k, m, {})
  BY <1>3, <1>9, <1>10, <1>11 DEF Mandado, Con
<1> QED
  BY <1>8, <1>12

LEMMA BorraSolo ==
  ASSUME NEW h, Sola(h), Borra(h)
  PROVE  Sale(hilo'[h])
<1> DEFINE r == hilo[h]
           k == r.clave
           m == antes.meta[k]
           g == m.usuarios \ {m.propietario}
           L == Ultima(antes, k)
<1>0. /\ r \in Pedido /\ k \in Clave /\ r.user \in Usuario /\ Forma(r) /\ Viva(k) /\ r # OCIOSO
      /\ r.paso \notin {"recorre", "rm"} /\ r.paso \in Borrando
  <2>1. r.paso \notin {"recorre", "rm"} /\ r.paso \in Borrando
    BY DEF Borra, borraGet, secuencia, leeInvitado, loteBorra, escribeLoteBorra, mueve, Borrando
  <2> QED
    BY <2>1, Sabe DEF Sola, Forma
<1>h. HechoBorrar(r, antes, Ahora)
  BY <1>0, EsHecho DEF Sola
<1>t. /\ disco \in Disco /\ meta \in [Clave -> Metadato \cup {NADA}]
      /\ permisos \in [Usuario -> SUBSET Clave]
      /\ m \in Metadato /\ L \in Version
  <2>1. Con(antes, k)
    BY <1>0, <1>h DEF HechoBorrar, Esta
  <2> QED
    BY <1>0, <2>1, Sabe
<1>e. /\ carpetas = antes.carpetas
      /\ r.paso \in {"secuencia", "invitado", "lote_escribe", "mueve"} => r.leido = m
      /\ r.paso \in PorMandar => r.n = 1
      /\ r.paso \in {"invitado", "lote_escribe", "mueve"} =>
           \E n \in Secuencia : r.destino = EnPapelera(k, n) /\ EsSecuencia(antes, k, n)
      /\ r.paso \in {"invitado", "lote_escribe"} =>
           \A u \in g \ (IF r.paso = "invitado" THEN r.pend ELSE {}) :
             r.indices[u] = permisos[u] \ {k}
      /\ r.paso = "secuencia" => r.pend = g
      /\ r.paso = "invitado" => r.pend \subseteq g
      /\ r.paso = "lote_escribe" => ~Con(antes, r.destino)
      /\ r.paso = "mueve" =>
           /\ r.n \in 1..L /\ 1..(r.n - 1) \subseteq Presentes(antes, k)
           /\ Mandado(antes, Ahora, k, r.destino.sec, 1..(r.n - 1))
  <2>1. r.paso \in {"secuencia", "invitado", "lote_escribe", "mueve"} => r.leido = m
    BY <1>h DEF HechoBorrar
  <2>2. Ahora.carpetas = carpetas /\ Ahora.permisos = permisos
    BY Leidas
  <2> HIDE DEF r, k
  <2> QED
    BY <1>h, <2>1, <2>2 DEF HechoBorrar, r, k
<1>i. r.paso # "mueve" => Intacto(antes, Ahora, k)
  <2>1. k \notin PorBorrar(r, antes) \ Quedan(r)
    BY <1>0 DEF Quedan
  <2> QED
    BY <1>0, <1>h, <2>1 DEF HechoBorrar
<1>c. Intacto(antes, Ahora, k) =>
        /\ existeMetadato(k) /\ meta[k] = m
        /\ \A c \in Clave : Archivo(c) = Archivo(k) =>
             /\ existeMetadato(c) <=> Con(antes, c)
             /\ HayEnDisco(c) <=> Presentes(antes, c) # {}
  <2>1. Con(antes, k) /\ meta = Ahora.meta
    BY <1>0, <1>h, Leidas DEF HechoBorrar, Esta
  <2>2. ASSUME Intacto(antes, Ahora, k), NEW c \in Clave, Archivo(c) = Archivo(k)
        PROVE  /\ meta[c] = antes.meta[c] /\ Presentes(Ahora, c) = Presentes(antes, c)
    BY <2>1, <2>2 DEF Intacto, Igual
  <2>3. ASSUME Intacto(antes, Ahora, k), NEW c \in Clave, Archivo(c) = Archivo(k)
        PROVE  /\ existeMetadato(c) <=> Con(antes, c)
               /\ HayEnDisco(c) <=> Presentes(antes, c) # {}
    BY <2>2, <2>3, Leidas DEF existeMetadato, Con
  <2> QED
    BY <1>0, <2>1, <2>2, <2>3 DEF existeMetadato, Con
<1>o. Ahora' = Ahora => Otros(Ahora, Ahora', k)
  BY DEF Otros, Igual
\* A step that only reads, to q.
<1>l. ASSUME r.paso # "mueve", NEW q, Lee(h, q), q # OCIOSO,
             q.clave = k, q.user = r.user, q.borra = r.borra, q.claves = r.claves,
             q.paso \in {"secuencia", "invitado", "lote_escribe"}, q.leido = m, q.n = 1,
             q.paso # "secuencia" =>
               \E n \in Secuencia : q.destino = EnPapelera(k, n) /\ EsSecuencia(antes, k, n),
             q.paso = "secuencia" => q.pend = g,
             q.paso = "invitado" => q.pend \subseteq g,
             q.paso \in {"invitado", "lote_escribe"} =>
               \A u \in g \ (IF q.paso = "invitado" THEN q.pend ELSE {}) :
                 q.indices[u] = permisos[u] \ {k},
             q.paso = "lote_escribe" => ~Con(antes, q.destino)
      PROVE  Sale(hilo'[h])
  <2>1. Intacto(antes, Ahora, k) /\ Otros(Ahora, Ahora, k) /\ Ahora.permisos = permisos
    BY <1>i, <1>l, Leidas DEF Otros, Igual
  <2>2. /\ g = q.leido.usuarios \ {q.leido.propietario} /\ q.leido = antes.meta[k]
        /\ q.paso \in {"invitado", "lote_escribe"} =>
             \A u \in g \ (IF q.paso = "invitado" THEN q.pend ELSE {}) :
               q.indices[u] = Ahora.permisos[u] \ {k}
    BY <1>l, <2>1
  <2>3. Hecho(q, antes, Ahora)
    <3> HIDE DEF r, k, g
    <3> QED
      BY <1>0, <1>h, <1>l, <2>1, <2>2, SigueBorrando DEF k
  <2> QED
    BY <1>l, <2>3, LeeSale
<1> HIDE DEF L
<1>1. CASE borraGet(h)
  <2> DEFINE q == [En("secuencia", r) EXCEPT
                     !.leido = meta[k], !.pend = meta[k].usuarios \ {meta[k].propietario}]
  <2>1. r.paso = "borra_get" /\ Lee(h, q) /\ meta[k] = m
    BY <1>1, <1>c, <1>i DEF borraGet, Get
  <2>2. /\ q.paso = "secuencia" /\ q.clave = k /\ q.user = r.user /\ q.borra = r.borra
        /\ q.claves = r.claves /\ q.leido = m /\ q.pend = g /\ q.n = r.n /\ q # OCIOSO
    BY <1>0, <2>1 DEF En, Pedido, OCIOSO
  <2>3. q.n = 1
    BY <1>e, <2>1, <2>2 DEF PorMandar
  <2> HIDE DEF q, r, k, g, m
  <2> QED
    BY <1>l, <2>1, <2>2, <2>3
<1>2. CASE secuencia(h)
  <2> DEFINE usados == {j \in Secuencia : HayEnDisco(EnPapelera(k, j))}
  <2>1. PICK n \in Secuencia :
          /\ \A j \in usados : j < n
          /\ n = 0 \/ n - 1 \in usados
          /\ Lee(h, [En("invitado", r) EXCEPT !.destino = EnPapelera(k, n)])
    BY <1>2 DEF secuencia
  <2>2. r.paso = "secuencia"
    BY <1>2 DEF secuencia
  <2>3. EsSecuencia(antes, k, n)
    <3>1. \A j \in Secuencia :
            HayEnDisco(EnPapelera(k, j)) <=> Presentes(antes, EnPapelera(k, j)) # {}
      BY <1>0, <1>c, <1>i, <2>2, EnLaPapelera
    <3>2. usados = {j \in Secuencia : Presentes(antes, EnPapelera(k, j)) # {}}
      BY <3>1
    <3> QED
      BY <2>1, <3>2 DEF EsSecuencia
  <2> DEFINE q == [En("invitado", r) EXCEPT !.destino = EnPapelera(k, n)]
  <2>4. /\ q.paso = "invitado" /\ q.clave = k /\ q.user = r.user /\ q.borra = r.borra
        /\ q.claves = r.claves /\ q.leido = r.leido /\ q.pend = r.pend /\ q.n = r.n
        /\ q.destino = EnPapelera(k, n) /\ q # OCIOSO
    BY <1>0 DEF En, Pedido, OCIOSO
  <2>5. q.leido = m /\ q.pend = g /\ q.n = 1
    BY <1>e, <2>2, <2>4 DEF PorMandar
  <2>6. Lee(h, q)
    BY <2>1
  <2> HIDE DEF q, r, k, g, m
  <2> QED
    BY <1>l, <2>2, <2>3, <2>4, <2>5, <2>6
<1>3. CASE leeInvitado(h)
  <2>1. PICK v \in r.pend :
          Lee(h, [r EXCEPT !.pend = @ \ {v}, !.indices[v] = permisos[v] \ {k}])
    BY <1>3 DEF leeInvitado
  <2> DEFINE q == [r EXCEPT !.pend = @ \ {v}, !.indices[v] = permisos[v] \ {k}]
  <2>2. r.paso = "invitado"
    BY <1>3 DEF leeInvitado
  <2>3. /\ q.paso = "invitado" /\ q.clave = k /\ q.user = r.user /\ q.borra = r.borra
        /\ q.claves = r.claves /\ q.leido = r.leido /\ q.pend = r.pend \ {v} /\ q.n = r.n
        /\ q.destino = r.destino /\ q # OCIOSO
    BY <1>0, <2>2 DEF Pedido, OCIOSO
  <2>4. \A u \in Usuario : q.indices[u] = IF u = v THEN permisos[v] \ {k} ELSE r.indices[u]
    BY <1>0 DEF Pedido
  <2>5. /\ q.leido = m /\ q.pend \subseteq g /\ q.n = 1
        /\ \E n \in Secuencia : q.destino = EnPapelera(k, n) /\ EsSecuencia(antes, k, n)
    BY <1>e, <2>2, <2>3 DEF PorMandar
  <2>6. \A u \in g \ q.pend : q.indices[u] = permisos[u] \ {k}
    <3>1. \A u \in g \ r.pend : r.indices[u] = permisos[u] \ {k}
      BY <1>e, <2>2
    <3>2. g \subseteq Usuario
      BY <1>t DEF Metadato
    <3> HIDE DEF q, g
    <3> QED
      BY <2>3, <2>4, <3>1, <3>2
  <2>7. Lee(h, q)
    BY <2>1
  <2> HIDE DEF q, r, k, g, m
  <2> QED
    BY <1>l, <2>2, <2>3, <2>5, <2>6, <2>7
<1>4. CASE loteBorra(h)
  <2> DEFINE cabe == existeMetadato(k) /\ ~existeMetadato(r.destino)
             q == En("lote_escribe", r)
  <2>1. /\ r.paso = "invitado" /\ r.pend = {} /\ Lee(h, IF cabe THEN q ELSE Vuelve(r))
    BY <1>4 DEF loteBorra
  <2>2. PICK n \in Secuencia : r.destino = EnPapelera(k, n) /\ EsSecuencia(antes, k, n)
    BY <1>e, <2>1
  <2>3. cabe <=> ~Con(antes, r.destino)
    BY <1>0, <1>c, <1>i, <2>1, <2>2, EnLaPapelera
  <2>4. CASE cabe
    <3>1. /\ q.paso = "lote_escribe" /\ q.clave = k /\ q.user = r.user /\ q.borra = r.borra
          /\ q.claves = r.claves /\ q.leido = r.leido /\ q.n = r.n
          /\ q.destino = r.destino /\ q.indices = r.indices /\ q # OCIOSO
      BY <1>0 DEF En, Pedido, OCIOSO
    <3>2. q.leido = m /\ q.n = 1 /\ \A u \in g : q.indices[u] = permisos[u] \ {k}
      BY <1>e, <2>1, <3>1 DEF PorMandar
    <3> HIDE DEF q, r, k, g, m, cabe
    <3> QED
      BY <1>l, <2>1, <2>2, <2>3, <2>4, <3>1, <3>2
  <2>5. CASE ~cabe
    <3>1. Sigue(h, Vuelve(r)) /\ Ahora' = Ahora /\ carpetas' = carpetas
      BY <2>1, <2>5, LeeIgual DEF Lee
    <3>2. Borrado(antes, Ahora', k)
      BY <1>i, <2>1, <2>2, <2>3, <2>5, <3>1 DEF Borrado
    <3> QED
      BY <1>0, <1>o, <3>1, <3>2, VuelveSale
  <2> QED
    BY <2>4, <2>5
<1>5. CASE escribeLoteBorra(h)
  <2> DEFINE q == En("mueve", r)
  <2>1. /\ r.paso = "lote_escribe" /\ Sigue(h, q) /\ UNCHANGED <<carpetas, disco>>
        /\ r.leido = m
        /\ meta' = [meta EXCEPT ![k] = NADA, ![r.destino] = [m EXCEPT !.usuarios = {m.propietario}]]
        /\ permisos' = [u \in Usuario |-> IF u \in g THEN r.indices[u] ELSE permisos[u]]
    BY <1>5, <1>e DEF escribeLoteBorra, EscribeDB
  <2>2. PICK n \in Secuencia : r.destino = EnPapelera(k, n) /\ EsSecuencia(antes, k, n)
    BY <1>e, <2>1
  <2>3. ~Con(antes, EnPapelera(k, n)) /\ \A u \in g : r.indices[u] = permisos[u] \ {k}
    BY <1>e, <2>1, <2>2
  <2>4. Mandado(antes, Ahora', k, n, {}) /\ Otros(Ahora, Ahora', k)
    <3> DEFINE t == EnPapelera(k, n)
    <3>1. t \in Clave /\ t # k
      BY <1>0, EnLaPapelera
    <3>2. /\ Intacto(antes, Ahora, k) /\ ~Con(antes, t) /\ disco' = disco
          /\ m = antes.meta[k] /\ g = m.usuarios \ {m.propietario}
      BY <1>i, <2>1, <2>3
    <3>3. \A u \in Usuario : permisos'[u] = IF u \in g THEN permisos[u] \ {k} ELSE permisos[u]
      BY <2>1, <2>3
    <3> HIDE DEF r, k, g, m
    <3>4. r.destino = t
      BY <2>2
    <3> HIDE DEF t
    <3>5. /\ meta'[k] = NADA /\ meta'[t] = [m EXCEPT !.usuarios = {m.propietario}]
          /\ \A x \in Clave : x # k /\ x # t => meta'[x] = meta[x]
      BY <1>0, <1>t, <2>1, <3>1, <3>4
    <3> QED
      BY <1>0, <3>2, <3>3, <3>5, MandaMetadatos DEF t
  <2>5. /\ q.paso = "mueve" /\ q.clave = k /\ q.user = r.user /\ q.borra = r.borra
        /\ q.claves = r.claves /\ q.leido = m /\ q.n = 1
        /\ q.destino = EnPapelera(k, n) /\ q.destino.sec = n /\ q # OCIOSO
    <3>1. r.n = 1
      BY <1>e, <2>1 DEF PorMandar
    <3> QED
      BY <1>0, <2>1, <2>2, <3>1, EnLaPapelera DEF En, Pedido, OCIOSO
  <2>6. /\ q.n \in 1..Ultima(antes, k) /\ 1..(q.n - 1) = {}
    BY <1>t, <2>5 DEF Version, L
  <2>7. hilo'[h] = q /\ Ahora'.carpetas = Ahora.carpetas
    BY <2>1, Continua, Leidas, Quedaran
  <2> HIDE DEF q, r, k, g, m
  <2>8. Hecho(q, antes, Ahora')
    BY <1>0, <1>h, <2>1, <2>2, <2>4, <2>5, <2>6, <2>7, SigueBorrando DEF k, m
  <2> QED
    BY <2>5, <2>7, <2>8 DEF Sale
<1>6. CASE mueve(h)
  <2> DEFINE n == r.n
             falla == n > r.leido.ultimaVersion \/ disco[k][n] = NADA
             q == [r EXCEPT !.n = @ + 1]
             fin == falla \/ n >= r.leido.ultimaVersion
  <2>1. /\ r.paso = "mueve" /\ disco' = (IF falla THEN disco ELSE Renombra(k, r.destino, n))
        /\ UNCHANGED <<carpetas, meta, permisos>>
        /\ Sigue(h, IF fin THEN Vuelve(r) ELSE q)
    BY <1>6 DEF mueve, EscribeDisco
  <2>2. PICK s \in Secuencia : r.destino = EnPapelera(k, s) /\ EsSecuencia(antes, k, s)
    BY <1>e, <2>1
  <2>3. /\ r.leido = m /\ r.leido.ultimaVersion = L /\ r.destino.sec = s
        /\ n \in 1..L /\ 1..(n - 1) \subseteq Presentes(antes, k) /\ n \in Version
        /\ Mandado(antes, Ahora, k, s, 1..(n - 1))
    <3>1. r.leido = m /\ r.destino.sec = s
      BY <1>0, <1>e, <2>1, <2>2, EnLaPapelera
    <3>2. n \in 1..L /\ 1..(n - 1) \subseteq Presentes(antes, k)
      BY <1>e, <2>1 DEF L
    <3>3. Mandado(antes, Ahora, k, s, 1..(n - 1))
      BY <1>e, <2>1, <3>1
    <3>4. n \in Version
      BY <1>t, <3>2, MaxVersionAssumption DEF Version
    <3> QED
      BY <3>1, <3>2, <3>3, <3>4 DEF L, Ultima
  <2>4. ~Con(antes, EnPapelera(k, s))
    BY <2>3 DEF Mandado, Con
  <2>5. falla <=> n \notin Presentes(antes, k)
    <3>1. Presentes(Ahora, k) = Presentes(antes, k) \ 1..(n - 1)
      BY <2>3 DEF Mandado
    <3>2. n \notin 1..(n - 1) /\ ~(n > L)
      BY <1>t, <2>3 DEF Version
    <3>3. n \in Presentes(Ahora, k) <=> disco[k][n] # NADA
      BY <2>3, Leidas
    <3> HIDE DEF n
    <3> QED
      BY <2>3, <3>1, <3>2, <3>3
  <2>6. ASSUME NEW vs, vs = Seguidas(antes, k), Mandado(antes, Ahora', k, s, vs)
        PROVE  Borrado(antes, Ahora', k)
    BY <2>2, <2>4, <2>6 DEF Borrado
  <2>7. CASE falla
    <3>1. Ahora' = Ahora
      BY <2>1, <2>7 DEF Ahora
    <3>2. Seguidas(antes, k) = 1..(n - 1)
      <4>1. n \in 1..(L + 1)
        BY <1>t, <2>3 DEF Version
      <4> HIDE DEF n, k, falla
      <4> QED
        BY <1>t, <2>3, <2>5, <2>7, <4>1, SeguidasEs DEF L
    <3>3. Borrado(antes, Ahora', k)
      BY <2>3, <2>6, <3>1, <3>2
    <3>4. Sigue(h, Vuelve(r)) /\ carpetas' = carpetas
      BY <2>1, <2>7
    <3> QED
      BY <1>0, <1>o, <3>1, <3>3, <3>4, VuelveSale
  <2>8. CASE ~falla
    <3>1. Mandado(antes, Ahora', k, s, 1..n) /\ Otros(Ahora, Ahora', k)
      <4>1. disco' = Renombra(k, EnPapelera(k, s), n) /\ disco[k][n] # NADA
        BY <2>1, <2>2, <2>8
      <4> HIDE DEF n, k, falla
      <4> QED
        BY <1>0, <1>t, <2>1, <2>3, <4>1, MandaUna
    <3>2. CASE n = L
      <4>1. Seguidas(antes, k) = 1..n
        <5> DEFINE j == n + 1
        <5>1. /\ j \in 1..(L + 1) /\ 1..(j - 1) = 1..n /\ j = L + 1
              /\ 1..n = (1..(n - 1)) \cup {n}
          BY <1>t, <2>3, <3>2 DEF Version
        <5>2. 1..(j - 1) \subseteq Presentes(antes, k)
          BY <2>3, <2>5, <2>8, <5>1
        <5> HIDE DEF j, n, k
        <5>3. Seguidas(antes, k) = 1..(j - 1)
          BY <1>t, <5>1, <5>2, SeguidasEs DEF L
        <5> QED
          BY <5>1, <5>3
      <4>2. Borrado(antes, Ahora', k)
        BY <2>6, <3>1, <4>1
      <4>3. Sigue(h, Vuelve(r)) /\ carpetas' = carpetas
        BY <2>1, <2>3, <3>2
      <4> QED
        BY <1>0, <3>1, <4>2, <4>3, VuelveSale
    <3>3. CASE n # L
      <4>1. /\ q.paso = "mueve" /\ q.clave = k /\ q.user = r.user /\ q.borra = r.borra
            /\ q.claves = r.claves /\ q.leido = m /\ q.n = n + 1
            /\ q.destino = EnPapelera(k, s) /\ q.destino.sec = s /\ q # OCIOSO
        BY <1>0, <2>1, <2>2, <2>3 DEF Pedido, OCIOSO
      <4>2. /\ q.n \in 1..L /\ 1..(q.n - 1) = 1..n /\ 1..n = (1..(n - 1)) \cup {n} /\ n < L
        BY <1>t, <2>3, <3>3, <4>1 DEF Version
      <4>3. 1..(q.n - 1) \subseteq Presentes(antes, k)
        BY <2>3, <2>5, <2>8, <4>2
      <4>4. Sigue(h, q)
        BY <1>t, <2>1, <2>3, <2>8, <4>2 DEF Version
      <4>5. hilo'[h] = q /\ Ahora'.carpetas = Ahora.carpetas
        BY <2>1, <4>4, Continua, Leidas, Quedaran
      <4> HIDE DEF q, r, k, g, m, n, falla, fin
      <4>6. Mandado(antes, Ahora', k, q.destino.sec, 1..(q.n - 1))
        BY <3>1, <4>1, <4>2
      <4>7. Hecho(q, antes, Ahora')
        BY <1>0, <1>h, <2>1, <2>2, <3>1, <4>1, <4>2, <4>3, <4>5, <4>6, SigueBorrando DEF k, m, L
      <4> QED
        BY <4>1, <4>5, <4>7 DEF Sale
    <3> QED
      BY <3>2, <3>3
  <2> QED
    BY <2>7, <2>8
<1> QED
  BY <1>1, <1>2, <1>3, <1>4, <1>5, <1>6 DEF Borra

-----------------------------------------------------------------------------
(* Removal of a folder *)

\* What the removal of the folder has done, once every file is done with.
LEMMA CarpetaSale ==
  ASSUME NEW h, Sola(h), hilo[h].paso \in {"recorre", "rm"}, Sigue(h, OCIOSO),
         \A c \in Clave : Igual(Ahora, Ahora', c),
         \A c \in PorBorrar(hilo[h], antes) : Borrado(antes, Ahora, c),
         \A c \in Clave : Viva(c) /\ c \notin PorBorrar(hilo[h], antes) => Intacto(antes, Ahora, c),
         NEW dir, dir = CarpetaDe(hilo[h].clave.ruta),
         Retirada(Ahora, Ahora', hilo[h].user, dir)
  PROVE  Sale(hilo'[h])
<1> DEFINE r == hilo[h]
           k == r.clave
           u == r.user
           K == PorBorrar(r, antes)
<1>0. k \in Clave /\ u \in Usuario /\ Forma(r) /\ r.paso \in Borrando /\ r.borra /\ antes \in Almacenes
  <2>1. r.paso \in Borrando
    BY DEF Borrando
  <2> QED
    BY <2>1, Sabe DEF Sola, Forma
<1>h. HechoBorrar(r, antes, Ahora)
  BY <1>0, EsHecho DEF Sola
<1>1. /\ carpetas = antes.carpetas /\ dir # <<>> /\ dir \in antes.carpetas[u]
      /\ \A d \in antes.carpetas[u] : ~IsStrictPrefix(dir, d)
      /\ \A c \in Bajo(u, dir) : Presentes(antes, c) # {} => CarpetaDe(c.ruta) = dir
  BY <1>0, <1>h, Leidas DEF HechoBorrar
<1>2. K = Contenidos(antes, u, dir)
  BY <1>0 DEF PorBorrar
<1>3. hilo'[h] = OCIOSO /\ antes' = Ahora' /\ antes' \in Almacenes
  BY Continua
<1>4. \A c \in K : c \in Clave /\ antes.meta[c].propietario = c.dueno /\ Borrado(antes, antes', c)
  <2>1. ASSUME NEW c \in K PROVE c \in Clave /\ antes.meta[c].propietario = c.dueno
    <3>1. c \in Clave /\ Con(antes, c)
      BY <1>2 DEF Contenidos, EnCarpeta, Esta
    <3> QED
      BY <3>1 DEF Sola, Duenos, DeSuDueno, Con
  <2>2. ASSUME NEW c \in K PROVE Borrado(antes, antes', c)
    BY <1>3, <2>1, BorradoSigue
  <2> QED
    BY <2>1, <2>2
<1>5. \A c \in Clave : Viva(c) /\ c \notin K => Intacto(antes, antes', c)
  BY <1>3, IntactoSigue
<1>6. Retirada(antes, antes', u, dir)
  BY <1>1, <1>3, Leidas DEF Retirada
<1>7. dir = CarpetaDe(k.ruta)
  OBVIOUS
<1> HIDE DEF K, u, k, r
<1>8. A!Next
  BY <1>0, <1>1, <1>2, <1>3, <1>4, <1>5, <1>6, <1>7, HaceEliminarCarpeta
<1> QED
  BY <1>3, <1>8 DEF Sale

LEMMA BorraCarpetaSolo ==
  ASSUME NEW h, Sola(h), BorraCarpeta(h)
  PROVE  Sale(hilo'[h])
<1> DEFINE r == hilo[h]
           k == r.clave
           u == r.user
           dir == CarpetaDe(k.ruta)
           K == PorBorrar(r, antes)
<1>0. /\ r \in Pedido /\ k \in Clave /\ u \in Usuario /\ Forma(r) /\ Viva(k) /\ r # OCIOSO
      /\ r.paso \in {"recorre", "rm"} /\ r.paso \in Borrando /\ r.borra
      /\ k.dueno = u /\ r.claves \subseteq EnCarpeta(u, dir)
  <2>1. r.paso \in {"recorre", "rm"} /\ r.paso \in Borrando
    BY DEF BorraCarpeta, recorre, carpetaVacia, deleteCarpeta, Borrando
  <2> QED
    BY <2>1, Sabe DEF Sola, Forma
<1>h. HechoBorrar(r, antes, Ahora)
  BY <1>0, EsHecho DEF Sola
<1>1. /\ carpetas = antes.carpetas /\ dir # <<>> /\ dir \in antes.carpetas[u]
      /\ \A d \in antes.carpetas[u] : ~IsStrictPrefix(dir, d)
      /\ \A c \in Bajo(u, dir) : Presentes(antes, c) # {} => CarpetaDe(c.ruta) = dir
  BY <1>0, <1>h, Leidas DEF HechoBorrar
<1>2. K = {c \in EnCarpeta(u, dir) : Esta(antes, c)} /\ Quedan(r) = r.claves
  BY <1>0 DEF PorBorrar, Contenidos, Quedan
<1>3. /\ \A c \in K \ r.claves : Borrado(antes, Ahora, c)
      /\ \A c \in Clave : Viva(c) /\ c \notin K \ r.claves => Intacto(antes, Ahora, c)
  BY <1>0, <1>2, <1>h DEF HechoBorrar
<1>4. \A c \in Clave : Intacto(antes, Ahora, c) =>
        /\ Existe(c) <=> Esta(antes, c)
        /\ Presentes(Ahora, c) = Presentes(antes, c)
  <2>1. ASSUME NEW c \in Clave, Intacto(antes, Ahora, c)
        PROVE  Ahora.meta[c] = antes.meta[c] /\ Presentes(Ahora, c) = Presentes(antes, c)
    BY <2>1 DEF Intacto, Igual
  <2>2. \A c : Existe(c) <=> Esta(Ahora, c)
    BY Leidas
  <2> QED
    BY <2>1, <2>2 DEF Esta, Con
\* The walk goes on, to q.
<1>l. ASSUME NEW c \in Clave, c \in r.claves, NEW q, q # OCIOSO, Lee(h, q),
             q.clave = c, q.user = u, q.borra, q.claves = r.claves \ {c}, q.n = 1,
             q.paso = IF Esta(antes, c) THEN "borra_get" ELSE "recorre"
      PROVE  Sale(hilo'[h])
  <2>1. CarpetaDe(q.clave.ruta) = dir
    BY <1>0, <1>l DEF EnCarpeta
  <2>2. PorBorrar(q, antes) = K /\ K \ Quedan(q) = K \ r.claves
    BY <1>0, <1>2, <1>l, <2>1 DEF PorBorrar, Contenidos, Quedan
  <2>3. Ahora.carpetas = antes.carpetas
    BY <1>1, Leidas
  <2> HIDE DEF K, dir, u, r, k
  <2>4. HechoBorrar(q, antes, Ahora)
    BY <1>1, <1>3, <1>l, <2>1, <2>2, <2>3 DEF HechoBorrar, PorMandar
  <2>5. Hecho(q, antes, Ahora)
    BY <1>l, <2>4, EsHecho DEF Borrando
  <2> QED
    BY <1>l, <2>5, LeeSale
<1>5. CASE recorre(h)
  <2> DEFINE s(c) == [r EXCEPT !.claves = @ \ {c}, !.clave = c, !.n = 1]
             q(c) == IF Existe(c) THEN En("borra_get", s(c)) ELSE s(c)
  <2>1. PICK c \in r.claves : Lee(h, q(c))
    BY <1>5 DEF recorre
  <2>2. r.paso = "recorre" /\ c \in Clave /\ Viva(c)
    BY <1>0, <1>5 DEF recorre, EnCarpeta
  <2>3. Existe(c) <=> Esta(antes, c)
    BY <1>3, <1>4, <2>1, <2>2
  <2>4. /\ q(c).clave = c /\ q(c).user = u /\ q(c).borra /\ q(c).claves = r.claves \ {c}
        /\ q(c).n = 1 /\ q(c) # OCIOSO
        /\ q(c).paso = IF Esta(antes, c) THEN "borra_get" ELSE "recorre"
    BY <1>0, <2>2, <2>3 DEF En, Pedido, OCIOSO
  <2>5. PICK p : p = q(c)
    OBVIOUS
  <2> HIDE DEF q, u, r
  <2> QED
    BY <1>l, <2>1, <2>2, <2>4, <2>5
<1>6. CASE carpetaVacia(h)
  <2> DEFINE q == En("rm", r)
             vacia == /\ ~HayCarpetaBajo(u, dir)
                      /\ \A c \in EnCarpeta(u, dir) : ~HayEnDisco(c)
  <2>1. r.paso = "recorre" /\ r.claves = {} /\ Lee(h, IF vacia THEN q ELSE OCIOSO)
    BY <1>6 DEF carpetaVacia
  <2>2. ~HayCarpetaBajo(u, dir)
    BY <1>1 DEF HayCarpetaBajo
  <2>3. \A c : HayEnDisco(c) <=> Presentes(Ahora, c) # {}
    BY Leidas
  <2>4. CASE vacia
    <3>1. /\ q.paso = "rm" /\ q.clave = k /\ q.user = u /\ q.borra /\ q.claves = {} /\ q # OCIOSO
      BY <1>0, <2>1 DEF En, Pedido, OCIOSO
    <3>2. PorBorrar(q, antes) = K /\ K \ Quedan(q) = K \ r.claves
      BY <1>2, <2>1, <3>1 DEF PorBorrar, Contenidos, Quedan
    <3>3. ASSUME NEW c \in Bajo(u, dir) PROVE Presentes(Ahora, c) = {}
      <4>1. c \in Clave /\ Viva(c) /\ c.dueno = u
        BY DEF Bajo
      <4>2. CASE c \in EnCarpeta(u, dir)
        BY <2>3, <2>4, <4>2
      <4>3. CASE c \notin EnCarpeta(u, dir)
        <5>1. CarpetaDe(c.ruta) # dir /\ c \notin K
          BY <1>2, <4>1, <4>3 DEF EnCarpeta
        <5>2. Presentes(antes, c) = {} /\ Intacto(antes, Ahora, c)
          BY <1>1, <1>3, <4>1, <5>1
        <5> QED
          BY <1>4, <4>1, <5>2
      <4> QED
        BY <4>2, <4>3
    <3>4. Ahora.carpetas = antes.carpetas /\ Lee(h, q)
      BY <1>1, <2>1, <2>4, Leidas
    <3>5. dir = CarpetaDe(q.clave.ruta)
      BY <3>1
    <3> HIDE DEF q, K, dir, u, r, k
    <3>6. HechoBorrar(q, antes, Ahora)
      BY <1>1, <1>3, <3>1, <3>2, <3>3, <3>4, <3>5 DEF HechoBorrar, PorMandar
    <3>7. Hecho(q, antes, Ahora)
      BY <3>1, <3>6, EsHecho DEF Borrando
    <3> QED
      BY <3>1, <3>4, <3>7, LeeSale DEF r
  <2>5. CASE ~vacia
    <3>1. Sigue(h, OCIOSO) /\ Ahora' = Ahora /\ carpetas' = carpetas
      BY <2>1, <2>5, LeeIgual DEF Lee
    <3>2. PICK c \in EnCarpeta(u, dir) : Presentes(Ahora', c) # {}
      BY <2>2, <2>3, <2>5, <3>1
    <3>3. \A x \in Clave : Igual(Ahora, Ahora', x)
      BY <3>1 DEF Igual
    <3>4. /\ \A x \in K : Borrado(antes, Ahora, x)
          /\ \A x \in Clave : Viva(x) /\ x \notin K => Intacto(antes, Ahora, x)
      BY <1>3, <2>1
    <3>5. Retirada(Ahora, Ahora', u, dir)
      BY <3>1, <3>2, Leidas, Quedaran DEF Retirada
    <3> QED
      BY <1>0, <3>1, <3>3, <3>4, <3>5, CarpetaSale
  <2> QED
    BY <2>4, <2>5
<1>7. CASE deleteCarpeta(h)
  <2>1. /\ r.paso = "rm" /\ Sigue(h, OCIOSO) /\ UNCHANGED <<meta, permisos>>
        /\ carpetas' = [carpetas EXCEPT ![u] = {e \in @ : ~IsPrefix(dir, e)}]
        /\ disco' = [c \in Clave |-> IF c \in Bajo(u, dir)
                                     THEN [v \in Version |-> NADA] ELSE disco[c]]
    BY <1>7 DEF deleteCarpeta
  <2>2. \A c \in Bajo(u, dir) : Presentes(Ahora, c) = {}
    BY <1>h, <2>1 DEF HechoBorrar
  <2>3. ASSUME NEW c \in Clave PROVE Presentes(Ahora', c) = Presentes(Ahora, c)
    <3>1. CASE c \in Bajo(u, dir)
      <4>1. \A v \in Version : disco'[c][v] = NADA
        BY <2>1, <3>1
      <4>2. Presentes(Ahora', c) = {}
        BY <4>1, Quedaran
      <4> QED
        BY <2>2, <3>1, <4>2
    <3>2. CASE c \notin Bajo(u, dir)
      <4>1. disco'[c] = disco[c]
        BY <2>1, <3>2
      <4> QED
        BY <4>1, MismaFila
    <3> QED
      BY <3>1, <3>2
  <2>4. Ahora'.meta = Ahora.meta /\ Ahora'.permisos = Ahora.permisos
    BY <2>1, Leidas, Quedaran
  <2>5. \A c \in Clave : Igual(Ahora, Ahora', c)
    BY <2>3, <2>4 DEF Igual
  <2>6. \A c \in EnCarpeta(u, dir) : c \in Bajo(u, dir) /\ c \in Clave /\ Viva(c)
    BY CarpetaEnSi DEF EnCarpeta, Bajo
  <2>7. ASSUME NEW c \in K PROVE c \notin r.claves
    <3>1. c \in Clave /\ Viva(c) /\ Esta(antes, c) /\ Presentes(Ahora, c) = {}
      BY <1>2, <2>2, <2>6
    <3>2. Presentes(antes, c) # {}
      BY <3>1 DEF Esta
    <3>3. ~Intacto(antes, Ahora, c)
      BY <1>4, <3>1, <3>2
    <3> QED
      BY <1>3, <3>1, <3>3
  <2>8. /\ \A x \in K : Borrado(antes, Ahora, x)
        /\ \A x \in Clave : Viva(x) /\ x \notin K => Intacto(antes, Ahora, x)
    BY <1>3, <2>7
  <2>9. Retirada(Ahora, Ahora', u, dir)
    BY <2>1, <2>2, <2>3, <2>6, Leidas, Quedaran DEF Retirada
  <2> QED
    BY <1>0, <2>1, <2>5, <2>8, <2>9, CarpetaSale
<1> QED
  BY <1>5, <1>6, <1>7 DEF BorraCarpeta

-----------------------------------------------------------------------------
(* Every step keeps what a lone request has done *)

LEMMA PasoSolo ==
  ASSUME NEW h, Sola(h), Paso(h)
  PROVE  Sale(hilo'[h])
BY SubeSolo, BorraSolo, BorraCarpetaSolo, PurgaSolo, RestauraSolo, ActualizaSolo,
   RenombraSolo, BuscaSolo DEF Paso

\* Every step of a thread says how it goes on.
LEMMA PasoSigue == ASSUME NEW h, Paso(h) PROVE \E q : Sigue(h, q)
<1>1. ASSUME Sube(h) PROVE \E q : Sigue(h, q)
  BY <1>1 DEF Sube, validaVersion, creaCarpeta, hayMetadato, subeGet, subePut, escribe, cargaGet,
              cargaPut, Lee, Get, EscribeDB
<1>2. ASSUME Borra(h) PROVE \E q : Sigue(h, q)
  BY <1>2 DEF Borra, borraGet, secuencia, leeInvitado, loteBorra, escribeLoteBorra, mueve,
              Lee, Get, EscribeDB, EscribeDisco
<1>3. ASSUME BorraCarpeta(h) PROVE \E q : Sigue(h, q)
  BY <1>3 DEF BorraCarpeta, recorre, carpetaVacia, deleteCarpeta, Lee
<1>4. ASSUME Purga(h) PROVE \E q : Sigue(h, q)
  BY <1>4 DEF Purga, purgaGet, purgaErase, purgaRm, Lee, Get, EscribeDB
<1>5. ASSUME Restaura(h) PROVE \E q : Sigue(h, q)
  BY <1>5 DEF Restaura, restauraCarpeta, puedoRestaurarA, restauraGet, restauraMueve,
              restauraLee, loteRestaura, restauraEscribe, deshacerRestaurado, Lee, Get,
              EscribeDB, EscribeDisco
<1>6. ASSUME Actualiza(h) PROVE \E q : Sigue(h, q)
  BY <1>6 DEF Actualiza, actualizaGet, siguientePermiso, permisoGet, permisoIndice, permisoLote,
              permisoEscribe, actualizaModify, actualizaPut, Lee, Get, EscribeDB
<1>7. ASSUME RenombraArchivo(h) PROVE \E q : Sigue(h, q)
  BY <1>7 DEF RenombraArchivo, renombraHay, renombraMueve, renombraGet, renombraIndice,
              renombraModify, renombraLote, renombraEscribe, Lee, Get, EscribeDB, EscribeDisco
<1>8. ASSUME busca(h) PROVE \E q : Sigue(h, q)
  BY <1>8 DEF busca, Lee, Get
<1> QED
  BY <1>1, <1>2, <1>3, <1>4, <1>5, <1>6, <1>7, <1>8 DEF Paso

\* A lone request that takes a step is alone as Sola says.
LEMMA SolaPaso ==
  ASSUME Firme, Firme', Solos, NEW h \in Hilo, Paso(h), solo, Tipado(antes)
  PROVE  Sola(h)
<1>1. hilo[h] # OCIOSO /\ h \in EnCurso
  BY DEF Paso, EnCurso
<1>2. \A g \in Hilo : g # h => hilo[g] = OCIOSO
  BY <1>1 DEF Solos, EnCurso
<1> QED
  BY <1>1, <1>2 DEF Sola, Solos, Firme

LEMMA PasoSolos ==
  ASSUME Firme, Firme', Solos, NEW h \in Hilo, Paso(h)
  PROVE  Solos'
<1>1. PICK q : Sigue(h, q)
  BY PasoSigue
<1>2. /\ hilo \in [Hilo -> {OCIOSO} \cup Pedido] /\ hilo' = [hilo EXCEPT ![h] = q]
      /\ hilo[h] # OCIOSO /\ solo' = solo
  BY <1>1 DEF Firme, Inv, Hilos, Sigue, Paso
<1>3. hilo'[h] = q /\ \A g \in Hilo : g # h => hilo'[g] = hilo[g]
  BY <1>2
<1>4. antes' = IF hilo' = [g \in Hilo |-> OCIOSO] THEN Ahora' ELSE antes
  BY <1>1 DEF Sigue
<1>5. antes' \in Almacenes
  BY <1>4, Almacenado DEF Firme, Solos
<1>6. EnCurso' = {} => antes' = Ahora'
  <2>1. EnCurso' = {} => hilo' = [g \in Hilo |-> OCIOSO]
    BY <1>2 DEF EnCurso
  <2> QED
    BY <1>4, <2>1
<1>7. EnCurso' \subseteq EnCurso
  BY <1>2, <1>3 DEF EnCurso
<1>8. solo' => \A f \in EnCurso', g \in EnCurso' : f = g
  BY <1>2, <1>7 DEF Solos
<1>9. ASSUME solo', Tipado(antes'), NEW g \in EnCurso'
      PROVE  Hecho(hilo'[g], antes', Ahora')
  <2>1. g \in Hilo /\ hilo'[g] # OCIOSO
    BY DEF EnCurso
  <2>2. antes' = antes
    BY <1>4, <2>1
  <2>3. Sola(h)
    BY <1>2, <1>9, <2>2, SolaPaso
  <2>4. g = h
    BY <1>3, <2>1, <2>3 DEF Sola
  <2>5. Sale(hilo'[h])
    BY <2>3, PasoSolo
  <2> QED
    BY <2>1, <2>2, <2>4, <2>5 DEF Sale
<1> QED
  BY <1>5, <1>6, <1>8, <1>9 DEF Solos

LEMMA CaeSolos ==
  ASSUME Firme', Cae
  PROVE  Solos'
<1>1. /\ hilo' = [h \in Hilo |-> OCIOSO] /\ antes' = Ahora' /\ ~solo'
  BY DEF Cae, Ahora
<1>2. EnCurso' = {}
  BY <1>1 DEF EnCurso
<1>3. antes' \in Almacenes
  BY <1>1, Almacenado DEF Firme
<1> QED
  BY <1>1, <1>2, <1>3 DEF Solos

\* A request that starts has done nothing yet.
LEMMA TomaSolos ==
  ASSUME Firme, Solos, NEW h \in Hilo, hilo[h] = OCIOSO, NEW r, r # OCIOSO, Toma(h, r),
         Tipado(Ahora) => Hecho(r, Ahora, Ahora)
  PROVE  Solos' /\ antes' = antes
<1>1. /\ hilo \in [Hilo -> {OCIOSO} \cup Pedido] /\ hilo' = [hilo EXCEPT ![h] = r]
      /\ solo' = (EnCurso = {}) /\ Ahora' = Ahora
  BY DEF Firme, Inv, Hilos, Toma, Sigue, Ahora
<1>2. hilo'[h] = r /\ \A g \in Hilo : g # h => hilo'[g] = hilo[g]
  BY <1>1
<1>3. antes' = antes
  BY <1>2 DEF Toma, Sigue
<1>4. h \in EnCurso' /\ \A g \in EnCurso' : g = h \/ g \in EnCurso
  BY <1>2 DEF EnCurso
<1>5. EnCurso = {} => antes = Ahora
  BY DEF Solos
<1> QED
  BY <1>1, <1>2, <1>3, <1>4, <1>5 DEF Solos

LEMMA PideSolos ==
  ASSUME Firme, Solos, NEW h \in Hilo, Pide(h)
  PROVE  Solos' /\ antes' = antes
<1>0. hilo[h] = OCIOSO /\ Inv /\ EnSuSitio
  BY DEF Pide, Firme
<1>i. \A k : Igual(Ahora, Ahora, k) /\ Intacto(Ahora, Ahora, k)
  BY DEF Igual, Intacto
<1>1. ASSUME NEW u \in Usuario, NEW k \in Clave, NEW v \in Version, NEW force \in BOOLEAN,
             PideSubir(h, u, k, v, force)
      PROVE  Solos' /\ antes' = antes
  <2> DEFINE t == Tarea("carpeta", u, k, k)
             r == IF Existe(k) THEN [En("version", t) EXCEPT !.n = IF force THEN 1 ELSE v,
                                                             !.fuerza = force]
                  ELSE [t EXCEPT !.primera = TRUE]
  <2>1. /\ verificarPermisos(u, k) /\ Toma(h, r)
    BY <1>1 DEF PideSubir
  <2>2. /\ r.clave = k /\ r.user = u /\ (r.primera <=> ~Existe(k)) /\ r # OCIOSO
        /\ r.paso = IF Existe(k) THEN "version" ELSE "carpeta"
        /\ ~Existe(k) => r.n = 1
    BY DEF Tarea, En, OCIOSO
  <2> HIDE DEF r
  <2>3. Puede(Ahora, r.user, k) /\ (Existe(k) <=> Esta(Ahora, k)) /\ 1 \in Version
    <3>1. 1 \in Version
      BY MaxVersionAssumption DEF Version
    <3> QED
      BY <2>1, <2>2, <3>1, Leidas
  <2>4. HechoSubir(r, Ahora, Ahora)
    BY <2>2, <2>3 DEF HechoSubir, PorCargar
  <2>5. Hecho(r, Ahora, Ahora)
    BY <2>2, <2>4, EsHecho DEF Subiendo
  <2> QED
    BY <1>0, <2>1, <2>2, <2>5, TomaSolos
<1>2. ASSUME NEW u \in Usuario, NEW k \in Clave, PideBorrar(h, u, k) PROVE Solos' /\ antes' = antes
  <2> DEFINE r == Tarea("borra_get", u, k, k)
  <2>1. verificarPermisos(u, k) /\ Existe(k) /\ Toma(h, r)
    BY <1>2 DEF PideBorrar
  <2>2. /\ r.clave = k /\ r.user = u /\ r.paso = "borra_get" /\ r.n = 1 /\ ~r.borra
        /\ r.claves = {} /\ r # OCIOSO
    BY DEF Tarea, OCIOSO
  <2> HIDE DEF r
  <2>3. Puede(Ahora, u, k) /\ Esta(Ahora, k)
    BY <2>1, Leidas
  <2>4. PorBorrar(r, Ahora) \ Quedan(r) = {}
    BY <2>2 DEF PorBorrar, Quedan
  <2>5. HechoBorrar(r, Ahora, Ahora)
    BY <1>i, <2>2, <2>3, <2>4 DEF HechoBorrar
  <2>6. Hecho(r, Ahora, Ahora)
    BY <2>2, <2>5, EsHecho DEF Borrando
  <2> QED
    BY <1>0, <2>1, <2>2, <2>6, TomaSolos
<1>3. ASSUME NEW u \in Usuario, NEW k \in Clave, PidePurgar(h, u, k) PROVE Solos' /\ antes' = antes
  <2> DEFINE r == Tarea("purga_get", u, k, k)
  <2>1. verificarPermisos(u, k) /\ Existe(k) /\ ~Viva(k) /\ Toma(h, r)
    BY <1>3 DEF PidePurgar
  <2>2. r.clave = k /\ r.user = u /\ r.paso = "purga_get" /\ r # OCIOSO
    BY DEF Tarea, OCIOSO
  <2> HIDE DEF r
  <2>3. Puede(Ahora, u, k) /\ Esta(Ahora, k)
    BY <2>1, Leidas
  <2>4. HechoPurgar(r, Ahora, Ahora)
    BY <2>1, <2>2, <2>3 DEF HechoPurgar
  <2>5. Hecho(r, Ahora, Ahora)
    BY <2>2, <2>4, EsHecho DEF Purgando
  <2> QED
    BY <1>0, <2>1, <2>2, <2>5, TomaSolos
<1>4. ASSUME NEW u \in Usuario, NEW k \in Clave, PideRestaurar(h, u, k) PROVE Solos' /\ antes' = antes
  <2> DEFINE r == Tarea("rest_carpeta", u, k, ClaveReal(u, k))
  <2>1. verificarPermisos(u, k) /\ Toma(h, r)
    BY <1>4 DEF PideRestaurar
  <2>2. r.clave = k /\ r.user = u /\ r.paso = "rest_carpeta" /\ r # OCIOSO
    BY DEF Tarea, OCIOSO
  <2> HIDE DEF r
  <2>3. Puede(Ahora, u, k)
    BY <2>1, Leidas
  <2>4. HechoRestaurar(r, Ahora, Ahora)
    BY <2>2, <2>3 DEF HechoRestaurar, Moviendo, TrasMover
  <2>5. Hecho(r, Ahora, Ahora)
    BY <2>2, <2>4, EsHecho DEF Restaurando
  <2> QED
    BY <1>0, <2>1, <2>2, <2>5, TomaSolos
<1>5. ASSUME NEW u \in Usuario, NEW k \in Clave, NEW c \in Clave, NEW lista \in SUBSET Usuario,
             PideActualizar(h, u, k, c, lista)
      PROVE  Solos' /\ antes' = antes
  <2> DEFINE r == [Tarea("act_get", u, k, c) EXCEPT !.lista = lista]
  <2>1. /\ verificarPermisos(u, k) /\ existeMetadato(k) /\ Toma(h, r)
        /\ lista # {} => k.dueno \in lista
    BY <1>5 DEF PideActualizar
  <2>2. r.clave = k /\ r.user = u /\ r.paso = "act_get" /\ r.lista = lista /\ r # OCIOSO
    BY DEF Tarea, OCIOSO
  <2> HIDE DEF r
  <2>3. Puede(Ahora, u, k) /\ Con(Ahora, k)
    BY <2>1, Leidas
  <2>4. HechoActualizar(r, Ahora, Ahora)
    BY <2>1, <2>2, <2>3 DEF HechoActualizar
  <2>5. Hecho(r, Ahora, Ahora)
    BY <2>2, <2>4, EsHecho DEF Cambiando
  <2> QED
    BY <1>0, <2>1, <2>2, <2>5, TomaSolos
<1>6. ASSUME NEW u \in Usuario, NEW dir \in Carpeta, PideBorrarCarpeta(h, u, dir) PROVE Solos' /\ antes' = antes
  <2>1. PICK k \in EnCarpeta(u, dir) :
          Toma(h, [Tarea("recorre", u, k, k) EXCEPT
                     !.borra = TRUE,
                     !.claves = {c \in EnCarpeta(u, dir) : HayEnDisco(c)},
                     !.toca = {Archivo(c) : c \in Bajo(u, dir)}])
    BY <1>6 DEF PideBorrarCarpeta
  <2>2. dir # <<>> /\ dir \in carpetas[u] /\ ~HayCarpetaBajo(u, dir)
    BY <1>6 DEF PideBorrarCarpeta
  <2> DEFINE r == [Tarea("recorre", u, k, k) EXCEPT
                     !.borra = TRUE,
                     !.claves = {c \in EnCarpeta(u, dir) : HayEnDisco(c)},
                     !.toca = {Archivo(c) : c \in Bajo(u, dir)}]
  <2>3. /\ r.clave = k /\ r.user = u /\ r.paso = "recorre" /\ r.borra /\ r # OCIOSO
        /\ r.claves = {c \in EnCarpeta(u, dir) : HayEnDisco(c)} /\ Toma(h, r)
    BY <2>1 DEF Tarea, OCIOSO
  <2>4. CarpetaDe(k.ruta) = dir
    BY DEF EnCarpeta
  <2> HIDE DEF r
  <2>5. PorBorrar(r, Ahora) \ Quedan(r) = {}
    <3>1. \A c : Esta(Ahora, c) => HayEnDisco(c)
      BY Leidas DEF Esta
    <3> QED
      BY <2>3, <2>4, <3>1 DEF PorBorrar, Contenidos, Quedan
  <2>6. \A d \in carpetas[u] : ~IsStrictPrefix(dir, d)
    BY <2>2 DEF HayCarpetaBajo
  <2>7. ASSUME NEW c \in Bajo(u, dir), Presentes(Ahora, c) # {} PROVE CarpetaDe(c.ruta) = dir
    <3>1. c \in Clave /\ Viva(c) /\ c.dueno = u /\ IsPrefix(dir, CarpetaDe(c.ruta))
      BY DEF Bajo
    <3>2. CarpetaDe(c.ruta) \in carpetas[u]
      BY <1>0, <2>7, <3>1, Leidas DEF EnSuSitio, EnSuCarpeta
    <3> QED
      BY <2>6, <3>1, <3>2 DEF IsStrictPrefix
  <2>8. HechoBorrar(r, Ahora, Ahora)
    BY <1>i, <2>2, <2>3, <2>4, <2>5, <2>6, <2>7, Leidas DEF HechoBorrar, PorMandar
  <2>9. Hecho(r, Ahora, Ahora)
    BY <2>3, <2>8, EsHecho DEF Borrando
  <2> QED
    BY <1>0, <2>3, <2>9, TomaSolos
<1>7. ASSUME NEW u \in Usuario, PideBuscar(h, u) PROVE Solos' /\ antes' = antes
  <2>1. PICK k \in permisos[u] :
          Toma(h, [Tarea("busca", u, k, k) EXCEPT !.claves = permisos[u], !.toca = {}])
    BY <1>7 DEF PideBuscar
  <2> DEFINE r == [Tarea("busca", u, k, k) EXCEPT !.claves = permisos[u], !.toca = {}]
  <2>2. r.paso = "busca" /\ r # OCIOSO /\ Toma(h, r)
    BY <2>1 DEF Tarea, OCIOSO
  <2> HIDE DEF r
  <2>3. Hecho(r, Ahora, Ahora)
    BY <2>2, EsHecho
  <2> QED
    BY <1>0, <2>2, <2>3, TomaSolos
<1> QED
  BY <1>1, <1>2, <1>3, <1>4, <1>5, <1>6, <1>7 DEF Pide

LEMMA InitSolos == ASSUME Init PROVE Solos
<1>1. antes = Ahora /\ EnCurso = {} /\ antes \in Almacenes
  BY InitInv, Almacenado DEF Init, EnCurso
<1> QED
  BY <1>1 DEF Solos

LEMMA NextSolos == ASSUME Firme, Firme', Solos, [Next]_vars PROVE Solos'
<1>1. CASE Caida
  BY <1>1, CaeSolos DEF Caida
<1>2. ASSUME NEW h \in Hilo, Pide(h) \/ Paso(h) \/ Lanza(h) PROVE Solos'
  BY <1>2, PideSolos, PasoSolos, CaeSolos DEF Lanza
<1>3. CASE UNCHANGED vars
  BY <1>3 DEF vars, Solos, EnCurso, Ahora
<1> QED
  BY <1>1, <1>2, <1>3 DEF Next

\* What a lone request has done so far, whatever ran before it.
LEMMA SolosSiempre == Spec => [](Firme /\ Solos)
<1>1. Init => Solos
  BY InitSolos
<1>2. Firme /\ Firme' /\ Solos /\ [Next]_vars => Solos'
  BY NextSolos
<1> QED
  BY <1>1, <1>2, FirmeSiempre, PTL DEF Spec

\* A request that ran alone did one step of Archivos, whatever state the earlier
\* interleavings and crashes had left.
THEOREM SoloEsAtomicoSiempre == Spec => SoloEsAtomico
<1>1. A!TypeOK => Tipado(antes)
  <2>1. ASSUME A!TypeOK, NEW k \in Clave, Con(antes, k) PROVE Ultima(antes, k) \in Version
    <3>1. antes.meta[k] \in A!MetadatoArchivo \cup {NADA}
      BY <2>1, MismosNombres DEF A!TypeOK
    <3> QED
      BY <2>1, <3>1, MismosNombres DEF A!MetadatoArchivo, Con, Ultima
  <2> QED
    BY <2>1 DEF Tipado
<1>2. ASSUME Firme, Firme', Solos, Next, solo', antes' # antes, A!TypeOK
      PROVE  A!Next \/ UNCHANGED A!vars
  <2>1. ~Caida
    BY <1>2 DEF Caida, Cae
  <2>2. PICK h \in Hilo : Pide(h) \/ Paso(h) \/ Lanza(h)
    BY <1>2, <2>1 DEF Next
  <2>3. ~Lanza(h)
    BY <1>2 DEF Lanza, Cae
  <2>4. ~Pide(h)
    BY <1>2, PideSolos
  <2>5. Paso(h)
    BY <2>2, <2>3, <2>4
  <2>6. Sola(h)
    BY <1>1, <1>2, <2>5, SolaPaso DEF Paso
  <2>7. hilo'[h] = OCIOSO
    <3>1. PICK q : Sigue(h, q)
      BY <2>5, PasoSigue
    <3>2. q = OCIOSO /\ hilo'[h] = q
      BY <1>2, <2>6, <3>1, Continua
    <3> QED
      BY <3>2
  <2> QED
    BY <2>5, <2>6, <2>7, PasoSolo DEF Sale
<1>3. Firme /\ Firme' /\ Solos /\ [Next]_vars
        => [solo' /\ antes' # antes /\ A!TypeOK => A!Next \/ UNCHANGED A!vars]_vars
  BY <1>2
<1> QED
  BY <1>3, SolosSiempre, PTL DEF Spec, SoloEsAtomico
=============================================================================
