--------------------------- MODULE Archivos_proof ---------------------------
(* Proofs about Archivos, for every set of users, paths and bounds. *)
EXTENDS Archivos, SequenceTheorems, TLAPS

-----------------------------------------------------------------------------
(* Paths and keys *)

LEMMA CarpetaDeEsCarpeta == \A r \in Ruta : CarpetaDe(r) \in Carpeta
<1> SUFFICES ASSUME NEW r \in Ruta PROVE CarpetaDe(r) \in Prefixes(CarpetaDe(r))
  BY DEF Carpeta
<1>1. r \in Seq(STRING) /\ r # <<>>
  BY RutaAssumption
<1>2. Len(r) \in Nat /\ Len(r) >= 1
  BY <1>1
<1>3. CarpetaDe(r) \in Seq(STRING)
  BY <1>1, <1>2, SubSeqProperties DEF CarpetaDe
<1>4. CarpetaDe(r) = SubSeq(CarpetaDe(r), 1, Len(CarpetaDe(r)))
  BY <1>3, SubSeqFull
<1>5. Len(CarpetaDe(r)) \in 0..Len(CarpetaDe(r))
  BY <1>3, LenProperties
<1> QED
  BY <1>4, <1>5 DEF Prefixes

LEMMA PrefijoDePrefijo ==
  ASSUME NEW s \in Seq(STRING), NEW i \in 0..Len(s), NEW j \in 0..i
  PROVE  SubSeq(SubSeq(s, 1, i), 1, j) = SubSeq(s, 1, j)
<1> DEFINE t == SubSeq(s, 1, i)
           u == SubSeq(t, 1, j)
           v == SubSeq(s, 1, j)
<1>1. \A n \in 1..i : s[n] \in STRING
  BY LenProperties, ElementOfSeq
<1>2. t \in Seq(STRING) /\ Len(t) = i /\ \A n \in 1..i : t[n] = s[n]
  BY SubSeqProperties, LenProperties
<1>3. u \in Seq(STRING) /\ Len(u) = j /\ \A n \in 1..j : u[n] = t[n]
  BY <1>2, SubSeqProperties, LenProperties
<1>4. v \in Seq(STRING) /\ Len(v) = j /\ \A n \in 1..j : v[n] = s[n]
  BY SubSeqProperties, LenProperties
<1>5. \A n \in 1..j : u[n] = v[n]
  BY <1>2, <1>3, <1>4
<1> QED
  BY <1>3, <1>4, <1>5, SeqEqual

LEMMA PrefijosDeCarpeta == \A dir \in Carpeta : Prefixes(dir) \subseteq Carpeta
<1>0. Prefixes(<<>>) \subseteq {<<>>}
  <2> SUFFICES ASSUME NEW l \in 0..Len(<<>>) PROVE SubSeq(<<>>, 1, l) = <<>>
    BY DEF Prefixes
  <2>1. l = 0
    OBVIOUS
  <2> QED
    BY <2>1, SubSeqProperties, EmptySeq
<1> SUFFICES ASSUME NEW r \in Ruta, NEW dir \in Prefixes(CarpetaDe(r)),
                    NEW e \in Prefixes(dir)
             PROVE  e \in Prefixes(CarpetaDe(r))
  BY <1>0 DEF Carpeta
<1> DEFINE s == CarpetaDe(r)
<1>1. r \in Seq(STRING) /\ Len(r) \in Nat /\ Len(r) >= 1
  BY RutaAssumption, LenProperties
<1>2. s \in Seq(STRING)
  BY <1>1, SubSeqProperties DEF CarpetaDe
<1>3. PICK i \in 0..Len(s) : dir = SubSeq(s, 1, i)
  BY DEF Prefixes
<1>4. Len(dir) = i
  BY <1>2, <1>3, SubSeqProperties, LenProperties
<1>5. PICK j \in 0..i : e = SubSeq(dir, 1, j)
  BY <1>4 DEF Prefixes
<1>6. e = SubSeq(s, 1, j)
  BY <1>2, <1>3, <1>5, PrefijoDePrefijo
<1>7. j \in 0..Len(s)
  BY <1>2, <1>3, <1>5, LenProperties
<1> QED
  BY <1>6, <1>7 DEF Prefixes

LEMMA ClavesTipo ==
  /\ \A k \in Clave, n \in Secuencia : EnPapelera(k, n) \in Clave
  /\ \A u \in Usuario, k \in Clave : ClaveReal(u, k) \in Clave
  /\ \A k \in Clave : [k EXCEPT !.sec = VIVA] \in Clave
BY DEF Clave, EnPapelera, ClaveReal

-----------------------------------------------------------------------------
(* Type correctness *)

LEMMA ConCarpetaTipo ==
  ASSUME TypeOK, NEW dueno \in Usuario, NEW dir \in Carpeta
  PROVE  ConCarpeta(dueno, dir) \in [Usuario -> SUBSET Carpeta]
BY PrefijosDeCarpeta DEF ConCarpeta, TypeOK

LEMMA RenombradasTipo ==
  ASSUME NEW k \in Clave, NEW n \in Version
  PROVE  Renombradas(k, n) \subseteq Version
BY MaxVersionAssumption DEF Renombradas, Version

LEMMA MoverTipo ==
  ASSUME TypeOK, NEW k1 \in Clave, NEW k2 \in Clave, NEW vs \in SUBSET Version
  PROVE  Mover(k1, k2, vs) \in [Clave -> SUBSET Version]
BY DEF Mover, TypeOK

LEMMA MandarTipo ==
  ASSUME TypeOK, NEW K \in SUBSET Clave, NEW S \in SUBSET K,
         NEW sec \in [K -> Secuencia],
         \A k \in S : Viva(k) /\ existeMetadato(k),
         MandarArchivosATrash(S, sec)
  PROVE  /\ meta' \in [Clave -> MetadatoArchivo \cup {NADA}]
         /\ disco' \in [Clave -> SUBSET Version]
         /\ permisos' \in [Usuario -> SUBSET Clave]
<1> DEFINE vs(k) == IF k.dueno \in papelera
                    THEN Renombradas(k, meta[k].ultimaVersion) ELSE {}
           Origen(c)  == [c EXCEPT !.sec = VIVA]
<1>1. \A k \in S : /\ meta[k] \in MetadatoArchivo
                   /\ meta[k].ultimaVersion \in Version
                   /\ [meta[k] EXCEPT !.usuarios = {meta[k].propietario}] \in MetadatoArchivo
  BY DEF TypeOK, existeMetadato, MetadatoArchivo
<1>2. \A k \in S : vs(k) \subseteq Version
  BY <1>1, RenombradasTipo
<1>3. \A c \in Clave : disco[c] \subseteq Version /\ meta[c] \in MetadatoArchivo \cup {NADA}
  BY DEF TypeOK
<1>4. meta' \in [Clave -> MetadatoArchivo \cup {NADA}]
  BY <1>1, <1>3 DEF MandarArchivosATrash
<1>5. disco' \in [Clave -> SUBSET Version]
  <2> HIDE DEF vs
  <2>1. disco' = [c \in Clave |->
           IF c \in S THEN disco[c] \ vs(c)
           ELSE IF ~Viva(c) /\ Origen(c) \in S /\ sec[Origen(c)] = c.sec
                THEN disco[c] \cup vs(Origen(c)) ELSE disco[c]]
    BY DEF MandarArchivosATrash, vs
  <2> QED
    BY <1>2, <1>3, <2>1
<1>6. permisos' \in [Usuario -> SUBSET Clave]
  BY DEF MandarArchivosATrash, TypeOK, PermisosDepurados
<1> QED
  BY <1>4, <1>5, <1>6

LEMMA ContenidoTipo ==
  ASSUME NEW u \in Usuario, NEW dir \in Carpeta
  PROVE  /\ Contenido(u, dir) \subseteq Clave
         /\ \A k \in Contenido(u, dir) :
              Viva(k) /\ existeMetadato(k) /\ Existe(k) /\ k.dueno = u
BY DEF Contenido, Existe

LEMMA MetadatosTipo ==
  ASSUME TypeOK, NEW k \in Clave, existeMetadato(k),
         NEW lista \in SUBSET Usuario, NEW propietario \in Usuario,
         NEW quitados \in SUBSET Usuario
  PROVE  /\ MetadatoEnviado(k, lista, propietario) \in MetadatoArchivo
         /\ MetadatoTras(k, lista) \in MetadatoArchivo
         /\ PermisosTras(k, lista, quitados) \in [Usuario -> SUBSET Clave]
         /\ \A nueva \in Clave : Renombrables(k, nueva) \subseteq Version
         /\ 1..meta[k].ultimaVersion \subseteq Version
<1>1. meta[k] \in MetadatoArchivo /\ meta[k].ultimaVersion \in Version
  BY DEF TypeOK, existeMetadato, MetadatoArchivo
<1>2. ListaFinal(k, lista) \subseteq Usuario /\ Agregados(k, lista) \subseteq Usuario
  BY <1>1 DEF ListaFinal, Agregados, TypeOK, MetadatoArchivo
<1>3. MetadatoEnviado(k, lista, propietario) \in MetadatoArchivo
  BY <1>1, <1>2 DEF MetadatoEnviado, MetadatoArchivo
<1>4. MetadatoTras(k, lista) \in MetadatoArchivo
  BY <1>1, <1>2 DEF MetadatoTras, MetadatoArchivo
<1>5. PermisosTras(k, lista, quitados) \in [Usuario -> SUBSET Clave]
  BY DEF PermisosTras, TypeOK
<1>6. \A nueva \in Clave : Renombrables(k, nueva) \subseteq Version
  BY <1>1, RenombradasTipo DEF Renombrables
<1>7. 1..meta[k].ultimaVersion \subseteq Version
  BY <1>1, MaxVersionAssumption DEF Version
<1> QED
  BY <1>3, <1>4, <1>5, <1>6, <1>7

LEMMA TipoEliminar ==
  ASSUME TypeOK, NEW u \in Usuario, PideEliminar(u)
  PROVE  TypeOK'
<1>1. ASSUME NEW k \in Clave, eliminarArchivo(u, k) PROVE TypeOK'
  <2>1. PICK sec \in [{k} -> Secuencia] : MandarArchivosATrash(Movibles({k}, sec), sec)
    BY <1>1 DEF eliminarArchivo
  <2>2. Movibles({k}, sec) \subseteq {k} /\ Viva(k) /\ existeMetadato(k)
    BY <1>1 DEF Movibles, eliminarArchivo, Existe
  <2>3. /\ meta' \in [Clave -> MetadatoArchivo \cup {NADA}]
        /\ disco' \in [Clave -> SUBSET Version]
        /\ permisos' \in [Usuario -> SUBSET Clave]
    BY <2>1, <2>2, MandarTipo
  <2> QED
    BY <1>1, <2>3 DEF eliminarArchivo, TypeOK
<1>2. ASSUME NEW k \in Clave, eliminarDefinitivamente(u, k) PROVE TypeOK'
  BY <1>2 DEF eliminarDefinitivamente, TypeOK
<1>3. ASSUME NEW k \in Clave, eliminarConOtroPropietario(u, k) PROVE TypeOK'
  BY <1>3 DEF eliminarConOtroPropietario, TypeOK
<1>4. ASSUME NEW dir \in Carpeta, eliminarCarpeta(u, dir) PROVE TypeOK'
  <2> DEFINE K == Contenido(u, dir)
  <2>1. PICK sec \in [K -> Secuencia] : MandarArchivosATrash(Movibles(K, sec), sec)
    BY <1>4 DEF eliminarCarpeta
  <2>2. /\ K \subseteq Clave
        /\ Movibles(K, sec) \subseteq K
        /\ \A k \in Movibles(K, sec) : Viva(k) /\ existeMetadato(k)
    BY ContenidoTipo DEF Movibles
  <2>3. /\ meta' \in [Clave -> MetadatoArchivo \cup {NADA}]
        /\ disco' \in [Clave -> SUBSET Version]
        /\ permisos' \in [Usuario -> SUBSET Clave]
    BY <2>1, <2>2, MandarTipo
  <2>4. carpetas' \in [Usuario -> SUBSET Carpeta]
    BY <1>4 DEF eliminarCarpeta, TypeOK
  <2> QED
    BY <1>4, <2>3, <2>4 DEF eliminarCarpeta, TypeOK
<1>5. ASSUME eliminarPapelera(u) PROVE TypeOK'
  BY <1>5 DEF eliminarPapelera, TypeOK
<1> QED
  BY <1>1, <1>2, <1>3, <1>4, <1>5 DEF PideEliminar

LEMMA TipoMetadatos ==
  ASSUME TypeOK, NEW u \in Usuario, PideMetadatos(u)
  PROVE  TypeOK'
<1> PICK k \in Clave :
      /\ existeMetadato(k)
      /\ \E lista \in SUBSET Usuario, quitados \in SUBSET meta[k].usuarios,
           propietario \in Usuario :
         \/ actualizarPermisos(u, k, lista, propietario, quitados)
         \/ \E nueva \in Clave :
              \/ renombrarArchivo(u, k, lista, propietario, nueva, quitados)
              \/ renombrarFallido(u, k, lista, propietario, nueva, quitados)
              \/ renombrarConDesconocido(u, k, lista, propietario, nueva, quitados)
  BY DEF PideMetadatos
<1> PICK lista \in SUBSET Usuario, quitados \in SUBSET meta[k].usuarios,
         propietario \in Usuario :
         \/ actualizarPermisos(u, k, lista, propietario, quitados)
         \/ \E nueva \in Clave :
              \/ renombrarArchivo(u, k, lista, propietario, nueva, quitados)
              \/ renombrarFallido(u, k, lista, propietario, nueva, quitados)
              \/ renombrarConDesconocido(u, k, lista, propietario, nueva, quitados)
  OBVIOUS
<1>0. quitados \in SUBSET Usuario
  BY DEF TypeOK, existeMetadato, MetadatoArchivo
<1>a. /\ MetadatoEnviado(k, lista, propietario) \in MetadatoArchivo
      /\ MetadatoTras(k, lista) \in MetadatoArchivo
      /\ PermisosTras(k, lista, quitados) \in [Usuario -> SUBSET Clave]
      /\ \A nueva \in Clave : Renombrables(k, nueva) \subseteq Version
      /\ 1..meta[k].ultimaVersion \subseteq Version
  BY <1>0, MetadatosTipo
<1>1. CASE actualizarPermisos(u, k, lista, propietario, quitados)
  <2>1. TrozosTras(k, lista) \subseteq Usuario
    BY DEF TrozosTras, Agregados, TypeOK
  <2> QED
    BY <1>1, <1>a, <2>1 DEF actualizarPermisos, TypeOK
<1>2. ASSUME NEW nueva \in Clave,
             renombrarArchivo(u, k, lista, propietario, nueva, quitados)
      PROVE  TypeOK'
  <2>1. disco' \in [Clave -> SUBSET Version]
    BY <1>2, <1>a, MoverTipo DEF renombrarArchivo
  <2>2. permisos' \in [Usuario -> SUBSET Clave]
    BY <1>2, <1>a DEF renombrarArchivo, PermisosRenombrado
  <2> QED
    BY <1>2, <1>a, <2>1, <2>2 DEF renombrarArchivo, TypeOK, PermisosRenombrado
<1>3. ASSUME NEW nueva \in Clave,
             renombrarFallido(u, k, lista, propietario, nueva, quitados)
      PROVE  TypeOK'
  <2>1. disco' \in [Clave -> SUBSET Version]
    BY <1>3, <1>a, MoverTipo DEF renombrarFallido
  <2> QED
    BY <1>3, <1>a, <2>1 DEF renombrarFallido, TypeOK
<1>4. ASSUME NEW nueva \in Clave,
             renombrarConDesconocido(u, k, lista, propietario, nueva, quitados)
      PROVE  TypeOK'
  <2>1. disco' \in [Clave -> SUBSET Version]
    BY <1>4, <1>a, MoverTipo DEF renombrarConDesconocido
  <2>2. permisos' \in [Usuario -> SUBSET Clave]
    BY <1>4, <1>a DEF renombrarConDesconocido, PermisosRenombrado
  <2> QED
    BY <1>4, <1>a, <2>1, <2>2 DEF renombrarConDesconocido, TypeOK, PermisosRenombrado
<1> QED
  BY <1>1, <1>2, <1>3, <1>4

LEMMA TipoPaso == TypeOK /\ [Next]_vars => TypeOK'
<1> SUFFICES ASSUME TypeOK, [Next]_vars PROVE TypeOK'
  OBVIOUS
<1>1. ASSUME NEW u \in Usuario, crearUsuario(u) PROVE TypeOK'
  <2>1. ConCarpeta(u, <<>>) \in [Usuario -> SUBSET Carpeta]
    BY ConCarpetaTipo DEF Carpeta
  <2> QED
    BY <1>1, <2>1 DEF crearUsuario, TypeOK
<1>2. ASSUME NEW u \in Usuario, NEW d \in Usuario, NEW dir \in Carpeta,
             crearCarpetaSegura(u, d, dir)
      PROVE  TypeOK'
  BY <1>2, ConCarpetaTipo DEF crearCarpetaSegura, TypeOK
<1>3. ASSUME NEW u \in Usuario, NEW k \in Clave, NEW v \in Version,
             NEW force \in BOOLEAN, subirArchivo(u, k, v, force)
      PROVE  TypeOK'
  <2> DEFINE w == VersionSubida(k, v, force)
  <2>1. carpetas' \in [Usuario -> SUBSET Carpeta]
    BY <1>3, ConCarpetaTipo, CarpetaDeEsCarpeta DEF subirArchivo, Clave
  <2>2. disco' \in [Clave -> SUBSET Version]
    BY <1>3 DEF subirArchivo, TypeOK
  <2>3. MetadatoNuevo(k) \in MetadatoArchivo
    BY MaxVersionAssumption DEF MetadatoNuevo, MetadatoArchivo, Version, Clave
  <2>4. meta[k] # NADA => [meta[k] EXCEPT !.ultimaVersion = w] \in MetadatoArchivo
    BY <1>3 DEF subirArchivo, TypeOK, MetadatoArchivo
  <2>5. meta' \in [Clave -> MetadatoArchivo \cup {NADA}]
    BY <1>3, <2>3, <2>4 DEF subirArchivo, TypeOK
  <2> QED
    BY <1>3, <2>1, <2>2, <2>5 DEF subirArchivo, TypeOK
<1>4. ASSUME NEW u \in Usuario, NEW k \in Clave, restaurar(u, k) PROVE TypeOK'
  <2> DEFINE real == ClaveReal(u, k)
             vs == Renombradas(k, meta[k].ultimaVersion)
  <2>1. carpetas' \in [Usuario -> SUBSET Carpeta]
    BY <1>4, ConCarpetaTipo, CarpetaDeEsCarpeta DEF restaurar, Clave
  <2>2. CASE puedoRestaurarA(k, real)
    <3>1. meta[k] \in MetadatoArchivo /\ meta[k].ultimaVersion \in Version
      BY <2>2 DEF puedoRestaurarA, Existe, existeMetadato, TypeOK, MetadatoArchivo
    <3>2. real \in Clave /\ vs \subseteq Version
      BY <3>1, ClavesTipo, RenombradasTipo
    <3>3. disco' \in [Clave -> SUBSET Version]
      BY <1>4, <2>2, <3>2, MoverTipo DEF restaurar
    <3>4. meta' \in [Clave -> MetadatoArchivo \cup {NADA}]
      BY <1>4, <2>2, <3>1, <3>2 DEF restaurar, TypeOK
    <3> QED
      BY <1>4, <2>1, <3>3, <3>4 DEF restaurar, TypeOK
  <2>3. CASE ~puedoRestaurarA(k, real)
    BY <1>4, <2>1, <2>3 DEF restaurar, TypeOK
  <2> QED
    BY <2>2, <2>3
<1>5. ASSUME NEW u \in Usuario, buscarCompartidoInexistente(u) PROVE TypeOK'
  BY <1>5 DEF buscarCompartidoInexistente, TypeOK
<1>6. CASE UNCHANGED vars
  BY <1>6 DEF vars, TypeOK
<1>7. CASE Next
  <2>1. registrados \subseteq Usuario
    BY DEF TypeOK
  <2>2. ASSUME NEW u \in registrados, Pedido(u) PROVE TypeOK'
    BY <2>1, <2>2, <1>2, <1>3, <1>4, <1>5, TipoEliminar, TipoMetadatos DEF Pedido
  <2> QED
    BY <1>1, <1>7, <2>2 DEF Next
<1> QED
  BY <1>6, <1>7

LEMMA TipoInicial == Init => TypeOK
BY DEF Init, TypeOK

\* Every reachable state is well typed, whatever the clients send.
THEOREM TipoCorrecto == Spec => []TypeOK
BY TipoInicial, TipoPaso, PTL DEF Spec

-----------------------------------------------------------------------------
(* The two stores agree.  Their agreement is inductive only together with  *)
(* the facts that keep every trash folder in place: a path with metadata,  *)
(* or in an index, belongs to a registered user, and his trash exists.     *)

DuenosRegistrados ==
  /\ registrados \subseteq papelera
  /\ \A k \in Clave : existeMetadato(k) => k.dueno \in registrados
  /\ \A u \in Usuario : \A k \in permisos[u] : k.dueno \in registrados

InvDisco == TypeOK /\ DuenosRegistrados /\ ConsistenciaHastaCaer

LEMMA VersionesEnDisco ==
  ASSUME TypeOK, Consistencia, NEW k \in Clave, existeMetadato(k)
  PROVE  /\ meta[k] \in MetadatoArchivo
         /\ meta[k].ultimaVersion \in Version
         /\ 1 \in 1..meta[k].ultimaVersion
         /\ disco[k] = 1..meta[k].ultimaVersion
         /\ Renombradas(k, meta[k].ultimaVersion) = 1..meta[k].ultimaVersion
         /\ Existe(k)
<1>1. meta[k] \in MetadatoArchivo /\ meta[k].ultimaVersion \in Version
  BY DEF TypeOK, existeMetadato, MetadatoArchivo
<1>2. meta[k].ultimaVersion \in Nat \ {0}
  BY <1>1, MaxVersionAssumption DEF Version
<1>3. disco[k] = 1..meta[k].ultimaVersion
  BY DEF Consistencia
<1>4. Renombradas(k, meta[k].ultimaVersion) = 1..meta[k].ultimaVersion
  BY <1>2, <1>3 DEF Renombradas
<1> QED
  BY <1>1, <1>2, <1>3, <1>4 DEF Existe, existeArchivo

LEMMA SinMetadatoSinDisco ==
  ASSUME Consistencia, NEW k \in Clave, ~existeMetadato(k)
  PROVE  disco[k] = {}
BY DEF Consistencia

\* A deletion moves each file whole to a key of the trash that was empty.
LEMMA MandarConsistente ==
  ASSUME TypeOK, Consistencia, NEW K \in SUBSET Clave, NEW sec \in [K -> Secuencia],
         \A k \in K : Viva(k) /\ Existe(k) /\ k.dueno \in papelera,
         MandarArchivosATrash(Movibles(K, sec), sec)
  PROVE  Consistencia'
<1> DEFINE S == Movibles(K, sec)
           vs(k) == IF k.dueno \in papelera
                    THEN Renombradas(k, meta[k].ultimaVersion) ELSE {}
           Origen(c) == [c EXCEPT !.sec = VIVA]
           Destino(c) == ~Viva(c) /\ Origen(c) \in S /\ sec[Origen(c)] = c.sec
<1>1. S \subseteq K /\ \A k \in S : existeMetadato(k) /\ Viva(k)
  BY DEF Movibles, Existe
<1>2. \A k \in S : vs(k) = disco[k] /\ disco[k] = 1..meta[k].ultimaVersion
  BY <1>1, VersionesEnDisco
<1>3. \A c \in Clave : Destino(c) => disco[c] = {} /\ c \notin S
  <2> SUFFICES ASSUME NEW c \in Clave, Destino(c) PROVE disco[c] = {} /\ c \notin S
    OBVIOUS
  <2>1. EnPapelera(Origen(c), sec[Origen(c)]) = c
    BY DEF EnPapelera, Clave
  <2>2. ~existeMetadato(c)
    BY <2>1 DEF Movibles
  <2> QED
    BY <1>1, <2>2, SinMetadatoSinDisco
<1>4. meta' = [c \in Clave |->
         IF c \in S THEN NADA
         ELSE IF Destino(c)
              THEN [meta[Origen(c)] EXCEPT !.usuarios = {meta[Origen(c)].propietario}]
              ELSE meta[c]]
  BY DEF MandarArchivosATrash
<1>5. disco' = [c \in Clave |->
         IF c \in S THEN disco[c] \ vs(c)
         ELSE IF Destino(c) THEN disco[c] \cup vs(Origen(c)) ELSE disco[c]]
  BY DEF MandarArchivosATrash
<1> SUFFICES ASSUME NEW c \in Clave
             PROVE  disco'[c] = IF meta'[c] # NADA
                                THEN 1..meta'[c].ultimaVersion ELSE {}
  BY DEF Consistencia, existeMetadato
<1> HIDE DEF vs, S
<1>6. CASE c \in S
  BY <1>2, <1>4, <1>5, <1>6
<1>7. CASE c \notin S /\ Destino(c)
  <2> DEFINE o == Origen(c)
  <2>1. o \in S /\ meta[o] \in MetadatoArchivo
    BY <1>1, <1>7, VersionesEnDisco
  <2>2. meta'[c] = [meta[o] EXCEPT !.usuarios = {meta[o].propietario}]
    BY <1>4, <1>7
  <2>3. meta'[c] \in MetadatoArchivo /\ meta'[c].ultimaVersion = meta[o].ultimaVersion
    BY <2>1, <2>2 DEF MetadatoArchivo
  <2>4. disco'[c] = 1..meta[o].ultimaVersion
    BY <1>2, <1>3, <1>5, <1>7, <2>1
  <2> QED
    BY <2>3, <2>4, NadaAssumption
<1>8. CASE c \notin S /\ ~Destino(c)
  BY <1>4, <1>5, <1>8 DEF Consistencia, existeMetadato
<1> QED
  BY <1>6, <1>7, <1>8

LEMMA MoverConsistente ==
  ASSUME TypeOK, Consistencia, NEW k \in Clave, NEW nueva \in Clave,
         existeMetadato(k), ~existeMetadato(nueva),
         NEW m \in MetadatoArchivo, m.ultimaVersion = meta[k].ultimaVersion,
         disco' = Mover(k, nueva, 1..meta[k].ultimaVersion),
         meta' = [meta EXCEPT ![k] = NADA, ![nueva] = m]
  PROVE  Consistencia'
<1>1. k # nueva
  OBVIOUS
<1>2. disco[k] = 1..meta[k].ultimaVersion /\ disco[nueva] = {}
  BY DEF Consistencia
<1>3. disco'[k] = {} /\ disco'[nueva] = 1..m.ultimaVersion
  BY <1>1, <1>2 DEF Mover, TypeOK
<1>4. meta'[k] = NADA /\ meta'[nueva] = m /\ m # NADA
  BY <1>1, NadaAssumption DEF TypeOK
<1>5. \A c \in Clave \ {k, nueva} : disco'[c] = disco[c] /\ meta'[c] = meta[c]
  BY DEF Mover, TypeOK
<1> QED
  BY <1>3, <1>4, <1>5 DEF Consistencia, existeMetadato

\* A rename is refused before it moves anything, or moves every version.
LEMMA RenombrablesTodas ==
  ASSUME TypeOK, Consistencia, NEW k \in Clave, NEW nueva \in Clave, existeMetadato(k)
  PROVE  /\ Completo(k, nueva) <=> ~existeMetadato(nueva)
         /\ ~Completo(k, nueva) => Renombrables(k, nueva) = {}
<1>1. 1 \in 1..meta[k].ultimaVersion
      /\ Renombradas(k, meta[k].ultimaVersion) = 1..meta[k].ultimaVersion
  BY VersionesEnDisco
<1>2. CASE existeMetadato(nueva)
  BY <1>1, <1>2 DEF Renombrables, Completo
<1>3. CASE ~existeMetadato(nueva)
  BY <1>1, <1>3 DEF Renombrables, Completo
<1> QED
  BY <1>2, <1>3

LEMMA ConsistenciaMetadatos ==
  ASSUME TypeOK, Consistencia, NEW u \in Usuario, PideMetadatos(u)
  PROVE  ConsistenciaHastaCaer'
<1> USE DEF ConsistenciaHastaCaer
<1> PICK k \in Clave :
      /\ existeMetadato(k)
      /\ \E lista \in SUBSET Usuario, quitados \in SUBSET meta[k].usuarios,
           propietario \in Usuario :
         \/ actualizarPermisos(u, k, lista, propietario, quitados)
         \/ \E nueva \in Clave :
              \/ renombrarArchivo(u, k, lista, propietario, nueva, quitados)
              \/ renombrarFallido(u, k, lista, propietario, nueva, quitados)
              \/ renombrarConDesconocido(u, k, lista, propietario, nueva, quitados)
  BY DEF PideMetadatos
<1> PICK lista \in SUBSET Usuario, quitados \in SUBSET meta[k].usuarios,
         propietario \in Usuario :
         \/ actualizarPermisos(u, k, lista, propietario, quitados)
         \/ \E nueva \in Clave :
              \/ renombrarArchivo(u, k, lista, propietario, nueva, quitados)
              \/ renombrarFallido(u, k, lista, propietario, nueva, quitados)
              \/ renombrarConDesconocido(u, k, lista, propietario, nueva, quitados)
  OBVIOUS
<1>0. quitados \in SUBSET Usuario
  BY DEF TypeOK, existeMetadato, MetadatoArchivo
<1> DEFINE m == MetadatoEnviado(k, lista, propietario)
           t == MetadatoTras(k, lista)
<1>a. /\ m \in MetadatoArchivo /\ m.ultimaVersion = meta[k].ultimaVersion
      /\ t \in MetadatoArchivo /\ t.ultimaVersion = meta[k].ultimaVersion
  <2>1. meta[k] \in MetadatoArchivo
    BY VersionesEnDisco
  <2> QED
    BY <1>0, <2>1, MetadatosTipo DEF MetadatoEnviado, MetadatoTras, MetadatoArchivo
<1> HIDE DEF m, t
<1>b. ASSUME NEW x \in {m, t}, meta' = [meta EXCEPT ![k] = x], disco' = disco
      PROVE  Consistencia'
  BY <1>a, <1>b, NadaAssumption DEF Consistencia, existeMetadato, TypeOK
<1>1. CASE actualizarPermisos(u, k, lista, propietario, quitados)
  BY <1>1, <1>b DEF actualizarPermisos, m
<1>2. ASSUME NEW nueva \in Clave,
             renombrarArchivo(u, k, lista, propietario, nueva, quitados)
      PROVE  Consistencia'
  <2>1. ~existeMetadato(nueva)
    BY <1>2, RenombrablesTodas DEF renombrarArchivo
  <2> QED
    BY <1>2, <1>a, <2>1, MoverConsistente DEF renombrarArchivo, m
<1>3. ASSUME NEW nueva \in Clave,
             renombrarFallido(u, k, lista, propietario, nueva, quitados)
      PROVE  Consistencia'
  <2>1. Renombrables(k, nueva) = {}
    BY <1>3, RenombrablesTodas DEF renombrarFallido
  <2>2. disco' = disco
    BY <1>3, <2>1 DEF renombrarFallido, Mover, TypeOK
  <2> QED
    BY <1>3, <1>b, <2>2 DEF renombrarFallido, t
<1>4. ASSUME NEW nueva \in Clave,
             renombrarConDesconocido(u, k, lista, propietario, nueva, quitados)
      PROVE  caido'
  BY <1>4 DEF renombrarConDesconocido
<1> QED
  BY <1>1, <1>2, <1>3, <1>4 DEF NuncaCae

LEMMA ConsistenciaPaso ==
  ASSUME "borra_papelera" \notin Descuidos
  PROVE  InvDisco /\ [Next]_vars => ConsistenciaHastaCaer'
<1> SUFFICES ASSUME InvDisco, [Next]_vars PROVE ConsistenciaHastaCaer'
  OBVIOUS
<1> USE DEF ConsistenciaHastaCaer
<1>1. CASE UNCHANGED vars
  BY <1>1 DEF vars, InvDisco, NuncaCae, Consistencia, existeMetadato
<1> SUFFICES ASSUME Next PROVE ConsistenciaHastaCaer'
  BY <1>1
<1>2. TypeOK /\ Consistencia
  BY DEF Next, InvDisco, NuncaCae
<1>3. ASSUME disco' = disco, meta' = meta PROVE Consistencia'
  BY <1>2, <1>3 DEF Consistencia, existeMetadato
<1>4. ASSUME NEW u \in Usuario, crearUsuario(u) PROVE Consistencia'
  BY <1>3, <1>4 DEF crearUsuario
<1>5. ASSUME NEW u \in registrados, Pedido(u) PROVE ConsistenciaHastaCaer'
  <2>0. u \in Usuario
    BY <1>2 DEF TypeOK
  <2>1. ASSUME NEW d \in Usuario, NEW dir \in Carpeta, crearCarpetaSegura(u, d, dir)
        PROVE  Consistencia'
    BY <1>3, <2>1 DEF crearCarpetaSegura
  <2>2. ASSUME NEW k \in Clave, NEW v \in Version, NEW force \in BOOLEAN,
               subirArchivo(u, k, v, force)
        PROVE  Consistencia'
    <3> DEFINE w == VersionSubida(k, v, force)
    <3>1. w \in Version /\ disco' = [disco EXCEPT ![k] = @ \cup {w}]
          /\ meta' = [meta EXCEPT ![k] = IF @ = NADA THEN MetadatoNuevo(k)
                                         ELSE [@ EXCEPT !.ultimaVersion = w]]
      BY <2>2 DEF subirArchivo
    <3>2. CASE existeMetadato(k)
      <4>1. Existe(k) /\ meta[k] \in MetadatoArchivo /\ meta[k].ultimaVersion \in Version
            /\ disco[k] = 1..meta[k].ultimaVersion
        BY <1>2, <3>2, VersionesEnDisco
      <4>2. w = meta[k].ultimaVersion + 1
        BY <2>2, <4>1 DEF subirArchivo, VersionSubida, esVersionValida
      <4>3. disco'[k] = 1..w
        BY <1>2, <3>1, <4>1, <4>2, MaxVersionAssumption DEF TypeOK, Version
      <4>4. meta'[k] = [meta[k] EXCEPT !.ultimaVersion = w]
        BY <1>2, <3>1, <3>2 DEF TypeOK, existeMetadato
      <4>5. meta'[k] \in MetadatoArchivo /\ meta'[k].ultimaVersion = w
        BY <3>1, <4>1, <4>4 DEF MetadatoArchivo
      <4>6. \A c \in Clave \ {k} : disco'[c] = disco[c] /\ meta'[c] = meta[c]
        BY <1>2, <3>1 DEF TypeOK
      <4> QED
        BY <1>2, <4>3, <4>5, <4>6, NadaAssumption DEF Consistencia, existeMetadato
    <3>3. CASE ~existeMetadato(k)
      <4>1. disco[k] = {} /\ w = 1
        BY <1>2, <3>3, SinMetadatoSinDisco DEF VersionSubida, Existe
      <4>2. disco'[k] = 1..1
        BY <1>2, <3>1, <4>1 DEF TypeOK
      <4>3. meta'[k] = MetadatoNuevo(k)
        BY <1>2, <3>1, <3>3 DEF TypeOK, existeMetadato
      <4>4. meta'[k] \in MetadatoArchivo /\ meta'[k].ultimaVersion = 1
        BY <4>3, MaxVersionAssumption DEF MetadatoNuevo, MetadatoArchivo, Version, Clave
      <4>5. \A c \in Clave \ {k} : disco'[c] = disco[c] /\ meta'[c] = meta[c]
        BY <1>2, <3>1 DEF TypeOK
      <4> QED
        BY <1>2, <4>2, <4>4, <4>5, NadaAssumption DEF Consistencia, existeMetadato
    <3> QED
      BY <3>2, <3>3
  <2>3. ASSUME NEW k \in Clave, eliminarArchivo(u, k) PROVE Consistencia'
    <3>1. PICK sec \in [{k} -> Secuencia] : MandarArchivosATrash(Movibles({k}, sec), sec)
      BY <2>3 DEF eliminarArchivo
    <3>2. Viva(k) /\ Existe(k) /\ k.dueno \in papelera
      BY <2>3 DEF eliminarArchivo, InvDisco, DuenosRegistrados, Existe
    <3> QED
      BY <1>2, <3>1, <3>2, MandarConsistente
  <2>4. ASSUME NEW k \in Clave, eliminarDefinitivamente(u, k) PROVE Consistencia'
    BY <1>2, <2>4 DEF eliminarDefinitivamente, Consistencia, existeMetadato, TypeOK
  <2>5. ASSUME NEW k \in Clave, eliminarConOtroPropietario(u, k) PROVE Consistencia'
    BY <1>3, <2>5 DEF eliminarConOtroPropietario
  <2>6. ASSUME NEW dir \in Carpeta, eliminarCarpeta(u, dir) PROVE Consistencia'
    <3> DEFINE K == Contenido(u, dir)
    <3>1. PICK sec \in [K -> Secuencia] : MandarArchivosATrash(Movibles(K, sec), sec)
      BY <2>6 DEF eliminarCarpeta
    <3>2. K \subseteq Clave /\ \A k \in K : Viva(k) /\ Existe(k) /\ k.dueno \in papelera
      BY <2>0, ContenidoTipo DEF InvDisco, DuenosRegistrados
    <3> QED
      BY <1>2, <3>1, <3>2, MandarConsistente
  <2>7. ~eliminarPapelera(u)
    BY DEF eliminarPapelera
  <2>8. ASSUME NEW k \in Clave, restaurar(u, k) PROVE Consistencia'
    <3> DEFINE real == ClaveReal(u, k)
    <3>1. CASE puedoRestaurarA(k, real)
      <4>1. real \in Clave /\ existeMetadato(k) /\ ~existeMetadato(real)
        BY <2>0, <3>1, ClavesTipo DEF puedoRestaurarA, Existe
      <4>2. Renombradas(k, meta[k].ultimaVersion) = 1..meta[k].ultimaVersion
            /\ meta[k] \in MetadatoArchivo
        BY <1>2, <4>1, VersionesEnDisco
      <4>3. disco' = Mover(k, real, 1..meta[k].ultimaVersion)
            /\ meta' = [meta EXCEPT ![k] = NADA, ![real] = meta[k]]
        BY <2>8, <3>1, <4>2 DEF restaurar
      <4> QED
        BY <1>2, <4>1, <4>2, <4>3, MoverConsistente
    <3>2. CASE ~puedoRestaurarA(k, real)
      BY <1>3, <2>8, <3>2 DEF restaurar
    <3> QED
      BY <3>1, <3>2
  <2>9. ASSUME PideMetadatos(u) PROVE ConsistenciaHastaCaer'
    BY <1>2, <2>0, <2>9, ConsistenciaMetadatos
  <2>10. ASSUME buscarCompartidoInexistente(u) PROVE Consistencia'
    BY <1>3, <2>10 DEF buscarCompartidoInexistente
  <2> QED
    BY <1>5, <2>1, <2>2, <2>3, <2>4, <2>5, <2>6, <2>7, <2>8, <2>9, <2>10
       DEF Pedido, PideEliminar
<1> QED
  BY <1>4, <1>5 DEF Next

\* A deletion leaves metadata only where the drive had them, and adds no path to
\* an index.
LEMMA MandarMismoDueno ==
  ASSUME NEW K \in SUBSET Clave, NEW sec \in [K -> Secuencia], NEW S \in SUBSET K,
         \A k \in S : existeMetadato(k),
         MandarArchivosATrash(S, sec)
  PROVE  /\ \A c \in Clave : existeMetadato(c)' =>
              \E k \in Clave : existeMetadato(k) /\ k.dueno = c.dueno
         /\ \A u \in Usuario : permisos'[u] \subseteq permisos[u]
<1> DEFINE Origen(c) == [c EXCEPT !.sec = VIVA]
<1>1. ASSUME NEW c \in Clave, meta'[c] # NADA
      PROVE  \E k \in Clave : existeMetadato(k) /\ k.dueno = c.dueno
  <2>1. CASE Origen(c) \in S
    <3>1. Origen(c) \in Clave /\ Origen(c).dueno = c.dueno
      BY ClavesTipo DEF Clave
    <3> QED
      BY <2>1, <3>1
  <2>2. CASE Origen(c) \notin S
    BY <1>1, <2>2 DEF MandarArchivosATrash, existeMetadato
  <2> QED
    BY <2>1, <2>2
<1>2. \A u \in Usuario : permisos'[u] \subseteq permisos[u]
  BY DEF MandarArchivosATrash, PermisosDepurados
<1> QED
  BY <1>1, <1>2 DEF existeMetadato

LEMMA DuenosMetadatos ==
  ASSUME TypeOK, DuenosRegistrados, NEW u \in Usuario, PideMetadatos(u)
  PROVE  DuenosRegistrados'
<1> PICK k \in Clave :
      /\ existeMetadato(k)
      /\ \E lista \in SUBSET Usuario, quitados \in SUBSET meta[k].usuarios,
           propietario \in Usuario :
         \/ actualizarPermisos(u, k, lista, propietario, quitados)
         \/ \E nueva \in Clave :
              \/ renombrarArchivo(u, k, lista, propietario, nueva, quitados)
              \/ renombrarFallido(u, k, lista, propietario, nueva, quitados)
              \/ renombrarConDesconocido(u, k, lista, propietario, nueva, quitados)
  BY DEF PideMetadatos
<1> PICK lista \in SUBSET Usuario, quitados \in SUBSET meta[k].usuarios,
         propietario \in Usuario :
         \/ actualizarPermisos(u, k, lista, propietario, quitados)
         \/ \E nueva \in Clave :
              \/ renombrarArchivo(u, k, lista, propietario, nueva, quitados)
              \/ renombrarFallido(u, k, lista, propietario, nueva, quitados)
              \/ renombrarConDesconocido(u, k, lista, propietario, nueva, quitados)
  OBVIOUS
<1> DEFINE tras == PermisosTras(k, lista, quitados)
<1>1. k.dueno \in registrados
  BY DEF DuenosRegistrados
<1>2. \A v \in Usuario : tras[v] \subseteq permisos[v] \cup {k}
  BY DEF PermisosTras
<1> HIDE DEF tras
\* Every alternative touches the metadata and indexes of one folder's keys only.
<1>3. ASSUME NEW nueva \in Clave, nueva.dueno = k.dueno,
             \A c \in Clave \ {k, nueva} : meta'[c] = meta[c],
             \A v \in Usuario : permisos'[v] \subseteq tras[v] \cup {nueva},
             UNCHANGED <<registrados, papelera>>
      PROVE  DuenosRegistrados'
  BY <1>1, <1>2, <1>3 DEF DuenosRegistrados, existeMetadato
<1>4. CASE actualizarPermisos(u, k, lista, propietario, quitados)
  BY <1>3, <1>4 DEF actualizarPermisos, TypeOK, tras
<1>5. ASSUME NEW nueva \in Clave,
             renombrarArchivo(u, k, lista, propietario, nueva, quitados)
      PROVE  DuenosRegistrados'
  BY <1>3, <1>5 DEF renombrarArchivo, TypeOK, MismaCarpeta, tras, PermisosRenombrado
<1>6. ASSUME NEW nueva \in Clave,
             renombrarFallido(u, k, lista, propietario, nueva, quitados)
      PROVE  DuenosRegistrados'
  BY <1>3, <1>6 DEF renombrarFallido, TypeOK, MismaCarpeta, tras
<1>7. ASSUME NEW nueva \in Clave,
             renombrarConDesconocido(u, k, lista, propietario, nueva, quitados)
      PROVE  DuenosRegistrados'
  BY <1>3, <1>7 DEF renombrarConDesconocido, TypeOK, MismaCarpeta, tras, PermisosRenombrado
<1> QED
  BY <1>4, <1>5, <1>6, <1>7

LEMMA DuenosPaso ==
  ASSUME "borra_papelera" \notin Descuidos
  PROVE  TypeOK /\ DuenosRegistrados /\ [Next]_vars => DuenosRegistrados'
<1> SUFFICES ASSUME TypeOK, DuenosRegistrados, [Next]_vars PROVE DuenosRegistrados'
  OBVIOUS
<1>1. CASE UNCHANGED vars
  BY <1>1 DEF vars, DuenosRegistrados, existeMetadato
<1>2. ASSUME NEW u \in Usuario, crearUsuario(u) PROVE DuenosRegistrados'
  BY <1>2 DEF crearUsuario, DuenosRegistrados, existeMetadato
<1>3. ASSUME NEW u \in registrados, Pedido(u) PROVE DuenosRegistrados'
  <2>0. u \in Usuario
    BY DEF TypeOK
  <2>1. ASSUME UNCHANGED <<registrados, papelera, meta, permisos>>
        PROVE  DuenosRegistrados'
    BY <2>1 DEF DuenosRegistrados, existeMetadato
  <2>2. ASSUME NEW d \in Usuario, NEW dir \in Carpeta, crearCarpetaSegura(u, d, dir)
        PROVE  DuenosRegistrados'
    BY <2>1, <2>2 DEF crearCarpetaSegura
  <2>3. ASSUME NEW k \in Clave, NEW v \in Version, NEW force \in BOOLEAN,
               subirArchivo(u, k, v, force)
        PROVE  DuenosRegistrados'
    <3>1. k.dueno \in registrados
      BY <2>0, <2>3 DEF subirArchivo, verificarPermisos, DuenosRegistrados
    <3>2. \A c \in Clave \ {k} : meta'[c] = meta[c]
      BY <2>3 DEF subirArchivo, TypeOK
    <3> QED
      BY <2>3, <3>1, <3>2 DEF subirArchivo, DuenosRegistrados, existeMetadato
  <2>4. ASSUME NEW k \in Clave, eliminarArchivo(u, k) PROVE DuenosRegistrados'
    <3>1. PICK sec \in [{k} -> Secuencia] : MandarArchivosATrash(Movibles({k}, sec), sec)
      BY <2>4 DEF eliminarArchivo
    <3>2. Movibles({k}, sec) \subseteq {k} /\ existeMetadato(k)
      BY <2>4 DEF Movibles, eliminarArchivo, Existe
    <3>3. /\ \A c \in Clave : existeMetadato(c)' =>
               \E o \in Clave : existeMetadato(o) /\ o.dueno = c.dueno
          /\ \A v \in Usuario : permisos'[v] \subseteq permisos[v]
      BY <3>1, <3>2, MandarMismoDueno
    <3> QED
      BY <2>4, <3>3 DEF eliminarArchivo, DuenosRegistrados
  <2>5. ASSUME NEW k \in Clave, eliminarDefinitivamente(u, k) PROVE DuenosRegistrados'
    BY <2>5 DEF eliminarDefinitivamente, DuenosRegistrados, existeMetadato, TypeOK
  <2>6. ASSUME NEW k \in Clave, eliminarConOtroPropietario(u, k)
        PROVE  DuenosRegistrados'
    BY <2>1, <2>6 DEF eliminarConOtroPropietario
  <2>7. ASSUME NEW dir \in Carpeta, eliminarCarpeta(u, dir) PROVE DuenosRegistrados'
    <3> DEFINE K == Contenido(u, dir)
    <3>1. PICK sec \in [K -> Secuencia] : MandarArchivosATrash(Movibles(K, sec), sec)
      BY <2>7 DEF eliminarCarpeta
    <3>2. K \subseteq Clave /\ Movibles(K, sec) \subseteq K
          /\ \A k \in Movibles(K, sec) : existeMetadato(k)
      BY <2>0, ContenidoTipo DEF Movibles
    <3>3. /\ \A c \in Clave : existeMetadato(c)' =>
               \E o \in Clave : existeMetadato(o) /\ o.dueno = c.dueno
          /\ \A v \in Usuario : permisos'[v] \subseteq permisos[v]
      BY <3>1, <3>2, MandarMismoDueno
    <3> QED
      BY <2>7, <3>3 DEF eliminarCarpeta, DuenosRegistrados
  <2>8. ~eliminarPapelera(u)
    BY DEF eliminarPapelera
  <2>9. ASSUME NEW k \in Clave, restaurar(u, k) PROVE DuenosRegistrados'
    <3>1. ClaveReal(u, k).dueno = u
      BY DEF ClaveReal
    <3>2. \A c \in Clave \ {k, ClaveReal(u, k)} : meta'[c] = meta[c]
      BY <2>9 DEF restaurar, TypeOK
    <3>3. k.dueno \in registrados
      BY <2>0, <2>9 DEF restaurar, verificarPermisos, DuenosRegistrados
    <3> QED
      BY <2>9, <3>1, <3>2, <3>3 DEF restaurar, DuenosRegistrados, existeMetadato
  <2>10. ASSUME PideMetadatos(u) PROVE DuenosRegistrados'
    BY <2>0, <2>10, DuenosMetadatos
  <2>11. ASSUME buscarCompartidoInexistente(u) PROVE DuenosRegistrados'
    BY <2>1, <2>11 DEF buscarCompartidoInexistente
  <2> QED
    BY <1>3, <2>2, <2>3, <2>4, <2>5, <2>6, <2>7, <2>8, <2>9, <2>10, <2>11
       DEF Pedido, PideEliminar
<1> QED
  BY <1>1, <1>2, <1>3 DEF Next

\* The databases and the file system agree in every reachable state of a running
\* process, however careless the clients, if no request deletes a trash folder:
\* for any number of users, files, versions and deletions.
THEOREM ConsistenciaCorrecta ==
  ASSUME "borra_papelera" \notin Descuidos
  PROVE  Spec => []ConsistenciaHastaCaer
<1>1. Init => InvDisco
  BY TipoInicial
     DEF Init, InvDisco, DuenosRegistrados, ConsistenciaHastaCaer, Consistencia,
         existeMetadato
<1>2. InvDisco /\ [Next]_vars => InvDisco'
  BY TipoPaso, DuenosPaso, ConsistenciaPaso DEF InvDisco
<1>3. InvDisco => ConsistenciaHastaCaer
  BY DEF InvDisco
<1> QED
  BY <1>1, <1>2, <1>3, PTL DEF Spec

-----------------------------------------------------------------------------
(* The index, the user lists and the owners, when the clients are careful. *)
(* The index is exact because every request that moves a path finds all    *)
(* its guests in the metadata it reads; for that, the owner must stay in   *)
(* the list, guests must be registered, and trash must have no guest.      *)

IndiceTotal ==
  \A u \in Usuario, k \in Clave :
    k \in permisos[u] <=> existeMetadato(k) /\ u \in meta[k].usuarios /\ u # k.dueno

ListasSanas ==
  \A k \in Clave : existeMetadato(k) =>
    /\ meta[k].usuarios \subseteq registrados
    /\ k.dueno \in meta[k].usuarios
    /\ ~Viva(k) => meta[k].usuarios = {k.dueno}

\* No list sent for a file in the trash has broken an index.
SinTrozos == trozos = {}

InvIndice ==
  InvDisco /\ NuncaCae /\ PropietarioCoincide /\ IndiceTotal /\ ListasSanas /\ SinTrozos

\* What a step must keep besides InvDisco.
Indexado == PropietarioCoincide /\ IndiceTotal /\ ListasSanas

LEMMA MandarIndexado ==
  ASSUME TypeOK, Indexado, NEW K \in SUBSET Clave, NEW sec \in [K -> Secuencia],
         \A k \in K : Viva(k) /\ existeMetadato(k) /\ k.dueno \in registrados,
         MandarArchivosATrash(Movibles(K, sec), sec), registrados' = registrados
  PROVE  Indexado'
<1> USE DEF Indexado
<1> DEFINE S == Movibles(K, sec)
           Origen(c) == [c EXCEPT !.sec = VIVA]
           Destino(c) == ~Viva(c) /\ Origen(c) \in S /\ sec[Origen(c)] = c.sec
<1>1. S \subseteq K /\ \A k \in S : Viva(k) /\ existeMetadato(k) /\ k.dueno \in registrados
  BY DEF Movibles
<1>2. meta' = [c \in Clave |->
         IF c \in S THEN NADA
         ELSE IF Destino(c)
              THEN [meta[Origen(c)] EXCEPT !.usuarios = {meta[Origen(c)].propietario}]
              ELSE meta[c]]
  BY DEF MandarArchivosATrash
<1>3. permisos' = [u \in Usuario |-> permisos[u] \
         {k \in S : u \in meta[k].usuarios \ {meta[k].propietario}}]
  BY DEF MandarArchivosATrash, PermisosDepurados
<1>4. ASSUME NEW c \in Clave, Destino(c)
      PROVE  ~existeMetadato(c) /\ Origen(c).dueno = c.dueno /\ Origen(c) \in Clave
  <2>1. EnPapelera(Origen(c), sec[Origen(c)]) = c
    BY <1>4 DEF EnPapelera, Clave
  <2> QED
    BY <1>4, <2>1, ClavesTipo DEF Movibles, Clave
<1> HIDE DEF S
<1>5. ASSUME NEW c \in Clave
      PROVE  /\ c \in S => meta'[c] = NADA /\ \A u \in Usuario : c \notin permisos'[u]
             /\ c \notin S /\ Destino(c) =>
                  /\ meta'[c] # NADA
                  /\ meta'[c].propietario = c.dueno /\ meta'[c].usuarios = {c.dueno}
                  /\ \A u \in Usuario : c \notin permisos'[u]
             /\ c \notin S /\ ~Destino(c) =>
                  /\ meta'[c] = meta[c]
                  /\ \A u \in Usuario : c \in permisos'[u] <=> c \in permisos[u]
  <2>1. ASSUME c \in S PROVE meta'[c] = NADA /\ \A u \in Usuario : c \notin permisos'[u]
    <3>1. meta[c].propietario = c.dueno
      BY <1>1, <2>1 DEF PropietarioCoincide
    <3> QED
      BY <1>2, <1>3, <2>1, <3>1 DEF IndiceTotal
  <2>2. ASSUME c \notin S, Destino(c)
        PROVE  /\ meta'[c] # NADA
               /\ meta'[c].propietario = c.dueno /\ meta'[c].usuarios = {c.dueno}
               /\ \A u \in Usuario : c \notin permisos'[u]
    <3> DEFINE o == Origen(c)
    <3>1. o \in S /\ o \in Clave /\ o.dueno = c.dueno /\ ~existeMetadato(c)
      BY <1>4, <2>2
    <3>2. meta[o] \in MetadatoArchivo /\ meta[o].propietario = c.dueno
      BY <1>1, <3>1 DEF PropietarioCoincide, TypeOK, existeMetadato
    <3>3. meta'[c] = [meta[o] EXCEPT !.usuarios = {meta[o].propietario}]
      BY <1>2, <2>2
    <3>4. /\ meta'[c] \in MetadatoArchivo
          /\ meta'[c].propietario = c.dueno /\ meta'[c].usuarios = {c.dueno}
      BY <3>2, <3>3 DEF MetadatoArchivo
    <3> QED
      BY <1>3, <3>1, <3>4, NadaAssumption DEF IndiceTotal
  <2>3. ASSUME c \notin S, ~Destino(c)
        PROVE  /\ meta'[c] = meta[c]
               /\ \A u \in Usuario : c \in permisos'[u] <=> c \in permisos[u]
    BY <1>2, <1>3, <2>3
  <2> QED
    BY <2>1, <2>2, <2>3
<1>6. \A c \in Clave : Destino(c) => c.dueno \in registrados
  BY <1>1, <1>4
<1>7. \A c \in Clave : Destino(c) => ~Viva(c)
  OBVIOUS
<1> HIDE DEF Destino
<1>8. PropietarioCoincide'
  BY <1>5 DEF PropietarioCoincide, existeMetadato
<1>9. IndiceTotal'
  <2> SUFFICES ASSUME NEW u \in Usuario, NEW c \in Clave
               PROVE  c \in permisos'[u] <=>
                        meta'[c] # NADA /\ u \in meta'[c].usuarios /\ u # c.dueno
    BY DEF IndiceTotal, existeMetadato
  <2>1. CASE c \in S
    BY <1>5, <2>1
  <2>2. CASE c \notin S /\ Destino(c)
    BY <1>5, <2>2
  <2>3. CASE c \notin S /\ ~Destino(c)
    BY <1>5, <2>3 DEF IndiceTotal, existeMetadato
  <2> QED
    BY <2>1, <2>2, <2>3
<1>10. ListasSanas'
  BY <1>5, <1>6, <1>7 DEF ListasSanas, existeMetadato
<1> QED
  BY <1>8, <1>9, <1>10

\* What a careful request to update metadata amounts to.
LEMMA PedidoCuidadoso ==
  ASSUME Descuidos = {}, TypeOK, Indexado, NEW u \in Usuario, NEW k \in Clave,
         NEW lista \in SUBSET Usuario, NEW propietario \in Usuario,
         NEW quitados \in SUBSET meta[k].usuarios, NEW nueva \in Clave,
         PideActualizar(u, k, lista, propietario, nueva, quitados)
  PROVE  /\ Viva(k) /\ existeMetadato(k) /\ propietario = k.dueno
         /\ ListaFinal(k, lista) \subseteq registrados
         /\ k.dueno \in ListaFinal(k, lista)
         /\ \A v \in Usuario, c \in Clave :
              c \in PermisosTras(k, lista, quitados)[v] <=>
                IF c = k THEN v \in ListaFinal(k, lista) /\ v # k.dueno
                         ELSE c \in permisos[v]
         /\ nueva # k => meta[k].usuarios \cup Agregados(k, lista) = ListaFinal(k, lista)
<1> DEFINE L == ListaFinal(k, lista)
           viejos == meta[k].usuarios
<1> USE DEF Indexado
<1>1. /\ existeMetadato(k) /\ Viva(k) /\ propietario = k.dueno
      /\ lista # {} => k.dueno \in lista /\ u \in lista \cup {k.dueno}
      /\ lista \subseteq registrados
      /\ nueva # k => viejos \subseteq L
  BY DEF PideActualizar, Cuidadoso
<1>2. viejos \subseteq registrados /\ k.dueno \in viejos
  BY <1>1 DEF ListasSanas
<1>3. L \subseteq registrados /\ k.dueno \in L
  BY <1>1, <1>2 DEF ListaFinal
<1>4. Agregados(k, lista) = L \ viejos
  BY <1>3 DEF Agregados
<1>5. quitados = viejos \ L
  <2>1. ~(u \in (viejos \ L) \cap registrados /\ u # k.dueno)
    BY <1>1, <1>3 DEF ListaFinal
  <2>2. quitados = (viejos \ L) \cap registrados
    BY <2>1 DEF PideActualizar, Revocados
  <2> QED
    BY <1>2, <2>2
<1>6. ASSUME NEW v \in Usuario, NEW c \in Clave
      PROVE  c \in PermisosTras(k, lista, quitados)[v] <=>
                IF c = k THEN v \in L /\ v # k.dueno ELSE c \in permisos[v]
  <2> HIDE DEF L
  <2>1. k \in permisos[v] <=> v \in viejos /\ v # k.dueno
    BY <1>1 DEF IndiceTotal
  <2> QED
    BY <1>1, <1>2, <1>3, <1>4, <1>5, <2>1 DEF PermisosTras
<1> QED
  BY <1>1, <1>3, <1>4, <1>6

\* Indexado speaks of each path by itself: its metadata and the users whose
\* index has it.
Sana(c) ==
  IF existeMetadato(c)
  THEN /\ meta[c].propietario = c.dueno
       /\ c.dueno \in meta[c].usuarios
       /\ meta[c].usuarios \subseteq registrados
       /\ ~Viva(c) => meta[c].usuarios = {c.dueno}
       /\ \A v \in Usuario : c \in permisos[v] <=> v \in meta[c].usuarios /\ v # c.dueno
  ELSE \A v \in Usuario : c \notin permisos[v]

LEMMA IndexadoSi ==
  ASSUME Indexado, registrados \subseteq registrados',
         NEW k1 \in Clave, NEW k2 \in Clave,
         \A c \in Clave : c # k1 /\ c # k2 =>
            /\ meta'[c] = meta[c]
            /\ \A v \in Usuario : c \in permisos'[v] <=> c \in permisos[v],
         Sana(k1)', Sana(k2)'
  PROVE  Indexado'
<1>1. ASSUME NEW c \in Clave, c # k1, c # k2 PROVE Sana(c)'
  <2>1. Sana(c)
    BY DEF Indexado, PropietarioCoincide, IndiceTotal, ListasSanas, Sana
  <2> QED
    BY <1>1, <2>1 DEF Sana, existeMetadato
<1>2. \A c \in Clave : Sana(c)'
  BY <1>1
<1> QED
  BY <1>2 DEF Indexado, PropietarioCoincide, IndiceTotal, ListasSanas, Sana

LEMMA IndiceMetadatos ==
  ASSUME Descuidos = {}, TypeOK, Consistencia, NuncaCae, Indexado,
         NEW u \in Usuario, PideMetadatos(u)
  PROVE  Indexado' /\ NuncaCae'
<1> PICK k \in Clave :
      /\ existeMetadato(k)
      /\ \E lista \in SUBSET Usuario, quitados \in SUBSET meta[k].usuarios,
           propietario \in Usuario :
         \/ actualizarPermisos(u, k, lista, propietario, quitados)
         \/ \E nueva \in Clave :
              \/ renombrarArchivo(u, k, lista, propietario, nueva, quitados)
              \/ renombrarFallido(u, k, lista, propietario, nueva, quitados)
              \/ renombrarConDesconocido(u, k, lista, propietario, nueva, quitados)
  BY DEF PideMetadatos
<1> PICK lista \in SUBSET Usuario, quitados \in SUBSET meta[k].usuarios,
         propietario \in Usuario :
         \/ actualizarPermisos(u, k, lista, propietario, quitados)
         \/ \E nueva \in Clave :
              \/ renombrarArchivo(u, k, lista, propietario, nueva, quitados)
              \/ renombrarFallido(u, k, lista, propietario, nueva, quitados)
              \/ renombrarConDesconocido(u, k, lista, propietario, nueva, quitados)
  OBVIOUS
<1> DEFINE L == ListaFinal(k, lista)
           m == MetadatoEnviado(k, lista, propietario)
           t == MetadatoTras(k, lista)
           tras == PermisosTras(k, lista, quitados)
<1>a. /\ m \in MetadatoArchivo /\ m.propietario = propietario /\ m.usuarios = L
      /\ t \in MetadatoArchivo /\ t.propietario = meta[k].propietario
      /\ t.usuarios = meta[k].usuarios \cup Agregados(k, lista)
      /\ tras \in [Usuario -> SUBSET Clave]
  <2>1. meta[k] \in MetadatoArchivo /\ quitados \in SUBSET Usuario
    BY VersionesEnDisco DEF MetadatoArchivo
  <2> QED
    BY <2>1, MetadatosTipo DEF MetadatoEnviado, MetadatoTras, MetadatoArchivo
<1>b. ASSUME NEW nueva \in Clave,
             PideActualizar(u, k, lista, propietario, nueva, quitados)
      PROVE  /\ Viva(k) /\ propietario = k.dueno /\ L \subseteq registrados
             /\ k.dueno \in L
             /\ \A v \in Usuario, c \in Clave :
                  c \in tras[v] <=> IF c = k THEN v \in L /\ v # k.dueno
                                             ELSE c \in permisos[v]
             /\ nueva # k => t.usuarios = L
  BY <1>a, <1>b, PedidoCuidadoso
<1> HIDE DEF L, m, t, tras
<1>1. CASE actualizarPermisos(u, k, lista, propietario, quitados)
  <2>1. /\ PideActualizar(u, k, lista, propietario, k, quitados)
        /\ meta' = [meta EXCEPT ![k] = m] /\ permisos' = tras
        /\ registrados' = registrados /\ caido' = caido
    BY <1>1 DEF actualizarPermisos, m, tras
  <2>2. meta'[k] = m /\ m # NADA /\ \A c \in Clave \ {k} : meta'[c] = meta[c]
    BY <1>a, <2>1, NadaAssumption DEF TypeOK
  <2>3. Sana(k)'
    BY <1>a, <1>b, <2>1, <2>2 DEF Sana, existeMetadato
  <2>4. \A c \in Clave : c # k =>
          /\ meta'[c] = meta[c]
          /\ \A v \in Usuario : c \in permisos'[v] <=> c \in permisos[v]
    BY <1>b, <2>1, <2>2
  <2>5. Indexado'
    BY <2>1, <2>3, <2>4, IndexadoSi
  <2> QED
    BY <2>1, <2>5 DEF NuncaCae
<1>2. ASSUME NEW nueva \in Clave,
             renombrarArchivo(u, k, lista, propietario, nueva, quitados)
      PROVE  Indexado' /\ NuncaCae'
  <2>1. /\ PideActualizar(u, k, lista, propietario, nueva, quitados)
        /\ nueva # k /\ MismaCarpeta(k, nueva) /\ Completo(k, nueva)
        /\ meta' = [meta EXCEPT ![k] = NADA, ![nueva] = m]
        /\ permisos' = [v \in Usuario |-> IF v \in L \ {propietario}
                                          THEN (tras[v] \ {k}) \cup {nueva} ELSE tras[v]]
        /\ registrados' = registrados /\ caido' = caido
    BY <1>2 DEF renombrarArchivo, m, tras, L, PermisosRenombrado
  <2>2. ~existeMetadato(nueva) /\ nueva.dueno = k.dueno /\ (Viva(k) => Viva(nueva))
    BY <2>1, RenombrablesTodas DEF MismaCarpeta, Viva
  <2>3. /\ meta'[k] = NADA /\ meta'[nueva] = m /\ m # NADA
        /\ \A c \in Clave \ {k, nueva} : meta'[c] = meta[c]
    BY <1>a, <2>1, NadaAssumption DEF TypeOK
  <2>4. \A v \in Usuario : nueva \notin permisos[v]
    BY <2>2 DEF Indexado, IndiceTotal
  <2>5. ASSUME NEW v \in Usuario
        PROVE  /\ k \notin permisos'[v]
               /\ nueva \in permisos'[v] <=> v \in L /\ v # k.dueno
               /\ \A c \in Clave \ {k, nueva} : c \in permisos'[v] <=> c \in permisos[v]
    BY <1>b, <2>1, <2>4
  <2>6. Sana(k)' /\ Sana(nueva)'
    BY <1>a, <1>b, <2>1, <2>2, <2>3, <2>5 DEF Sana, existeMetadato
  <2>7. \A c \in Clave : c # k /\ c # nueva =>
          /\ meta'[c] = meta[c]
          /\ \A v \in Usuario : c \in permisos'[v] <=> c \in permisos[v]
    BY <2>3, <2>5
  <2>8. Indexado'
    BY <2>1, <2>6, <2>7, IndexadoSi
  <2> QED
    BY <2>1, <2>8 DEF NuncaCae
<1>3. ASSUME NEW nueva \in Clave,
             renombrarFallido(u, k, lista, propietario, nueva, quitados)
      PROVE  Indexado' /\ NuncaCae'
  <2>1. /\ PideActualizar(u, k, lista, propietario, nueva, quitados) /\ nueva # k
        /\ meta' = [meta EXCEPT ![k] = t] /\ permisos' = tras
        /\ registrados' = registrados /\ caido' = caido
    BY <1>3 DEF renombrarFallido, t, tras
  <2>2. meta'[k] = t /\ t # NADA /\ \A c \in Clave \ {k} : meta'[c] = meta[c]
    BY <1>a, <2>1, NadaAssumption DEF TypeOK
  <2>3. t.propietario = k.dueno
    BY <1>a DEF Indexado, PropietarioCoincide
  <2>4. Sana(k)'
    BY <1>b, <2>1, <2>2, <2>3 DEF Sana, existeMetadato
  <2>5. \A c \in Clave : c # k =>
          /\ meta'[c] = meta[c]
          /\ \A v \in Usuario : c \in permisos'[v] <=> c \in permisos[v]
    BY <1>b, <2>1, <2>2
  <2>6. Indexado'
    BY <2>1, <2>4, <2>5, IndexadoSi
  <2> QED
    BY <2>1, <2>6 DEF NuncaCae
<1>4. ASSUME NEW nueva \in Clave,
             renombrarConDesconocido(u, k, lista, propietario, nueva, quitados)
      PROVE  FALSE
  <2>1. PideActualizar(u, k, lista, propietario, nueva, quitados)
        /\ ~(L \ {propietario} \subseteq registrados)
    BY <1>4 DEF renombrarConDesconocido, L
  <2> QED
    BY <1>b, <2>1
<1> QED
  BY <1>1, <1>2, <1>3, <1>4

\* Only a user list for a file in the trash puts pieces of its key in an index.
LEMMA TrozosPaso ==
  ASSUME Descuidos = {}, SinTrozos, [Next]_vars
  PROVE  SinTrozos'
<1>1. ASSUME NEW u, PideMetadatos(u) PROVE UNCHANGED trozos
  <2>1. ASSUME NEW k \in Clave, NEW lista, NEW propietario, NEW quitados,
               actualizarPermisos(u, k, lista, propietario, quitados)
        PROVE  UNCHANGED trozos
    <3>1. Viva(k) /\ trozos' = TrozosTras(k, lista)
      BY <2>1 DEF actualizarPermisos, PideActualizar, Cuidadoso
    <3> QED
      BY <3>1 DEF TrozosTras
  <2>2. ASSUME NEW k, NEW lista, NEW propietario, NEW quitados, NEW nueva,
               \/ renombrarArchivo(u, k, lista, propietario, nueva, quitados)
               \/ renombrarFallido(u, k, lista, propietario, nueva, quitados)
               \/ renombrarConDesconocido(u, k, lista, propietario, nueva, quitados)
        PROVE  UNCHANGED trozos
    BY <2>2 DEF renombrarArchivo, renombrarFallido, renombrarConDesconocido
  <2> QED
    BY <1>1, <2>1, <2>2 DEF PideMetadatos
<1>2. ASSUME NEW u, PideEliminar(u) PROVE UNCHANGED trozos
  BY <1>2 DEF PideEliminar, eliminarArchivo, eliminarDefinitivamente,
              eliminarConOtroPropietario, eliminarCarpeta, eliminarPapelera
<1>3. ASSUME NEW u \in registrados, Pedido(u), ~PideMetadatos(u), ~PideEliminar(u)
      PROVE  UNCHANGED trozos
  BY <1>3 DEF Pedido, crearCarpetaSegura, subirArchivo, restaurar,
              buscarCompartidoInexistente
<1>4. ASSUME NEW u, crearUsuario(u) PROVE UNCHANGED trozos
  BY <1>4 DEF crearUsuario
<1> QED
  BY <1>1, <1>2, <1>3, <1>4 DEF Next, SinTrozos, vars

LEMMA IndicePaso ==
  ASSUME Descuidos = {}
  PROVE  InvIndice /\ [Next]_vars => Indexado' /\ NuncaCae'
<1> SUFFICES ASSUME InvIndice, [Next]_vars PROVE Indexado' /\ NuncaCae'
  OBVIOUS
<1>1. TypeOK /\ DuenosRegistrados /\ Consistencia /\ NuncaCae /\ Indexado /\ SinTrozos
  BY DEF InvIndice, InvDisco, ConsistenciaHastaCaer, Indexado
<1>2. ASSUME meta' = meta, permisos' = permisos, registrados \subseteq registrados'
      PROVE  Indexado'
  BY <1>1, <1>2
     DEF Indexado, PropietarioCoincide, IndiceTotal, ListasSanas, existeMetadato
<1>3. CASE UNCHANGED vars
  BY <1>1, <1>2, <1>3 DEF vars, NuncaCae
<1>4. ASSUME NEW u \in Usuario, crearUsuario(u) PROVE Indexado' /\ NuncaCae'
  BY <1>1, <1>2, <1>4 DEF crearUsuario, NuncaCae
<1>5. ASSUME NEW u \in registrados, Pedido(u) PROVE Indexado' /\ NuncaCae'
  <2>0. u \in Usuario
    BY <1>1 DEF TypeOK
  <2>1. ASSUME NEW d \in Usuario, NEW dir \in Carpeta, crearCarpetaSegura(u, d, dir)
        PROVE  Indexado' /\ NuncaCae'
    BY <1>1, <1>2, <2>1 DEF crearCarpetaSegura, NuncaCae
  <2>2. ASSUME NEW k \in Clave, NEW v \in Version, NEW force \in BOOLEAN,
               subirArchivo(u, k, v, force)
        PROVE  Indexado' /\ NuncaCae'
    <3> DEFINE w == VersionSubida(k, v, force)
    <3>1. /\ meta' = [meta EXCEPT ![k] = IF @ = NADA THEN MetadatoNuevo(k)
                                         ELSE [@ EXCEPT !.ultimaVersion = w]]
          /\ w \in Version /\ Viva(k)
          /\ permisos' = permisos /\ registrados' = registrados /\ caido' = caido
      BY <2>2 DEF subirArchivo, esPathValido
    <3> HIDE DEF w
    <3>2. k.dueno \in registrados
      BY <2>0, <2>2, <1>1 DEF subirArchivo, verificarPermisos, DuenosRegistrados
    <3>3. Sana(k)'
      <4>1. CASE existeMetadato(k)
        <5>1. meta[k] \in MetadatoArchivo /\ Sana(k)
          BY <1>1, <4>1 DEF TypeOK, existeMetadato, Indexado, PropietarioCoincide,
                            IndiceTotal, ListasSanas, Sana
        <5>2. meta'[k] = [meta[k] EXCEPT !.ultimaVersion = w]
          BY <1>1, <3>1, <4>1 DEF TypeOK, existeMetadato
        <5>3. /\ meta'[k] \in MetadatoArchivo
              /\ meta'[k].propietario = meta[k].propietario
              /\ meta'[k].usuarios = meta[k].usuarios
          BY <3>1, <5>1, <5>2 DEF MetadatoArchivo
        <5> QED
          BY <3>1, <4>1, <5>1, <5>3, NadaAssumption DEF Sana, existeMetadato
      <4>2. CASE ~existeMetadato(k)
        <5>1. meta'[k] = MetadatoNuevo(k)
          BY <1>1, <3>1, <4>2 DEF TypeOK, existeMetadato
        <5>2. /\ meta'[k] \in MetadatoArchivo
              /\ meta'[k].propietario = k.dueno /\ meta'[k].usuarios = {k.dueno}
          BY <5>1, MaxVersionAssumption DEF MetadatoNuevo, MetadatoArchivo, Version, Clave
        <5>3. \A x \in Usuario : k \notin permisos'[x]
          BY <1>1, <3>1, <4>2 DEF Indexado, IndiceTotal
        <5> QED
          BY <3>1, <3>2, <5>2, <5>3, NadaAssumption DEF Sana, existeMetadato
      <4> QED
        BY <4>1, <4>2
    <3>4. \A c \in Clave : c # k =>
            /\ meta'[c] = meta[c]
            /\ \A x \in Usuario : c \in permisos'[x] <=> c \in permisos[x]
      BY <1>1, <3>1 DEF TypeOK
    <3>5. Indexado'
      BY <1>1, <3>1, <3>3, <3>4, IndexadoSi
    <3> QED
      BY <1>1, <3>1, <3>5 DEF NuncaCae
  <2>3. ASSUME NEW k \in Clave, eliminarArchivo(u, k) PROVE Indexado' /\ NuncaCae'
    <3>1. PICK sec \in [{k} -> Secuencia] : MandarArchivosATrash(Movibles({k}, sec), sec)
      BY <2>3 DEF eliminarArchivo
    <3>2. /\ Viva(k) /\ existeMetadato(k) /\ k.dueno \in registrados
          /\ registrados' = registrados /\ caido' = caido
      BY <1>1, <2>3 DEF eliminarArchivo, Existe, DuenosRegistrados
    <3>3. Indexado'
      BY <1>1, <3>1, <3>2, MandarIndexado
    <3> QED
      BY <1>1, <3>2, <3>3 DEF NuncaCae
  <2>4. ASSUME NEW k \in Clave, eliminarDefinitivamente(u, k)
        PROVE  Indexado' /\ NuncaCae'
    <3>1. /\ meta' = [meta EXCEPT ![k] = NADA] /\ ~Viva(k) /\ existeMetadato(k)
          /\ permisos' = permisos /\ registrados' = registrados /\ caido' = caido
      BY <2>4 DEF eliminarDefinitivamente, Existe
    <3>2. \A x \in Usuario : k \notin permisos[x]
      BY <1>1, <3>1 DEF Indexado, IndiceTotal, ListasSanas
    <3>3. Sana(k)'
      BY <1>1, <3>1, <3>2 DEF Sana, existeMetadato, TypeOK
    <3>4. \A c \in Clave : c # k =>
            /\ meta'[c] = meta[c]
            /\ \A x \in Usuario : c \in permisos'[x] <=> c \in permisos[x]
      BY <1>1, <3>1 DEF TypeOK
    <3>5. Indexado'
      BY <1>1, <3>1, <3>3, <3>4, IndexadoSi
    <3> QED
      BY <1>1, <3>1, <3>5 DEF NuncaCae
  <2>5. ASSUME NEW k \in Clave PROVE ~eliminarConOtroPropietario(u, k)
    BY <1>1 DEF eliminarConOtroPropietario, Existe, Indexado, PropietarioCoincide
  <2>6. ASSUME NEW dir \in Carpeta, eliminarCarpeta(u, dir)
        PROVE  Indexado' /\ NuncaCae'
    <3> DEFINE K == Contenido(u, dir)
    <3>1. PICK sec \in [K -> Secuencia] : MandarArchivosATrash(Movibles(K, sec), sec)
      BY <2>6 DEF eliminarCarpeta
    <3>2. registrados' = registrados /\ caido' = caido
      BY <2>6 DEF eliminarCarpeta
    <3>3. K \subseteq Clave
          /\ \A k \in K : Viva(k) /\ existeMetadato(k) /\ k.dueno \in registrados
      BY <2>0, ContenidoTipo
    <3> HIDE DEF K
    <3>4. Indexado'
      BY <1>1, <3>1, <3>2, <3>3, MandarIndexado
    <3> QED
      BY <1>1, <3>2, <3>4 DEF NuncaCae
  <2>7. ~eliminarPapelera(u)
    BY DEF eliminarPapelera
  <2>8. ASSUME NEW k \in Clave, restaurar(u, k) PROVE Indexado' /\ NuncaCae'
    <3> DEFINE real == ClaveReal(u, k)
    <3>1. registrados' = registrados /\ caido' = caido /\ permisos' = permisos /\ ~Viva(k)
      BY <2>8 DEF restaurar
    <3>2. CASE puedoRestaurarA(k, real)
      <4>1. real \in Clave /\ existeMetadato(k) /\ ~existeMetadato(real)
        BY <2>0, <3>2, ClavesTipo DEF puedoRestaurarA, Existe
      <4>2. Renombradas(k, meta[k].ultimaVersion) = 1..meta[k].ultimaVersion
        BY <1>1, <4>1, VersionesEnDisco
      <4>3. meta' = [meta EXCEPT ![k] = NADA, ![real] = meta[k]]
        BY <2>8, <3>2, <4>2 DEF restaurar
      <4>4. Sana(k)
        BY <1>1 DEF Indexado, PropietarioCoincide, IndiceTotal, ListasSanas, Sana
      <4>5. meta[k].usuarios = {k.dueno} /\ \A x \in Usuario : k \notin permisos[x]
        BY <3>1, <4>1, <4>4 DEF Sana
      <4>6. u = k.dueno
        BY <2>0, <2>8, <4>5 DEF restaurar, verificarPermisos
      <4>7. \A x \in Usuario : real \notin permisos[x]
        BY <1>1, <4>1 DEF Indexado, IndiceTotal
      <4>8. real.dueno = u /\ Viva(real)
        BY DEF ClaveReal, Viva
      <4> HIDE DEF real
      <4>9. /\ meta'[k] = NADA /\ meta'[real] = meta[k]
            /\ \A c \in Clave : c # k /\ c # real => meta'[c] = meta[c]
        BY <1>1, <4>1, <4>3 DEF TypeOK, existeMetadato
      <4>10. Sana(k)' /\ Sana(real)'
        BY <3>1, <4>1, <4>4, <4>5, <4>6, <4>7, <4>8, <4>9 DEF Sana, existeMetadato
      <4>11. \A c \in Clave : c # k /\ c # real =>
              /\ meta'[c] = meta[c]
              /\ \A x \in Usuario : c \in permisos'[x] <=> c \in permisos[x]
        BY <3>1, <4>9
      <4>12. Indexado'
        BY <1>1, <3>1, <4>1, <4>10, <4>11, IndexadoSi
      <4> QED
        BY <1>1, <3>1, <4>12 DEF NuncaCae
    <3>3. CASE ~puedoRestaurarA(k, real)
      BY <1>1, <1>2, <2>8, <3>1, <3>3 DEF restaurar, NuncaCae
    <3> QED
      BY <3>2, <3>3
  <2>9. ASSUME PideMetadatos(u) PROVE Indexado' /\ NuncaCae'
    BY <1>1, <2>0, <2>9, IndiceMetadatos
  <2>10. ~buscarCompartidoInexistente(u)
    BY <1>1, <2>0
       DEF buscarCompartidoInexistente, Indexado, IndiceTotal, TypeOK, SinTrozos
  <2> QED
    BY <1>5, <2>1, <2>2, <2>3, <2>4, <2>5, <2>6, <2>7, <2>8, <2>9, <2>10
       DEF Pedido, PideEliminar
<1> QED
  BY <1>3, <1>4, <1>5 DEF Next

LEMMA IndiceInductivo ==
  ASSUME Descuidos = {}
  PROVE  Spec => []InvIndice
<1>1. Init => InvIndice
  BY TipoInicial
     DEF Init, InvIndice, InvDisco, DuenosRegistrados, ConsistenciaHastaCaer,
         Consistencia, existeMetadato, NuncaCae, PropietarioCoincide, IndiceTotal,
         ListasSanas, SinTrozos
<1>2. InvIndice /\ [Next]_vars => InvIndice'
  <2>1. "borra_papelera" \notin Descuidos
    OBVIOUS
  <2>2. InvIndice /\ [Next]_vars => InvDisco'
    BY <2>1, TipoPaso, DuenosPaso, ConsistenciaPaso DEF InvIndice, InvDisco
  <2> QED
    BY <2>2, IndicePaso, TrozosPaso DEF InvIndice, Indexado
<1> QED
  BY <1>1, <1>2, PTL DEF Spec

\* If every request is formed as the application forms it, the permission index
\* and the user lists of the metadata name the same guests in every reachable
\* state: for any number of users, files, versions and deletions.
THEOREM IndiceCorrecto ==
  ASSUME Descuidos = {}
  PROVE  Spec => []IndiceExacto
<1>1. InvIndice => IndiceExacto
  BY DEF InvIndice, InvDisco, TypeOK, IndiceTotal, IndiceExacto
<1> QED
  BY <1>1, IndiceInductivo, PTL

\* Under the same assumption every file is owned by the drive that holds it.
THEOREM DuenosCorrectos ==
  ASSUME Descuidos = {}
  PROVE  Spec => []PropietarioCoincide
<1>1. InvIndice => PropietarioCoincide
  BY DEF InvIndice
<1> QED
  BY <1>1, IndiceInductivo, PTL

\* And no sequence of requests reaches the exit on a foreign owner, or a search
\* of a path without metadata: the process never dies.
THEOREM NadieLoCae ==
  ASSUME Descuidos = {}
  PROVE  Spec => []NuncaCae
<1>1. InvIndice => NuncaCae
  BY DEF InvIndice
<1> QED
  BY <1>1, IndiceInductivo, PTL

\* And the databases and the file system agree in every reachable state, with
\* nothing assumed of the process.
THEOREM ConsistenciaSiempre ==
  ASSUME Descuidos = {}
  PROVE  Spec => []Consistencia
<1>1. InvIndice => Consistencia
  BY DEF InvIndice, InvDisco, ConsistenciaHastaCaer
<1> QED
  BY <1>1, IndiceInductivo, PTL

-----------------------------------------------------------------------------
(* Who comes to reach a file, whatever the clients send *)

\* A step in which each path that enters an index has metadata that list the user, or
\* is the old path of a file of his.
AccesoPaths ==
  \A u \in Usuario, k \in Clave :
    k \in permisos'[u] \ permisos[u] =>
      \E c \in Clave : /\ existeMetadato(c)' /\ u \in meta[c]'.usuarios
                       /\ c = k \/ (MismaCarpeta(c, k) /\ meta[c]'.propietario = u)

\* The same for the pieces of a trash's key.
AccesoTrozos ==
  \A u \in trozos' \ trozos :
    \E c \in Clave : ~Viva(c) /\ existeMetadato(c)' /\ u \in meta[c]'.usuarios

Acceso == ~caido' => AccesoPaths /\ AccesoTrozos

\* In a step that puts no path in an index there is nothing to show.
LEMMA NadieEntra ==
  ASSUME \A u \in Usuario : permisos'[u] \subseteq permisos[u], UNCHANGED trozos
  PROVE  Acceso
BY DEF Acceso, AccesoPaths, AccesoTrozos

LEMMA AccesoMetadatos ==
  ASSUME TypeOK, NEW u \in Usuario, PideMetadatos(u)
  PROVE  Acceso
<1> PICK k \in Clave :
      /\ existeMetadato(k)
      /\ \E lista \in SUBSET Usuario, quitados \in SUBSET meta[k].usuarios,
           propietario \in Usuario :
         \/ actualizarPermisos(u, k, lista, propietario, quitados)
         \/ \E nueva \in Clave :
              \/ renombrarArchivo(u, k, lista, propietario, nueva, quitados)
              \/ renombrarFallido(u, k, lista, propietario, nueva, quitados)
              \/ renombrarConDesconocido(u, k, lista, propietario, nueva, quitados)
  BY DEF PideMetadatos
<1> PICK lista \in SUBSET Usuario, quitados \in SUBSET meta[k].usuarios,
         propietario \in Usuario :
         \/ actualizarPermisos(u, k, lista, propietario, quitados)
         \/ \E nueva \in Clave :
              \/ renombrarArchivo(u, k, lista, propietario, nueva, quitados)
              \/ renombrarFallido(u, k, lista, propietario, nueva, quitados)
              \/ renombrarConDesconocido(u, k, lista, propietario, nueva, quitados)
  OBVIOUS
<1> DEFINE E == MetadatoEnviado(k, lista, propietario)
           T == MetadatoTras(k, lista)
           tras == PermisosTras(k, lista, quitados)
<1>0. /\ quitados \in SUBSET Usuario
      /\ meta[k] \in MetadatoArchivo
  BY DEF TypeOK, existeMetadato, MetadatoArchivo
<1>1. E # NADA /\ T # NADA
  BY <1>0, MetadatosTipo, NadaAssumption
<1>2. E.usuarios = ListaFinal(k, lista) /\ Agregados(k, lista) \subseteq T.usuarios
  BY <1>0 DEF MetadatoEnviado, MetadatoTras, MetadatoArchivo
<1>3. Agregados(k, lista) \subseteq ListaFinal(k, lista)
  BY DEF Agregados
\* The loops that grant and revoke put only k in an index, and only in those of the
\* users who are added.
<1>4. \A g \in Usuario : \A c \in tras[g] \ permisos[g] : c = k /\ g \in Agregados(k, lista)
  BY DEF PermisosTras
<1>5. E.propietario = propietario
  BY DEF MetadatoEnviado
<1>6. meta \in [Clave -> MetadatoArchivo \cup {NADA}]
  BY DEF TypeOK
<1> HIDE DEF E, T, tras
<1>7. CASE actualizarPermisos(u, k, lista, propietario, quitados)
  <2>1. /\ permisos' = tras /\ meta' = [meta EXCEPT ![k] = E]
        /\ trozos' = TrozosTras(k, lista)
    BY <1>7 DEF actualizarPermisos, tras, E
  <2>2. meta'[k] = E
    BY <1>6, <2>1
  <2>3. AccesoPaths
    BY <1>1, <1>2, <1>3, <1>4, <2>1, <2>2 DEF AccesoPaths, existeMetadato
  \* Only a user whom the list adds to a file of the trash gets pieces of its key.
  <2>4. \A g \in trozos' \ trozos : ~Viva(k) /\ g \in Agregados(k, lista)
    BY <2>1 DEF TrozosTras
  <2>5. AccesoTrozos
    BY <1>1, <1>2, <1>3, <2>2, <2>4 DEF AccesoTrozos, existeMetadato
  <2> QED
    BY <2>3, <2>5 DEF Acceso
<1>8. ASSUME NEW nueva \in Clave,
             renombrarArchivo(u, k, lista, propietario, nueva, quitados)
      PROVE  Acceso
  <2> DEFINE otros == ListaFinal(k, lista) \ {propietario}
  <2>1. /\ permisos' = PermisosRenombrado(otros, tras, k, nueva)
        /\ meta' = [meta EXCEPT ![k] = NADA, ![nueva] = E]
        /\ MismaCarpeta(k, nueva) /\ UNCHANGED trozos
    BY <1>8 DEF renombrarArchivo, tras, E
  <2>2. meta'[nueva] = E
    BY <1>6, <2>1
  <2>3. MismaCarpeta(nueva, k)
    BY <2>1 DEF MismaCarpeta
  \* Who is listed gets the new path for the old one; but the owner named keeps the old
  \* one, if the loop had just granted it to him.
  <2>4. \A g \in Usuario : \A c \in permisos'[g] \ permisos[g] :
          g \in ListaFinal(k, lista) /\ (c = nueva \/ (c = k /\ g = propietario))
    BY <1>3, <1>4, <2>1 DEF PermisosRenombrado
  <2>5. existeMetadato(nueva)' /\ \A g \in ListaFinal(k, lista) : g \in meta[nueva]'.usuarios
    BY <1>1, <1>2, <2>2 DEF existeMetadato
  <2>6. AccesoPaths
    BY <1>5, <2>2, <2>3, <2>4, <2>5 DEF AccesoPaths
  <2> QED
    BY <2>1, <2>6 DEF Acceso, AccesoTrozos
<1>9. ASSUME NEW nueva \in Clave,
             renombrarFallido(u, k, lista, propietario, nueva, quitados)
      PROVE  Acceso
  <2>1. permisos' = tras /\ meta' = [meta EXCEPT ![k] = T] /\ UNCHANGED trozos
    BY <1>9 DEF renombrarFallido, tras, T
  <2>2. meta'[k] = T
    BY <1>6, <2>1
  <2> QED
    BY <1>1, <1>2, <1>4, <2>1, <2>2 DEF Acceso, AccesoPaths, AccesoTrozos, existeMetadato
<1>10. ASSUME NEW nueva \in Clave,
              renombrarConDesconocido(u, k, lista, propietario, nueva, quitados)
       PROVE  Acceso
  BY <1>10 DEF renombrarConDesconocido, Acceso
<1> QED
  BY <1>7, <1>8, <1>9, <1>10

LEMMA AccesoPaso == TypeOK /\ [Next]_vars => [Acceso]_vars
<1> SUFFICES ASSUME TypeOK, Next PROVE Acceso
  OBVIOUS
<1>1. ASSUME UNCHANGED <<permisos, trozos>> PROVE Acceso
  BY <1>1, NadieEntra
<1>2. ASSUME NEW u \in Usuario, crearUsuario(u) PROVE Acceso
  BY <1>1, <1>2 DEF crearUsuario
<1>3. ASSUME NEW u \in registrados, Pedido(u) PROVE Acceso
  <2>0. u \in Usuario
    BY DEF TypeOK
  <2>1. ASSUME NEW d \in Usuario, NEW dir \in Carpeta, crearCarpetaSegura(u, d, dir)
        PROVE  Acceso
    BY <1>1, <2>1 DEF crearCarpetaSegura
  <2>2. ASSUME NEW k \in Clave, NEW v \in Version, NEW force \in BOOLEAN,
               subirArchivo(u, k, v, force)
        PROVE  Acceso
    BY <1>1, <2>2 DEF subirArchivo
  \* A deletion only takes paths out of the indices.
  <2>3. ASSUME \E S : permisos' = PermisosDepurados(S), UNCHANGED trozos PROVE Acceso
    <3>1. \A w \in Usuario : permisos'[w] \subseteq permisos[w]
      BY <2>3 DEF PermisosDepurados
    <3> QED
      BY <2>3, <3>1, NadieEntra
  <2>4. CASE PideEliminar(u)
    <3>1. ASSUME NEW k \in Clave, eliminarArchivo(u, k) PROVE Acceso
      BY <2>3, <3>1 DEF eliminarArchivo, MandarArchivosATrash
    <3>2. ASSUME NEW k \in Clave,
                 eliminarDefinitivamente(u, k) \/ eliminarConOtroPropietario(u, k)
          PROVE  Acceso
      BY <1>1, <3>2 DEF eliminarDefinitivamente, eliminarConOtroPropietario
    <3>3. ASSUME NEW dir \in Carpeta, eliminarCarpeta(u, dir) PROVE Acceso
      BY <2>3, <3>3 DEF eliminarCarpeta, MandarArchivosATrash
    <3>4. CASE eliminarPapelera(u)
      BY <1>1, <3>4 DEF eliminarPapelera
    <3> QED
      BY <2>4, <3>1, <3>2, <3>3, <3>4 DEF PideEliminar
  <2>5. ASSUME NEW k \in Clave, restaurar(u, k) PROVE Acceso
    BY <1>1, <2>5 DEF restaurar
  <2>6. CASE PideMetadatos(u)
    BY <2>0, <2>6, AccesoMetadatos
  <2>7. CASE buscarCompartidoInexistente(u)
    BY <1>1, <2>7 DEF buscarCompartidoInexistente
  <2> QED
    BY <1>3, <2>1, <2>2, <2>4, <2>5, <2>6, <2>7 DEF Pedido
<1> QED
  BY <1>2, <1>3 DEF Next

\* However careless the clients, a request puts a path in a user's index only where it
\* leaves him listed in the metadata under that path, or renames his file away from it,
\* unless it ends the process: agregarPermiso and the renaming write both.  The pieces
\* into which the key of a file in the trash falls enter it only where that file's
\* metadata list him.
THEOREM AccesoSiempre == Spec => AccesoListado
<1>1. Acceso <=>
        (~caido' =>
           /\ \A u \in Usuario, k \in Clave :
                k \in permisos'[u] \ permisos[u] =>
                  \E c \in Clave :
                    /\ existeMetadato(c)' /\ u \in meta[c]'.usuarios
                    /\ c = k \/ (MismaCarpeta(c, k) /\ meta[c]'.propietario = u)
           /\ \A u \in trozos' \ trozos :
                \E c \in Clave : /\ ~Viva(c) /\ existeMetadato(c)'
                                 /\ u \in meta[c]'.usuarios)
  BY DEF Acceso, AccesoPaths, AccesoTrozos
<1> QED
  BY <1>1, AccesoPaso, TipoCorrecto, PTL DEF Spec, AccesoListado
=============================================================================
