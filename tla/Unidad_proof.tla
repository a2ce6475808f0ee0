---------------------------- MODULE Unidad_proof ----------------------------
(***************************************************************************)
(* Archivos implements Unidad when the clients are careful, for every set  *)
(* of users, paths and bounds.  The mapping shows the disk and the index;  *)
(* InvIndice says what the metadata, which stay hidden, have to do with    *)
(* them, so each request finds in the metadata what Unidad finds in the    *)
(* disk and the index.                                                     *)
(***************************************************************************)
EXTENDS Archivos_proof

\* Unidad and Archivos name the keys alike.
LEMMA MismasClaves ==
  /\ U!Clave = Clave /\ U!Version = Version /\ U!Secuencia = Secuencia
  /\ \A k : U!Viva(k) <=> Viva(k)
  /\ \A k, n : U!EnPapelera(k, n) = EnPapelera(k, n)
  /\ \A u, k : U!ClaveReal(u, k) = ClaveReal(u, k)
  /\ \A k, c : U!MismaCarpeta(k, c) <=> MismaCarpeta(k, c)
<1>1. U!VIVA = VIVA /\ U!Secuencia = Secuencia /\ U!Version = Version
  BY DEF U!VIVA, VIVA, U!Secuencia, Secuencia, U!Version, Version
<1>2. U!Clave = Clave
  BY <1>1 DEF U!Clave, Clave
<1>3. /\ \A k : U!Viva(k) <=> Viva(k)
      /\ \A k, n : U!EnPapelera(k, n) = EnPapelera(k, n)
      /\ \A u, k : U!ClaveReal(u, k) = ClaveReal(u, k)
  BY <1>1 DEF U!Viva, Viva, U!EnPapelera, EnPapelera, U!ClaveReal, ClaveReal
<1>4. \A k, c : U!MismaCarpeta(k, c) <=> MismaCarpeta(k, c)
  BY DEF U!MismaCarpeta, MismaCarpeta, U!CarpetaDe, CarpetaDe
<1> QED
  BY <1>1, <1>2, <1>3, <1>4

Inv == TypeOK /\ DuenosRegistrados /\ Consistencia /\ Indexado

\* What Unidad asks of a path, said of its metadata.
LEMMA Traduccion ==
  ASSUME Inv, NEW k \in Clave
  PROVE  /\ U!Hay(k) <=> existeMetadato(k)
         /\ ~existeMetadato(k) => U!Libre(k)
         /\ \A u \in Usuario : verificarPermisos(u, k) => U!Alcanza(u, k)
         /\ existeMetadato(k) => Lectores[k] = meta[k].usuarios \ {k.dueno}
         /\ ~Viva(k) => Lectores[k] = {}
<1>1. Lectores[k] = {u \in Usuario : k \in permisos[u]}
  BY DEF Lectores
<1>2. existeMetadato(k) => disco[k] # {}
  BY VersionesEnDisco DEF Inv
<1>3. ~existeMetadato(k) => disco[k] = {} /\ Lectores[k] = {}
  BY <1>1, SinMetadatoSinDisco DEF Inv, Indexado, IndiceTotal
<1>4. existeMetadato(k) => Lectores[k] = meta[k].usuarios \ {k.dueno}
  <2> SUFFICES ASSUME existeMetadato(k) PROVE Lectores[k] = meta[k].usuarios \ {k.dueno}
    OBVIOUS
  <2>1. meta[k].usuarios \subseteq Usuario
    BY VersionesEnDisco DEF Inv, MetadatoArchivo
  <2> QED
    BY <1>1, <2>1 DEF Inv, Indexado, IndiceTotal
<1>5. ~Viva(k) => Lectores[k] = {}
  BY <1>3, <1>4 DEF Inv, Indexado, ListasSanas
<1> QED
  BY <1>1, <1>2, <1>3, <1>4, <1>5 DEF U!Hay, U!Libre, U!Alcanza, verificarPermisos

\* A request that leaves the disk, the index and the users alone does not show.
LEMMA NoSeVe ==
  ASSUME UNCHANGED <<registrados, disco, permisos>>
  PROVE  UNCHANGED U!vars
BY DEF U!vars, Lectores

\* A file that moves whole to a path without metadata.
LEMMA PasaEntero ==
  ASSUME Inv, TypeOK', NEW k \in Clave, NEW c \in Clave,
         existeMetadato(k), ~existeMetadato(c), NEW L \in SUBSET Usuario,
         disco' = Mover(k, c, 1..meta[k].ultimaVersion),
         \A u \in Usuario :
           /\ k \notin permisos'[u]
           /\ c \in permisos'[u] <=> u \in L
           /\ \A x \in Clave \ {k, c} : x \in permisos'[u] <=> x \in permisos[u],
         registrados' = registrados
  PROVE  U!Pasa(k, c, L)
<1>1. disco[k] = 1..meta[k].ultimaVersion /\ disco[c] = {} /\ k # c
  BY VersionesEnDisco, SinMetadatoSinDisco DEF Inv
<1>2. disco' = [disco EXCEPT ![k] = {}, ![c] = disco[k]]
  <2>1. disco[k] \ (1..meta[k].ultimaVersion) = {}
        /\ disco[c] \cup 1..meta[k].ultimaVersion = disco[k]
    BY <1>1
  <2> QED
    BY <2>1 DEF Mover
<1>3. Lectores' = [Lectores EXCEPT ![k] = {}, ![c] = L]
  <2>1. \A x \in Clave : Lectores'[x] = {u \in Usuario : x \in permisos'[u]}
    BY DEF Lectores
  <2>2. Lectores'[k] = {} /\ Lectores'[c] = L
    BY <2>1
  <2>3. \A x \in Clave \ {k, c} : Lectores'[x] = Lectores[x]
    BY <2>1 DEF Lectores
  <2>4. Lectores' = [x \in Clave |-> Lectores'[x]] /\ Lectores = [x \in Clave |-> Lectores[x]]
    BY DEF Lectores
  <2> HIDE DEF Lectores
  <2> QED
    BY <1>1, <2>2, <2>3, <2>4
<1>4. U!Libre(c)
  BY Traduccion
<1> QED
  BY <1>2, <1>3, <1>4 DEF U!Pasa

\* Files sent to the trash, whatever request sends them.
LEMMA MandarBorra ==
  ASSUME Inv, TypeOK', NEW u \in Usuario, NEW K \in SUBSET Clave,
         NEW sec \in [K -> Secuencia],
         \A k \in K : Viva(k) /\ Existe(k) /\ verificarPermisos(u, k),
         MandarArchivosATrash(Movibles(K, sec), sec), registrados' = registrados
  PROVE  \E S \in SUBSET {k \in Clave : Viva(k) /\ U!Hay(k)} : U!Borrar(u, S)
<1> DEFINE S == Movibles(K, sec)
           vs(k) == IF k.dueno \in papelera
                    THEN Renombradas(k, meta[k].ultimaVersion) ELSE {}
           Origen(c) == [c EXCEPT !.sec = VIVA]
           Destino(c) == ~Viva(c) /\ Origen(c) \in S /\ sec[Origen(c)] = c.sec
           sec2 == [k \in S |-> sec[k]]
<1>1. /\ S \subseteq K
      /\ \A k \in S : /\ k \in Clave /\ Viva(k) /\ existeMetadato(k)
                      /\ verificarPermisos(u, k)
                      /\ ~existeMetadato(EnPapelera(k, sec[k]))
  BY DEF Movibles, Existe
<1>2. \A k \in S : k.dueno \in papelera /\ vs(k) = disco[k]
  BY <1>1, VersionesEnDisco DEF Inv, DuenosRegistrados
<1>3. disco' = [c \in Clave |->
         IF c \in S THEN disco[c] \ vs(c)
         ELSE IF Destino(c) THEN disco[c] \cup vs(Origen(c)) ELSE disco[c]]
  BY DEF MandarArchivosATrash
<1>4. permisos' = [v \in Usuario |-> permisos[v] \
         {k \in S : v \in meta[k].usuarios \ {meta[k].propietario}}]
  BY DEF MandarArchivosATrash, PermisosDepurados
<1>5. \A k \in S : sec[k] \in Secuencia
  BY <1>1
<1> HIDE DEF S
<1>6. \A c \in Clave : Destino(c) <=> ~Viva(c) /\ \E k \in S : c = EnPapelera(k, sec2[k])
  <2>1. \A c \in Clave : EnPapelera(Origen(c), c.sec) = c
    BY DEF EnPapelera, Clave
  <2>2. ASSUME NEW c \in Clave, NEW k \in S, c = EnPapelera(k, sec[k])
        PROVE  Origen(c) = k /\ c.sec = sec[k]
    BY <1>1, <2>2 DEF EnPapelera, Clave, Viva
  <2> QED
    BY <2>1, <2>2
<1>7. \A c \in Clave : Destino(c) => disco[c] = {} /\ Origen(c) \in S
  <2> SUFFICES ASSUME NEW c \in Clave, Destino(c) PROVE disco[c] = {}
    OBVIOUS
  <2>1. EnPapelera(Origen(c), sec[Origen(c)]) = c
    BY DEF EnPapelera, Clave
  <2>2. ~existeMetadato(c)
    BY <1>1, <2>1
  <2> QED
    BY <2>2, SinMetadatoSinDisco DEF Inv
<1>8. Lectores' = [c \in Clave |-> IF c \in S THEN {} ELSE Lectores[c]]
  <2>1. ASSUME NEW c \in Clave, c \in S PROVE Lectores'[c] = {}
    <3>1. meta[c].propietario = c.dueno /\ Lectores[c] = meta[c].usuarios \ {c.dueno}
      BY <1>1, <2>1, Traduccion DEF Inv, Indexado, PropietarioCoincide
    <3> QED
      BY <1>4, <2>1, <3>1 DEF Lectores
  <2>2. ASSUME NEW c \in Clave, c \notin S PROVE Lectores'[c] = Lectores[c]
    BY <1>4, <2>2 DEF Lectores
  <2>3. Lectores' = [c \in Clave |-> Lectores'[c]]
    BY DEF Lectores
  <2> HIDE DEF Lectores
  <2> QED
    BY <2>1, <2>2, <2>3
<1>9. disco' = [c \in Clave |-> IF c \in S THEN {}
                  ELSE IF Destino(c) THEN disco[Origen(c)] ELSE disco[c]]
  <2> HIDE DEF Destino, Origen, vs
  <2> QED
    BY <1>2, <1>3, <1>7
<1>10. \A k \in S : U!Alcanza(u, k) /\ U!Hay(k) /\ U!Libre(EnPapelera(k, sec2[k]))
  <2> SUFFICES ASSUME NEW k \in S
               PROVE  U!Alcanza(u, k) /\ U!Hay(k) /\ U!Libre(EnPapelera(k, sec[k]))
    OBVIOUS
  <2>1. k \in Clave /\ EnPapelera(k, sec[k]) \in Clave
    BY <1>1, <1>5, ClavesTipo
  <2> QED
    BY <1>1, <2>1, Traduccion
<1>11. U!Borrar(u, S)
  <2> DEFINE D(c) == ~Viva(c) /\ \E k \in S : c = EnPapelera(k, sec2[k])
  <2>1. sec2 \in [S -> U!Secuencia]
    BY <1>5, MismasClaves
  <2>2. disco' = [c \in Clave |-> IF c \in S THEN {}
                    ELSE IF ~U!Viva(c) /\ \E k \in S : c = U!EnPapelera(k, sec2[k])
                         THEN disco[[c EXCEPT !.sec = U!VIVA]] ELSE disco[c]]
    <3>1. \A c \in Clave : Destino(c) <=>
             ~U!Viva(c) /\ \E k \in S : c = U!EnPapelera(k, sec2[k])
      BY <1>6, MismasClaves
    <3>2. \A c \in Clave : Origen(c) = [c EXCEPT !.sec = U!VIVA]
      BY DEF VIVA, U!VIVA
    <3> HIDE DEF Destino, Origen, sec2
    <3> QED
      BY <1>9, <3>1, <3>2
  <2>3. \A k \in S : U!Libre(U!EnPapelera(k, sec2[k]))
    BY <1>10, MismasClaves
  <2> HIDE DEF sec2
  <2> QED
    BY <1>8, <1>10, <2>1, <2>2, <2>3, MismasClaves DEF U!Borrar
<1> QED
  BY <1>1, <1>10, <1>11

\* A careful update of the metadata is a Compartir, a Renombrar, or does not show.
LEMMA MetadatosPaso ==
  ASSUME Descuidos = {}, Inv, TypeOK', NuncaCae, NEW u \in registrados,
         PideMetadatos(u)
  PROVE  U!Next
<1>0. u \in Usuario /\ TypeOK /\ Consistencia /\ Indexado
  BY DEF Inv, TypeOK
<1> PICK k \in Clave :
      /\ existeMetadato(k)
      /\ \E lista \in SUBSET Usuario, quitados \in SUBSET meta[k].usuarios,
           propietario \in Usuario :
         \/ actualizarPermisos(u, k, lista, propietario, quitados)
         \/ \E nueva \in Clave :
              \/ renombrarArchivo(u, k, lista, propietario, nueva, quitados)
              \/ renombrarFallido(u, k, lista, propietario, nueva, quitados)
              \/ renombrarConDesconocido(u, k, lista, propietario, nueva, quitados)
  BY DEF PideMetadatos
<1> PICK lista \in SUBSET Usuario, quitados \in SUBSET meta[k].usuarios,
         propietario \in Usuario :
         \/ actualizarPermisos(u, k, lista, propietario, quitados)
         \/ \E nueva \in Clave :
              \/ renombrarArchivo(u, k, lista, propietario, nueva, quitados)
              \/ renombrarFallido(u, k, lista, propietario, nueva, quitados)
              \/ renombrarConDesconocido(u, k, lista, propietario, nueva, quitados)
  OBVIOUS
<1> DEFINE L == ListaFinal(k, lista)
           G == L \ {k.dueno}
           tras == PermisosTras(k, lista, quitados)
<1>1. ASSUME NEW nueva \in Clave,
             PideActualizar(u, k, lista, propietario, nueva, quitados)
      PROVE  /\ Viva(k) /\ verificarPermisos(u, k) /\ propietario = k.dueno
             /\ L \subseteq registrados
             /\ \A v \in Usuario, c \in Clave :
                  c \in tras[v] <=> IF c = k THEN v \in G ELSE c \in permisos[v]
  <2>1. verificarPermisos(u, k)
    BY <1>1 DEF PideActualizar
  <2>2. /\ Viva(k) /\ propietario = k.dueno /\ L \subseteq registrados
        /\ \A v \in Usuario, c \in Clave :
             c \in tras[v] <=> IF c = k THEN v \in L /\ v # k.dueno ELSE c \in permisos[v]
    BY <1>0, <1>1, PedidoCuidadoso
  <2> HIDE DEF L, tras
  <2>3. ASSUME NEW v \in Usuario PROVE v \in G <=> v \in L /\ v # k.dueno
    OBVIOUS
  <2> HIDE DEF G
  <2> QED
    BY <2>1, <2>2, <2>3
<1>2. G \in SUBSET Usuario
  <2>1. meta[k].usuarios \subseteq Usuario
    BY <1>0, VersionesEnDisco DEF MetadatoArchivo
  <2> QED
    BY <2>1 DEF ListaFinal
<1>3. U!Hay(k)
  BY Traduccion
<1>tras. tras \in [Usuario -> SUBSET Clave]
  <2>1. quitados \in SUBSET Usuario
    BY <1>0, VersionesEnDisco DEF MetadatoArchivo
  <2> QED
    BY <1>0, <2>1, MetadatosTipo
<1> HIDE DEF L, G, tras
<1>4. ASSUME NEW nueva \in Clave,
             PideActualizar(u, k, lista, propietario, nueva, quitados),
             permisos' = tras, disco' = disco, registrados' = registrados
      PROVE  U!Next
  <2>1. Lectores' = [Lectores EXCEPT ![k] = G]
    <3>1. Lectores'[k] = G
      BY <1>1, <1>2, <1>4 DEF Lectores
    <3>2. \A c \in Clave \ {k} : Lectores'[c] = Lectores[c]
      BY <1>1, <1>4 DEF Lectores
    <3>3. Lectores' = [c \in Clave |-> Lectores'[c]] /\ Lectores = [c \in Clave |-> Lectores[c]]
      BY DEF Lectores
    <3> HIDE DEF Lectores
    <3> QED
      BY <3>1, <3>2, <3>3
  <2>2. U!Compartir(u, k, G)
    BY <1>0, <1>1, <1>4, <2>1, Traduccion, MismasClaves DEF U!Compartir
  <2>3. G \in SUBSET (registrados \ {k.dueno})
    BY <1>1, <1>4 DEF G
  <2> QED
    BY <1>3, <2>2, <2>3, MismasClaves DEF U!Next
<1>5. CASE actualizarPermisos(u, k, lista, propietario, quitados)
  BY <1>4, <1>5 DEF actualizarPermisos, tras
<1>6. ASSUME NEW nueva \in Clave,
             renombrarFallido(u, k, lista, propietario, nueva, quitados)
      PROVE  U!Next
  <2>1. Renombrables(k, nueva) = {}
    BY <1>0, <1>6, RenombrablesTodas DEF renombrarFallido
  <2>2. disco' = disco
    BY <1>0, <1>6, <2>1 DEF renombrarFallido, Mover, TypeOK
  <2> QED
    BY <1>4, <1>6, <2>2 DEF renombrarFallido, tras
<1>7. ASSUME NEW nueva \in Clave,
             renombrarArchivo(u, k, lista, propietario, nueva, quitados)
      PROVE  U!Next
  <2>1. /\ PideActualizar(u, k, lista, propietario, nueva, quitados)
        /\ MismaCarpeta(k, nueva) /\ Completo(k, nueva) /\ nueva # k
        /\ disco' = Mover(k, nueva, 1..meta[k].ultimaVersion)
        /\ permisos' = [v \in Usuario |-> IF v \in L \ {propietario}
                                          THEN (tras[v] \ {k}) \cup {nueva} ELSE tras[v]]
        /\ registrados' = registrados
    BY <1>7 DEF renombrarArchivo, tras, L, PermisosRenombrado
  <2>2. ~existeMetadato(nueva)
    BY <1>0, <2>1, RenombrablesTodas
  <2>3. \A v \in Usuario : nueva \notin permisos[v]
    BY <1>0, <2>2 DEF Indexado, IndiceTotal
  <2>4. L \ {propietario} = G
    BY <1>1, <2>1 DEF G
  <2>5. ASSUME NEW v \in Usuario
        PROVE  /\ k \notin permisos'[v]
               /\ nueva \in permisos'[v] <=> v \in G
               /\ \A c \in Clave \ {k, nueva} : c \in permisos'[v] <=> c \in permisos[v]
    BY <1>1, <2>1, <2>3, <2>4
  <2>6. U!Pasa(k, nueva, G)
    BY <1>2, <2>1, <2>2, <2>5, PasaEntero
  <2>7. U!Renombrar(u, k, nueva, G)
    BY <1>0, <1>1, <2>1, <2>6, Traduccion, MismasClaves DEF U!Renombrar
  <2>8. G \in SUBSET (registrados \ {k.dueno})
    BY <1>1, <2>1 DEF G
  <2> QED
    BY <1>3, <2>7, <2>8, MismasClaves DEF U!Next
<1>8. ASSUME NEW nueva \in Clave,
             renombrarConDesconocido(u, k, lista, propietario, nueva, quitados)
      PROVE  FALSE
  <2>1. PideActualizar(u, k, lista, propietario, nueva, quitados)
        /\ ~(L \ {propietario} \subseteq registrados)
    BY <1>8 DEF renombrarConDesconocido, L
  <2> QED
    BY <1>1, <2>1
<1> QED
  BY <1>5, <1>6, <1>7, <1>8

LEMMA PedidoPaso ==
  ASSUME Descuidos = {}, Inv, TypeOK', NuncaCae, NEW u \in registrados, Pedido(u)
  PROVE  [U!Next]_(U!vars)
<1>0. u \in Usuario /\ TypeOK /\ Consistencia /\ Indexado /\ DuenosRegistrados
  BY DEF Inv, TypeOK
<1>1. ASSUME NEW d \in Usuario, NEW dir \in Carpeta, crearCarpetaSegura(u, d, dir)
      PROVE  UNCHANGED U!vars
  BY <1>1, NoSeVe DEF crearCarpetaSegura
<1>2. ASSUME NEW k \in Clave, NEW v \in Version, NEW force \in BOOLEAN,
             subirArchivo(u, k, v, force)
      PROVE  U!Next
  <2> DEFINE w == VersionSubida(k, v, force)
  <2>1. /\ Viva(k) /\ verificarPermisos(u, k) /\ w \in Version
        /\ Existe(k) => force \/ v = meta[k].ultimaVersion + 1
        /\ disco' = [disco EXCEPT ![k] = @ \cup {w}]
        /\ permisos' = permisos /\ registrados' = registrados
    BY <1>2 DEF subirArchivo, esPathValido, esVersionValida
  <2>2. \E n \in Version : disco[k] = 1..(n - 1) /\ disco[k] \cup {w} = 1..n
    <3>1. CASE existeMetadato(k)
      <4>1. /\ Existe(k) /\ disco[k] = 1..meta[k].ultimaVersion
            /\ meta[k].ultimaVersion \in Nat
        BY <1>0, <3>1, VersionesEnDisco, MaxVersionAssumption DEF Version
      <4>2. w = meta[k].ultimaVersion + 1
        BY <2>1, <4>1 DEF VersionSubida
      <4> HIDE DEF w
      <4>3. disco[k] = 1..(w - 1) /\ disco[k] \cup {w} = 1..w
        BY <4>1, <4>2
      <4> QED
        BY <2>1, <4>3
    <3>2. CASE ~existeMetadato(k)
      <4>1. w = 1 /\ disco[k] = {}
        BY <1>0, <3>2, SinMetadatoSinDisco DEF VersionSubida, Existe
      <4>2. disco[k] = 1..(1 - 1) /\ {} \cup {1} = 1..1
        BY <4>1
      <4> HIDE DEF w
      <4> QED
        BY <2>1, <4>1, <4>2
    <3> QED
      BY <3>1, <3>2
  <2> HIDE DEF w
  <2>3. PICK n \in Version : disco[k] = 1..(n - 1) /\ disco[k] \cup {w} = 1..n
    BY <2>2
  <2>4. disco' = [disco EXCEPT ![k] = 1..n]
    BY <1>0, <2>1, <2>3 DEF TypeOK
  <2>5. Lectores' = Lectores
    BY <2>1 DEF Lectores
  <2>6. U!Subir(u, k)
    BY <1>0, <2>1, <2>3, <2>4, <2>5, Traduccion, MismasClaves DEF U!Subir
  <2> QED
    BY <2>6, MismasClaves DEF U!Next
<1>3. ASSUME NEW K \in SUBSET Clave, NEW sec \in [K -> Secuencia],
             \A k \in K : Viva(k) /\ Existe(k) /\ verificarPermisos(u, k),
             MandarArchivosATrash(Movibles(K, sec), sec), registrados' = registrados
      PROVE  U!Next
  <2>1. \E S \in SUBSET {k \in Clave : Viva(k) /\ U!Hay(k)} : U!Borrar(u, S)
    BY <1>0, <1>3, MandarBorra
  <2> QED
    BY <2>1, MismasClaves DEF U!Next
<1>4. ASSUME NEW k \in Clave, eliminarArchivo(u, k) PROVE U!Next
  <2>1. PICK sec \in [{k} -> Secuencia] : MandarArchivosATrash(Movibles({k}, sec), sec)
    BY <1>4 DEF eliminarArchivo
  <2>2. Viva(k) /\ Existe(k) /\ verificarPermisos(u, k) /\ registrados' = registrados
    BY <1>4 DEF eliminarArchivo
  <2> QED
    BY <1>3, <2>1, <2>2
<1>5. ASSUME NEW dir \in Carpeta, eliminarCarpeta(u, dir) PROVE U!Next
  <2> DEFINE K == Contenido(u, dir)
  <2>1. PICK sec \in [K -> Secuencia] : MandarArchivosATrash(Movibles(K, sec), sec)
    BY <1>5 DEF eliminarCarpeta
  <2>2. registrados' = registrados
    BY <1>5 DEF eliminarCarpeta
  <2>3. /\ K \subseteq Clave
        /\ \A k \in K : Viva(k) /\ Existe(k) /\ verificarPermisos(u, k)
    BY <1>0, ContenidoTipo DEF verificarPermisos
  <2> HIDE DEF K
  <2> QED
    BY <1>3, <2>1, <2>2, <2>3
<1>6. ASSUME NEW k \in Clave, ~Viva(k), verificarPermisos(u, k)
      PROVE  u = k.dueno
  <2>1. Lectores[k] = {}
    BY <1>6, Traduccion
  <2> QED
    BY <1>0, <1>6, <2>1 DEF verificarPermisos, Lectores
<1>7. ASSUME NEW k \in Clave, eliminarDefinitivamente(u, k) PROVE U!Next
  <2>1. /\ ~Viva(k) /\ verificarPermisos(u, k) /\ existeMetadato(k)
        /\ disco' = [disco EXCEPT ![k] = {}]
        /\ permisos' = permisos /\ registrados' = registrados
    BY <1>7 DEF eliminarDefinitivamente, Existe
  <2>2. u = k.dueno /\ U!Hay(k)
    BY <1>6, <2>1, Traduccion
  <2>3. U!Purgar(u, k)
    BY <2>1, <2>2, MismasClaves DEF U!Purgar, Lectores
  <2> QED
    BY <2>2, <2>3, MismasClaves DEF U!Next
<1>8. ASSUME NEW k \in Clave, restaurar(u, k) PROVE U!Next \/ UNCHANGED U!vars
  <2> DEFINE real == ClaveReal(u, k)
  <2>1. /\ ~Viva(k) /\ verificarPermisos(u, k)
        /\ permisos' = permisos /\ registrados' = registrados
    BY <1>8 DEF restaurar
  <2>2. CASE ~puedoRestaurarA(k, real)
    BY <1>8, <2>1, <2>2, NoSeVe DEF restaurar
  <2>3. CASE puedoRestaurarA(k, real)
    <3>1. real \in Clave /\ existeMetadato(k) /\ ~existeMetadato(real)
      BY <1>0, <2>3, ClavesTipo DEF puedoRestaurarA, Existe
    <3>2. Renombradas(k, meta[k].ultimaVersion) = 1..meta[k].ultimaVersion
      BY <1>0, <3>1, VersionesEnDisco
    <3>3. disco' = Mover(k, real, 1..meta[k].ultimaVersion)
      BY <1>8, <2>3, <3>2 DEF restaurar
    <3>4. u = k.dueno /\ U!Hay(k)
      BY <1>6, <2>1, <3>1, Traduccion
    <3>5. /\ \A v \in Usuario : k \notin permisos[v]
          /\ \A v \in Usuario : real \notin permisos[v]
      <4>1. Lectores[k] = {}
        BY <2>1, Traduccion
      <4> QED
        BY <1>0, <3>1, <4>1 DEF Lectores, Indexado, IndiceTotal
    <3> HIDE DEF real
    <3>6. U!Pasa(k, real, {})
      BY <2>1, <3>1, <3>3, <3>5, PasaEntero
    <3>7. U!Restaurar(u, k)
      BY <2>1, <3>4, <3>6, MismasClaves DEF U!Restaurar, real
    <3> QED
      BY <3>4, <3>7, MismasClaves DEF U!Next
  <2> QED
    BY <2>2, <2>3
<1>9. ASSUME PideMetadatos(u) PROVE U!Next
  BY <1>9, MetadatosPaso
<1>10. ASSUME NEW k \in Clave PROVE ~eliminarConOtroPropietario(u, k)
  BY <1>0 DEF eliminarConOtroPropietario, Existe, Indexado, PropietarioCoincide
<1>11. ~eliminarPapelera(u)
  BY DEF eliminarPapelera
<1>12. ASSUME buscarCompartidoInexistente(u) PROVE UNCHANGED U!vars
  BY <1>12, NoSeVe DEF buscarCompartidoInexistente
<1> QED
  BY <1>1, <1>2, <1>4, <1>5, <1>7, <1>8, <1>9, <1>10, <1>11, <1>12
     DEF Pedido, PideEliminar

\* With careful clients every step is one of the drive's specification, or does not show.
LEMMA PasoDeUnidad ==
  ASSUME Descuidos = {}, InvIndice, TypeOK', [Next]_vars
  PROVE  [U!Next]_(U!vars)
<1>1. Inv /\ NuncaCae
  BY DEF InvIndice, InvDisco, ConsistenciaHastaCaer, Indexado, Inv
<1>2. CASE UNCHANGED vars
  BY <1>2, NoSeVe DEF vars
<1>3. ASSUME NEW u \in Usuario, crearUsuario(u) PROVE U!Next
  <2>1. U!Alta(u)
    BY <1>3 DEF crearUsuario, U!Alta, Lectores
  <2> QED
    BY <2>1 DEF U!Next
<1>4. ASSUME NEW u \in registrados, Pedido(u) PROVE [U!Next]_(U!vars)
  BY <1>1, <1>4, PedidoPaso
<1> QED
  BY <1>2, <1>3, <1>4 DEF Next

\* If every request is formed as the application forms it, each one takes effect
\* on the files that can be read and on who can read them as one step of the
\* drive's specification, or not at all, however many users, files, versions and
\* deletions there are.
THEOREM ImplementacionCorrecta ==
  ASSUME Descuidos = {}
  PROVE  Spec => ImplementaUnidad
<1>1. Init => U!Init
  <2> SUFFICES ASSUME Init PROVE U!Init
    OBVIOUS
  <2>1. Lectores = [k \in Clave |-> {}]
    BY DEF Init, Lectores
  <2> QED
    BY <2>1, MismasClaves DEF Init, U!Init
<1>2. InvIndice /\ TypeOK' /\ [Next]_vars => [U!Next]_(U!vars)
  BY PasoDeUnidad
<1>3. InvIndice => TypeOK
  BY DEF InvIndice, InvDisco
<1> QED
  BY <1>1, <1>2, <1>3, IndiceInductivo, PTL DEF Spec, ImplementaUnidad, U!Spec

-----------------------------------------------------------------------------
(* What the drive's specification lets a step do to the versions of a file *)

LEMMA MismoIntervalo == ASSUME NEW a \in Nat, NEW b \in Nat, 1..a = 1..b PROVE a = b
<1>1. ~(a < b)
  <2> SUFFICES ASSUME a < b PROVE FALSE
    OBVIOUS
  <2>1. b \in 1..b /\ b \notin 1..a
    OBVIOUS
  <2> QED
    BY <2>1
<1>2. ~(b < a)
  <2> SUFFICES ASSUME b < a PROVE FALSE
    OBVIOUS
  <2>1. a \in 1..a /\ a \notin 1..b
    OBVIOUS
  <2> QED
    BY <2>1
<1> QED
  BY <1>1, <1>2

\* A path that has versions before and after a step of Unidad keeps them, or, live,
\* gets the next one.
LEMMA UnidadCrece ==
  ASSUME TypeOK, [U!Next]_(U!vars), NEW k \in Clave, disco[k] # {}, disco'[k] # {}
  PROVE  \/ disco'[k] = disco[k]
         \/ Viva(k) /\ \E n \in Version : disco[k] = 1..(n - 1) /\ disco'[k] = 1..n
<1>0. disco \in [Clave -> SUBSET Version]
  BY DEF TypeOK
<1>1. CASE UNCHANGED U!vars
  BY <1>1 DEF U!vars
<1>2. ASSUME NEW u \in Usuario, U!Alta(u) PROVE disco' = disco
  BY <1>2 DEF U!Alta
<1>3. ASSUME NEW u \in registrados, NEW c \in Clave, U!Subir(u, c)
      PROVE  \/ disco'[k] = disco[k]
             \/ Viva(k) /\ \E n \in Version : disco[k] = 1..(n - 1) /\ disco'[k] = 1..n
  BY <1>0, <1>3, MismasClaves DEF U!Subir
<1>4. ASSUME NEW u \in registrados,
             NEW S \in SUBSET {c \in Clave : U!Viva(c) /\ U!Hay(c)}, U!Borrar(u, S)
      PROVE  disco'[k] = disco[k]
  <2>1. PICK sec \in [S -> Secuencia] :
          /\ \A c \in S : U!Libre(EnPapelera(c, sec[c]))
          /\ disco' = [c \in Clave |-> IF c \in S THEN {}
                        ELSE IF ~Viva(c) /\ \E d \in S : c = EnPapelera(d, sec[d])
                             THEN disco[[c EXCEPT !.sec = VIVA]]
                        ELSE disco[c]]
    BY <1>4, MismasClaves DEF U!Borrar, U!VIVA, VIVA
  <2>2. k \notin S
    BY <2>1
  <2>3. ~\E d \in S : k = EnPapelera(d, sec[d])
    BY <2>1 DEF U!Libre, U!Hay
  <2> QED
    BY <2>1, <2>2, <2>3
<1>5. ASSUME NEW c \in Clave, disco' = [disco EXCEPT ![c] = {}] PROVE disco'[k] = disco[k]
  BY <1>0, <1>5
<1>6. ASSUME NEW c \in Clave, NEW d \in Clave, NEW L, U!Pasa(c, d, L)
      PROVE  disco'[k] = disco[k]
  BY <1>0, <1>6 DEF U!Pasa, U!Libre, U!Hay
<1>7. ASSUME NEW u \in registrados, NEW c \in Clave, U!Purgar(u, c) PROVE disco'[k] = disco[k]
  BY <1>5, <1>7 DEF U!Purgar
<1>8. ASSUME NEW u \in registrados, NEW c \in Clave, U!Restaurar(u, c)
      PROVE  disco'[k] = disco[k]
  <2>1. U!ClaveReal(u, c) \in Clave
    BY MismasClaves DEF ClaveReal, Clave, TypeOK
  <2> QED
    BY <1>6, <1>8, <2>1 DEF U!Restaurar
<1>9. ASSUME NEW u \in registrados, NEW c \in Clave, NEW L, U!Compartir(u, c, L)
      PROVE  disco'[k] = disco[k]
  BY <1>9 DEF U!Compartir
<1>10. ASSUME NEW u \in registrados, NEW c \in Clave, NEW d \in Clave, NEW L,
              U!Renombrar(u, c, d, L)
       PROVE  disco'[k] = disco[k]
  BY <1>6, <1>10 DEF U!Renombrar
<1> QED
  BY <1>1, <1>2, <1>3, <1>4, <1>7, <1>8, <1>9, <1>10, MismasClaves DEF U!Next

\* A live path that loses its versions in a step of Unidad has them all, after the
\* step, at one path that had none.
LEMMA UnidadMueve ==
  ASSUME TypeOK, [U!Next]_(U!vars), NEW k \in Clave, Viva(k), disco[k] # {}, disco'[k] = {}
  PROVE  \E c \in Clave : /\ c.dueno = k.dueno
                          /\ c.ruta = k.ruta \/ MismaCarpeta(c, k)
                          /\ disco[c] = {} /\ disco'[c] = disco[k]
<1> DEFINE Meta == \E c \in Clave : /\ c.dueno = k.dueno
                                    /\ c.ruta = k.ruta \/ MismaCarpeta(c, k)
                                    /\ disco[c] = {} /\ disco'[c] = disco[k]
<1>0. disco \in [Clave -> SUBSET Version]
  BY DEF TypeOK
<1>1. disco' # disco
  OBVIOUS
<1>2. ASSUME NEW u \in registrados, NEW c \in Clave, U!Subir(u, c) PROVE FALSE
  <2>1. PICK n \in Version : disco' = [disco EXCEPT ![c] = 1..n]
    BY <1>2, MismasClaves DEF U!Subir
  <2>2. 1 \in 1..n
    BY MaxVersionAssumption DEF Version
  <2> QED
    BY <1>0, <2>1, <2>2
<1>3. ASSUME NEW u \in registrados,
             NEW S \in SUBSET {c \in Clave : U!Viva(c) /\ U!Hay(c)}, U!Borrar(u, S)
      PROVE  Meta
  <2>1. PICK sec \in [S -> Secuencia] :
          /\ \A c \in S : U!Libre(EnPapelera(c, sec[c]))
          /\ disco' = [c \in Clave |-> IF c \in S THEN {}
                        ELSE IF ~Viva(c) /\ \E d \in S : c = EnPapelera(d, sec[d])
                             THEN disco[[c EXCEPT !.sec = VIVA]]
                        ELSE disco[c]]
    BY <1>3, MismasClaves DEF U!Borrar, U!VIVA, VIVA
  <2>2. k \in S
    BY <2>1
  <2> DEFINE c == EnPapelera(k, sec[k])
  <2>3. /\ c \in Clave /\ ~Viva(c) /\ [c EXCEPT !.sec = VIVA] = k
        /\ c.dueno = k.dueno /\ c.ruta = k.ruta
    <3> DEFINE n == sec[k]
    <3>1. n \in 0..MaxSec
      BY <2>2 DEF Secuencia
    <3>2. c = [k EXCEPT !.sec = n]
      BY DEF EnPapelera
    <3> HIDE DEF n, c
    <3>3. c \in Clave
      BY <3>1, <3>2 DEF Clave, Secuencia
    <3>4. c.sec = n /\ c.dueno = k.dueno /\ c.ruta = k.ruta
      BY <3>2 DEF Clave
    <3>5. ~Viva(c)
      BY <3>1, <3>4, MaxSecAssumption DEF Viva, VIVA
    <3>6. [c EXCEPT !.sec = VIVA] = k
      BY <3>2 DEF Clave, Viva
    <3> QED
      BY <3>3, <3>4, <3>5, <3>6
  <2>4. c \notin S /\ disco[c] = {}
    BY <2>1, <2>2, <2>3, MismasClaves DEF U!Libre, U!Hay
  <2>5. disco'[c] = disco[k]
    BY <2>1, <2>2, <2>3, <2>4
  <2> QED
    BY <2>3, <2>4, <2>5
<1>4. ASSUME NEW u \in registrados, NEW c \in Clave, U!Purgar(u, c) PROVE FALSE
  BY <1>0, <1>4, MismasClaves DEF U!Purgar
<1>5. ASSUME NEW c \in Clave, NEW d \in Clave, NEW L, U!Pasa(c, d, L)
      PROVE  c = k /\ disco[d] = {} /\ disco'[d] = disco[k]
  BY <1>0, <1>5 DEF U!Pasa, U!Libre, U!Hay
<1>6. ASSUME NEW u \in registrados, NEW c \in Clave, U!Restaurar(u, c) PROVE FALSE
  <2>1. U!ClaveReal(u, c) \in Clave
    BY MismasClaves DEF ClaveReal, Clave, TypeOK
  <2> QED
    BY <1>5, <1>6, <2>1, MismasClaves DEF U!Restaurar
<1>7. ASSUME NEW u \in registrados, NEW c \in Clave, NEW d \in Clave, NEW L,
             U!Renombrar(u, c, d, L)
      PROVE  Meta
  <2>1. k = c /\ disco[d] = {} /\ disco'[d] = disco[k]
    BY <1>5, <1>7 DEF U!Renombrar
  <2>2. d.dueno = k.dueno /\ MismaCarpeta(d, k)
    BY <1>7, <2>1, MismasClaves DEF U!Renombrar, MismaCarpeta
  <2> QED
    BY <2>1, <2>2
<1>8. UNCHANGED U!vars => FALSE
  BY <1>1 DEF U!vars
<1>9. ASSUME NEW u \in Usuario, U!Alta(u) PROVE FALSE
  BY <1>1, <1>9 DEF U!Alta
<1>10. ASSUME NEW u \in registrados, NEW c \in Clave, NEW L, U!Compartir(u, c, L) PROVE FALSE
  BY <1>1, <1>10 DEF U!Compartir
<1> HIDE DEF Meta
<1>11. Meta
  BY <1>2, <1>3, <1>4, <1>6, <1>7, <1>8, <1>9, <1>10, MismasClaves DEF U!Next
<1> QED
  BY <1>11 DEF Meta

\* With careful clients the versions of a file only grow, one at a time, on disk and
\* in the metadata together, for any users, paths and bounds: the disk does because
\* Archivos implements Unidad, the metadata because they agree with it.
THEOREM VersionesSiempreCrecen ==
  ASSUME Descuidos = {}
  PROVE  Spec => VersionesCrecen
<1> DEFINE Crece ==
      \A k \in Clave : existeMetadato(k) /\ existeMetadato(k)' =>
        \/ UNCHANGED <<disco[k], meta[k].ultimaVersion>>
        \/ /\ meta[k].ultimaVersion' = meta[k].ultimaVersion + 1
           /\ disco[k]' = disco[k] \cup {meta[k].ultimaVersion + 1}
<1>1. InvIndice /\ InvIndice' /\ [Next]_vars => Crece
  <2> SUFFICES ASSUME InvIndice, InvIndice', [Next]_vars,
                      NEW k \in Clave, existeMetadato(k), existeMetadato(k)'
               PROVE  \/ UNCHANGED <<disco[k], meta[k].ultimaVersion>>
                      \/ /\ meta[k].ultimaVersion' = meta[k].ultimaVersion + 1
                         /\ disco[k]' = disco[k] \cup {meta[k].ultimaVersion + 1}
    OBVIOUS
  <2> DEFINE a == meta[k].ultimaVersion
             b == meta'[k].ultimaVersion
  <2>1. TypeOK /\ TypeOK' /\ Consistencia /\ Consistencia'
    BY DEF InvIndice, InvDisco, ConsistenciaHastaCaer
  <2>2. a \in Version /\ disco[k] = 1..a /\ b \in Version /\ disco'[k] = 1..b
    BY <2>1 DEF TypeOK, Consistencia, existeMetadato, MetadatoArchivo
  <2> HIDE DEF a, b
  <2>3. a \in Nat \ {0} /\ b \in Nat \ {0}
    BY <2>2, MaxVersionAssumption DEF Version
  <2>4. 1 \in disco[k] /\ 1 \in disco'[k]
    BY <2>2, <2>3
  <2>5. [U!Next]_(U!vars)
    BY <2>1, PasoDeUnidad
  <2>6. \/ disco'[k] = disco[k]
        \/ \E n \in Version : disco[k] = 1..(n - 1) /\ disco'[k] = 1..n
    BY <2>1, <2>4, <2>5, UnidadCrece
  <2>7. CASE disco'[k] = disco[k]
    <3>1. a = b
      BY <2>2, <2>3, <2>7, MismoIntervalo
    <3> QED
      BY <2>7, <3>1 DEF a, b
  <2>8. CASE \E n \in Version : disco[k] = 1..(n - 1) /\ disco'[k] = 1..n
    <3>1. PICK n \in Version : disco[k] = 1..(n - 1) /\ disco'[k] = 1..n
      BY <2>8
    <3>2. n \in Nat /\ n - 1 \in Nat
      BY MaxVersionAssumption DEF Version
    <3>3. a = n - 1 /\ b = n
      BY <2>2, <2>3, <3>1, <3>2, MismoIntervalo
    <3>4. disco'[k] = disco[k] \cup {a + 1} /\ b = a + 1
      BY <3>1, <3>2, <3>3
    <3> QED
      BY <3>4 DEF a, b
  <2> QED
    BY <2>6, <2>7, <2>8
<1>2. InvIndice /\ InvIndice' /\ [Next]_vars => [Crece]_vars
  BY <1>1
<1> QED
  BY <1>2, IndiceInductivo, PTL DEF Spec, VersionesCrecen

\* With careful clients no request but a purge makes a file vanish, for any users,
\* paths and bounds: a live file that leaves its path is, whole, at one that was free.
THEOREM NadaSePierdeSiempre ==
  ASSUME Descuidos = {}
  PROVE  Spec => NadaSePierde
<1> DEFINE Queda ==
      \A k \in Clave : Viva(k) /\ existeMetadato(k) /\ ~existeMetadato(k)' =>
        \E c \in Clave : /\ c.dueno = k.dueno
                         /\ c.ruta = k.ruta \/ MismaCarpeta(c, k)
                         /\ ~existeMetadato(c) /\ existeMetadato(c)'
                         /\ disco[c] = {} /\ disco[c]' = disco[k]
<1>1. InvIndice /\ InvIndice' /\ [Next]_vars => Queda
  <2> SUFFICES ASSUME InvIndice, InvIndice', [Next]_vars,
                      NEW k \in Clave, Viva(k), existeMetadato(k), ~existeMetadato(k)'
               PROVE  \E c \in Clave : /\ c.dueno = k.dueno
                                       /\ c.ruta = k.ruta \/ MismaCarpeta(c, k)
                                       /\ ~existeMetadato(c) /\ existeMetadato(c)'
                                       /\ disco[c] = {} /\ disco[c]' = disco[k]
    OBVIOUS
  <2>1. TypeOK /\ TypeOK' /\ Consistencia /\ Consistencia'
    BY DEF InvIndice, InvDisco, ConsistenciaHastaCaer
  <2>2. disco[k] # {} /\ disco'[k] = {}
    BY <2>1, VersionesEnDisco DEF Consistencia
  <2>3. PICK c \in Clave : /\ c.dueno = k.dueno
                           /\ c.ruta = k.ruta \/ MismaCarpeta(c, k)
                           /\ disco[c] = {} /\ disco'[c] = disco[k]
    BY <2>1, <2>2, PasoDeUnidad, UnidadMueve
  <2>4. ~existeMetadato(c)
    BY <2>1, <2>3, VersionesEnDisco
  <2>5. existeMetadato(c)'
    BY <2>1, <2>2, <2>3 DEF Consistencia
  <2> QED
    BY <2>3, <2>4, <2>5
<1>2. InvIndice /\ InvIndice' /\ [Next]_vars => [Queda]_vars
  BY <1>1
<1> QED
  BY <1>2, IndiceInductivo, PTL DEF Spec, NadaSePierde

\* "Los metadatos de la papelera son inaccesibles": with careful clients, for any users,
\* paths and bounds, nothing about a file in the trash changes until it is restored or
\* purged.  No step of Unidad changes its versions, and they and its place determine
\* its metadata.
THEOREM PapeleraSiempreInaccesible ==
  ASSUME Descuidos = {}
  PROVE  Spec => PapeleraInaccesible
<1> DEFINE Quieta == \A k \in Clave :
      ~Viva(k) /\ existeMetadato(k) /\ existeMetadato(k)' => meta[k]' = meta[k]
<1>1. InvIndice /\ InvIndice' /\ [Next]_vars => Quieta
  <2> SUFFICES ASSUME InvIndice, InvIndice', [Next]_vars,
                      NEW k \in Clave, ~Viva(k), existeMetadato(k), existeMetadato(k)'
               PROVE  meta'[k] = meta[k]
    OBVIOUS
  <2>1. TypeOK /\ TypeOK' /\ Consistencia /\ Consistencia'
    BY DEF InvIndice, InvDisco, ConsistenciaHastaCaer
  <2>m. meta[k] \in MetadatoArchivo /\ meta'[k] \in MetadatoArchivo
    BY <2>1 DEF TypeOK, existeMetadato
  <2>2. /\ meta[k] \in MetadatoArchivo /\ meta'[k] \in MetadatoArchivo
        /\ disco[k] = 1..meta[k].ultimaVersion /\ disco'[k] = 1..meta'[k].ultimaVersion
    BY <2>1, <2>m DEF Consistencia
  <2>3. meta[k].ultimaVersion \in Nat \ {0} /\ meta'[k].ultimaVersion \in Nat \ {0}
    BY <2>2, MaxVersionAssumption DEF MetadatoArchivo, Version
  <2>4. 1 \in disco[k] /\ 1 \in disco'[k]
    BY <2>2, <2>3
  <2>5. [U!Next]_(U!vars)
    BY <2>1, PasoDeUnidad
  <2>6. disco'[k] = disco[k]
    BY <2>1, <2>4, <2>5, UnidadCrece
  <2>7. meta'[k].ultimaVersion = meta[k].ultimaVersion
    BY <2>2, <2>3, <2>6, MismoIntervalo
  <2>8. /\ meta[k].propietario = k.dueno /\ meta'[k].propietario = k.dueno
        /\ meta[k].usuarios = {k.dueno} /\ meta'[k].usuarios = {k.dueno}
    BY DEF InvIndice, PropietarioCoincide, ListasSanas, existeMetadato
  <2> DEFINE m == meta[k]
             n == meta'[k]
  <2>9. /\ m \in MetadatoArchivo /\ n \in MetadatoArchivo
        /\ m.propietario = n.propietario /\ m.ultimaVersion = n.ultimaVersion
        /\ m.usuarios = n.usuarios
    BY <2>2, <2>7, <2>8
  <2> HIDE DEF m, n
  <2>10. n = m
    BY <2>9 DEF MetadatoArchivo
  <2> QED
    BY <2>10 DEF m, n
<1>2. InvIndice /\ InvIndice' /\ [Next]_vars => [Quieta]_vars
  BY <1>1
<1> QED
  BY <1>2, IndiceInductivo, PTL DEF Spec, PapeleraInaccesible
=============================================================================
