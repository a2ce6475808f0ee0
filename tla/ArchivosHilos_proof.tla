------------------------- MODULE ArchivosHilos_proof -------------------------
(* Proofs about ArchivosHilos, for any threads, requests and crashes. *)
EXTENDS ArchivosHilos, TLAPS

Pasos == {"version", "carpeta", "hay", "sube_get", "sube_put", "escribe", "carga_get",
          "carga_put", "borra_get", "secuencia", "invitado", "lote_escribe", "mueve",
          "recorre", "rm", "purga_get", "purga_erase", "purga_rm", "rest_carpeta", "puedo",
          "rest_get", "rest_mueve", "rest_lote", "rest_escribe", "deshace", "act_get",
          "permiso", "perm_get", "perm_indice", "perm_lote", "perm_escribe", "act_put",
          "ren_mueve", "ren_indice", "ren_modify", "ren_escribe", "busca"}

Pedido == [paso : Pasos, user : Usuario, clave : Clave, destino : Clave, n : Int,
           fuerza : BOOLEAN, primera : BOOLEAN, lista : SUBSET Usuario,
           leido : Metadato \cup {NADA}, nuevo : Metadato \cup {NADA}, quien : Usuario,
           pend : SUBSET Usuario, indices : [Usuario -> SUBSET Clave],
           claves : SUBSET Clave, borra : BOOLEAN, id : 0..MaxPedidos,
           toca : SUBSET (Usuario \X Ruta)]

\* The steps that use the metadata the request has read.
ConLeido == {"secuencia", "invitado", "lote_escribe", "permiso", "perm_get", "perm_indice",
             "perm_lote", "perm_escribe", "act_put", "ren_mueve", "ren_indice", "ren_modify",
             "ren_escribe"}

\* The steps from which a path may still enter an index.
Compartiendo == {"permiso", "perm_get", "perm_indice", "perm_lote", "perm_escribe",
                 "ren_mueve", "ren_indice", "ren_modify"}

\* What a thread at work on r holds was shared, as C has it, or may be.
Bien(r, C) ==
  /\ r.paso \in ConLeido => r.leido \in Metadato
  /\ r.paso \in {"version", "carpeta", "hay", "sube_get"} => r.n \in (-1)..MaxVersion
  /\ r.paso \in Compartiendo => \A g \in r.lista : <<g, r.clave>> \in C /\ <<g, r.destino>> \in C
  /\ r.paso \in {"ren_indice", "ren_modify"} => r.pend \subseteq r.lista
  /\ \A u \in Usuario : \A k \in r.indices[u] : <<u, k>> \in C

Hilos ==
  /\ hilo \in [Hilo -> {OCIOSO} \cup Pedido]
  /\ \A h \in Hilo : hilo[h] # OCIOSO => Bien(hilo[h], compartidos)

Disco == [Clave -> [Version -> Contenido \cup {NADA}]]

Tipos ==
  /\ carpetas \in [Usuario -> SUBSET Carpeta]
  /\ disco \in Disco
  /\ meta \in [Clave -> Metadato \cup {NADA}]
  /\ permisos \in [Usuario -> SUBSET Clave]
  /\ pedidos \in 0..MaxPedidos /\ caidas \in 0..MaxCaidas
  /\ sucios \subseteq Usuario \X Ruta
  /\ compartidos \subseteq Usuario \X Clave

\* Whatever an index holds, or a thread may still write into one, was shared.
Inv == Tipos /\ Hilos /\ SinIntrusos

\* Thread h goes on as r, and shares are only added to.
LEMMA HilosSiguen ==
  ASSUME Hilos, NEW h \in Hilo, NEW r, r = OCIOSO \/ (r \in Pedido /\ Bien(r, compartidos')),
         compartidos \subseteq compartidos', Sigue(h, r)
  PROVE  Hilos'
<1>1. hilo' \in [Hilo -> {OCIOSO} \cup Pedido]
  BY DEF Hilos, Sigue
<1>2. ASSUME NEW g \in Hilo, hilo'[g] # OCIOSO
      PROVE  Bien(hilo'[g], compartidos')
  <2>1. CASE g = h
    BY <1>2, <2>1 DEF Hilos, Sigue
  <2>2. CASE g # h
    BY <1>2, <2>2 DEF Hilos, Sigue, Bien
  <2> QED
    BY <2>1, <2>2
<1> QED
  BY <1>1, <1>2 DEF Hilos

\* A step that only reads.
LEMMA LeeBien ==
  ASSUME Inv, NEW h \in Hilo, NEW r, r = OCIOSO \/ (r \in Pedido /\ Bien(r, compartidos)),
         Lee(h, r), UNCHANGED <<pedidos, caidas>>
  PROVE  Inv'
<1>1. /\ UNCHANGED <<carpetas, disco, meta, permisos, sucios, compartidos, pedidos, caidas>>
      /\ Sigue(h, r)
  BY DEF Lee
<1>2. Hilos'
  BY <1>1, HilosSiguen DEF Inv
<1> QED
  BY <1>1, <1>2 DEF Inv, Tipos, SinIntrusos

\* What is known of a thread at work.
LEMMA EnTrabajo ==
  ASSUME Inv, NEW h \in Hilo, hilo[h] # OCIOSO
  PROVE  /\ hilo[h] \in Pedido /\ Bien(hilo[h], compartidos) /\ hilo[h].paso \in Pasos
         /\ {hilo[h].clave, hilo[h].destino} \subseteq Clave
         /\ hilo[h].paso \in ConLeido => hilo[h].leido \in Metadato
         /\ hilo[h].paso \in {"version", "carpeta", "hay", "sube_get"} =>
              hilo[h].n \in (-1)..MaxVersion
<1>1. hilo[h] \in Pedido /\ Bien(hilo[h], compartidos)
  BY DEF Inv, Hilos
<1> QED
  BY <1>1 DEF Pedido, Bien

\* The thread keeps what it holds and goes on to a step that asks for no more.
LEMMA EnBien ==
  ASSUME NEW r \in Pedido, NEW C, Bien(r, C), NEW p \in Pasos,
         p \in ConLeido => r.leido \in Metadato,
         p \in {"version", "carpeta", "hay", "sube_get"} => r.n \in (-1)..MaxVersion,
         p \in Compartiendo => r.paso \in Compartiendo,
         p \in {"ren_indice", "ren_modify"} => r.pend \subseteq r.lista
  PROVE  En(p, r) \in Pedido /\ Bien(En(p, r), C)
<1>1. En(p, r) \in Pedido
  BY DEF En, Pedido
<1> QED
  BY <1>1 DEF En, Pedido, Bien

\* The same, with the metadata it has just read.
LEMMA LeidoBien ==
  ASSUME NEW r \in Pedido, NEW C, Bien(r, C), NEW m \in Metadato,
         NEW p \in Pasos \ {"version", "carpeta", "hay", "sube_get", "ren_indice", "ren_modify"},
         p \in Compartiendo => r.paso \in Compartiendo
  PROVE  /\ [En(p, r) EXCEPT !.leido = m] \in Pedido
         /\ Bien([En(p, r) EXCEPT !.leido = m], C)
<1>1. [En(p, r) EXCEPT !.leido = m] \in Pedido
  BY DEF En, Pedido
<1> QED
  BY <1>1 DEF En, Pedido, Bien

\* The metadata read, that are there.
LEMMA Leidos == ASSUME Tipos, NEW k \in Clave, existeMetadato(k) PROVE meta[k] \in Metadato
  BY DEF Tipos, existeMetadato

-----------------------------------------------------------------------------
(* Requests *)

LEMMA TareaBien ==
  ASSUME Tipos, pedidos < MaxPedidos, NEW p \in Pasos \ (ConLeido \cup Compartiendo),
         NEW u \in Usuario, NEW k \in Clave, NEW c \in Clave
  PROVE  Tarea(p, u, k, c) \in Pedido /\ Bien(Tarea(p, u, k, c), compartidos)
<1>1. pedidos + 1 \in 0..MaxPedidos
  BY UnidadesAssumption DEF Tipos
<1>2. {Archivo(k), Archivo(c)} \subseteq Usuario \X Ruta
  BY DEF Archivo, Clave
<1>3. Tarea(p, u, k, c) \in Pedido
  BY <1>1, <1>2 DEF Tarea, Pedido
<1>4. 1 \in (-1)..MaxVersion
  BY MaxVersionAssumption
<1> QED
  BY <1>3, <1>4 DEF Tarea, Bien, ConLeido, Compartiendo

\* Thread h takes the request r.
LEMMA TomaBien ==
  ASSUME Inv, NEW h \in Hilo, NEW r \in Pedido, Bien(r, compartidos), Toma(h, r),
         pedidos < MaxPedidos
  PROVE  Inv'
<1>1. /\ UNCHANGED <<carpetas, disco, meta, permisos, compartidos, caidas>>
      /\ Sigue(h, r) /\ pedidos' = pedidos + 1
  BY DEF Toma
<1>2. Hilos'
  BY <1>1, HilosSiguen DEF Inv
<1>3. \A g \in Hilo : hilo[g].toca \subseteq Usuario \X Ruta
  BY DEF Inv, Hilos, Pedido, OCIOSO
<1>4. sucios' \subseteq Usuario \X Ruta
  <2> DEFINE otros == UNION {hilo[g].toca : g \in {g \in Hilo : hilo[g].toca \cap r.toca # {}}}
  <2>1. r.toca \subseteq Usuario \X Ruta /\ otros \subseteq Usuario \X Ruta
    BY <1>3 DEF Pedido
  <2>2. sucios' = sucios \/ sucios' = sucios \cup (r.toca \cup otros)
    BY DEF Toma, Ensucia
  <2> HIDE DEF otros
  <2> QED
    BY <2>1, <2>2 DEF Inv, Tipos
<1>5. pedidos' \in 0..MaxPedidos
  BY <1>1, UnidadesAssumption DEF Inv, Tipos
<1> QED
  BY <1>1, <1>2, <1>4, <1>5 DEF Inv, Tipos, SinIntrusos

LEMMA PideInv == ASSUME Inv, NEW h \in Hilo, Pide(h) PROVE Inv'
<1>0. Tipos /\ pedidos < MaxPedidos
  BY DEF Inv, Pide
<1>1. PICK u \in Usuario :
        \/ \E k \in {c \in Clave : c.dueno \in Unidades} :
             \/ \E v \in Version, force \in BOOLEAN : PideSubir(h, u, k, v, force)
             \/ PideBorrar(h, u, k)
             \/ PidePurgar(h, u, k)
             \/ PideRestaurar(h, u, k)
             \/ \E c \in Clave, lista \in SUBSET Usuario : PideActualizar(h, u, k, c, lista)
        \/ \E dir \in Carpeta : PideBorrarCarpeta(h, u, dir)
        \/ PideBuscar(h, u)
  BY DEF Pide
<1>2. ASSUME NEW k \in Clave, NEW v \in Version, NEW force \in BOOLEAN,
             PideSubir(h, u, k, v, force)
      PROVE  Inv'
  <2> DEFINE r == Tarea("carpeta", u, k, k)
             n == IF force THEN 1 ELSE v
             q == [En("version", r) EXCEPT !.n = n, !.fuerza = force]
             s == [r EXCEPT !.primera = TRUE]
  <2>1. r \in Pedido /\ Bien(r, compartidos) /\ r.paso = "carpeta" /\ r.n = 1
    BY <1>0, TareaBien DEF Pasos, ConLeido, Compartiendo, Tarea
  <2>2. Toma(h, q) \/ Toma(h, s)
    BY <1>2 DEF PideSubir
  <2> HIDE DEF r
  <2>3. n \in Int /\ n \in (-1)..MaxVersion
    BY MaxVersionAssumption DEF Version
  <2> HIDE DEF n
  <2>4. q \in Pedido /\ Bien(q, compartidos)
    <3>1. En("version", r) \in Pedido /\ Bien(En("version", r), compartidos)
      BY <2>1, MaxVersionAssumption, EnBien DEF Pasos, ConLeido, Compartiendo
    <3>2. q \in Pedido
      BY <2>3, <3>1 DEF Pedido
    <3> QED
      BY <2>3, <3>1, <3>2 DEF Pedido, Bien
  <2>5. s \in Pedido /\ Bien(s, compartidos)
    BY <2>1 DEF Pedido, Bien
  <2> HIDE DEF q, s
  <2> QED
    BY <1>0, <2>2, <2>4, <2>5, TomaBien
<1>3. ASSUME NEW k \in Clave, PideBorrar(h, u, k) PROVE Inv'
  BY <1>0, <1>3, TomaBien, TareaBien DEF PideBorrar, Pasos, ConLeido, Compartiendo
<1>4. ASSUME NEW k \in Clave, PidePurgar(h, u, k) PROVE Inv'
  BY <1>0, <1>4, TomaBien, TareaBien DEF PidePurgar, Pasos, ConLeido, Compartiendo
<1>5. ASSUME NEW k \in Clave, PideRestaurar(h, u, k) PROVE Inv'
  <2>1. ClaveReal(u, k) \in Clave
    BY DEF ClaveReal, Clave
  <2> QED
    BY <1>0, <1>5, <2>1, TomaBien, TareaBien DEF PideRestaurar, Pasos, ConLeido, Compartiendo
<1>6. ASSUME NEW k \in Clave, NEW c \in Clave, NEW lista \in SUBSET Usuario,
             PideActualizar(h, u, k, c, lista)
      PROVE  Inv'
  <2> DEFINE r == Tarea("act_get", u, k, c)
             q == [r EXCEPT !.lista = lista]
  <2>1. r \in Pedido /\ Bien(r, compartidos) /\ r.paso = "act_get"
    BY <1>0, TareaBien DEF Pasos, ConLeido, Compartiendo, Tarea
  <2>2. Toma(h, q)
    BY <1>6 DEF PideActualizar
  <2> HIDE DEF r
  <2>3. q \in Pedido /\ Bien(q, compartidos)
    BY <2>1 DEF Pedido, Bien, Compartiendo
  <2> HIDE DEF q
  <2> QED
    BY <1>0, <2>2, <2>3, TomaBien
<1>7. ASSUME NEW dir \in Carpeta, PideBorrarCarpeta(h, u, dir) PROVE Inv'
  <2>1. PICK k \in EnCarpeta(u, dir) :
          Toma(h, [Tarea("recorre", u, k, k) EXCEPT
                     !.borra = TRUE,
                     !.claves = {c \in EnCarpeta(u, dir) : HayEnDisco(c)},
                     !.toca = {Archivo(c) : c \in Bajo(u, dir)}])
    BY <1>7 DEF PideBorrarCarpeta
  <2> DEFINE r == Tarea("recorre", u, k, k)
             q == [r EXCEPT !.borra = TRUE,
                            !.claves = {c \in EnCarpeta(u, dir) : HayEnDisco(c)},
                            !.toca = {Archivo(c) : c \in Bajo(u, dir)}]
  <2>2. k \in Clave /\ EnCarpeta(u, dir) \subseteq Clave /\ Bajo(u, dir) \subseteq Clave
    BY DEF EnCarpeta, Bajo
  <2>3. {Archivo(c) : c \in Bajo(u, dir)} \subseteq Usuario \X Ruta
    BY <2>2 DEF Archivo, Clave
  <2>4. r \in Pedido /\ Bien(r, compartidos) /\ r.paso = "recorre"
    BY <1>0, <2>2, TareaBien DEF Pasos, ConLeido, Compartiendo, Tarea
  <2> HIDE DEF r
  <2>5. q \in Pedido /\ Bien(q, compartidos)
    BY <2>2, <2>3, <2>4 DEF Pedido, Bien
  <2>6. Toma(h, q)
    BY <2>1 DEF r
  <2> HIDE DEF q
  <2> QED
    BY <1>0, <2>5, <2>6, TomaBien
<1>8. CASE PideBuscar(h, u)
  <2>1. PICK k \in permisos[u] :
          Toma(h, [Tarea("busca", u, k, k) EXCEPT !.claves = permisos[u], !.toca = {}])
    BY <1>8 DEF PideBuscar
  <2> DEFINE r == Tarea("busca", u, k, k)
             q == [r EXCEPT !.claves = permisos[u], !.toca = {}]
  <2>2. k \in Clave /\ permisos[u] \subseteq Clave
    BY <1>0 DEF Tipos
  <2>3. r \in Pedido /\ Bien(r, compartidos) /\ r.paso = "busca"
    BY <1>0, <2>2, TareaBien DEF Pasos, ConLeido, Compartiendo, Tarea
  <2> HIDE DEF r
  <2>4. q \in Pedido /\ Bien(q, compartidos)
    BY <2>2, <2>3 DEF Pedido, Bien
  <2>5. Toma(h, q)
    BY <2>1 DEF r
  <2> HIDE DEF q
  <2> QED
    BY <1>0, <2>4, <2>5, TomaBien
<1> QED
  BY <1>1, <1>2, <1>3, <1>4, <1>5, <1>6, <1>7, <1>8

-----------------------------------------------------------------------------
(* Steps *)

LEMMA SubeInv ==
  ASSUME Inv, NEW h \in Hilo, Sube(h), hilo[h] # OCIOSO, UNCHANGED <<pedidos, caidas>>
  PROVE  Inv'
<1> DEFINE r == hilo[h]
           k == r.clave
<1>0. /\ r \in Pedido /\ Bien(r, compartidos) /\ k \in Clave /\ Tipos
      /\ r.paso \in {"version", "carpeta", "hay", "sube_get"} => r.n \in (-1)..MaxVersion
  BY EnTrabajo DEF Inv
<1>1. CASE validaVersion(h)
  <2> DEFINE n == SiguienteVersion(k)
             q == [En("carpeta", r) EXCEPT !.n = n]
  <2>1. n \in Int /\ n >= -1
    BY <1>0 DEF SiguienteVersion, existeMetadato, Tipos, Metadato
  <2>2. Lee(h, OCIOSO) \/ (n <= MaxVersion /\ Lee(h, q))
    BY <1>1, <2>1, MaxVersionAssumption DEF validaVersion
  <2> HIDE DEF n
  <2>3. CASE n <= MaxVersion /\ Lee(h, q)
    <3>1. En("carpeta", r) \in Pedido /\ Bien(En("carpeta", r), compartidos)
      BY <1>0, <1>1, EnBien DEF Pasos, ConLeido, Compartiendo, validaVersion
    <3>2. n \in (-1)..MaxVersion
      BY <2>1, <2>3, MaxVersionAssumption
    <3>3. q \in Pedido
      BY <2>1, <3>1 DEF Pedido
    <3>4. Bien(q, compartidos)
      BY <3>1, <3>2 DEF Pedido, Bien
    <3> HIDE DEF q
    <3> QED
      BY <2>3, <3>3, <3>4, LeeBien
  <2> QED
    BY <2>2, <2>3, LeeBien
<1>2. CASE creaCarpeta(h)
  <2> DEFINE puede == verificarPermisos(r.user, k) /\ (r.user = k.dueno \/ HayCarpeta(k))
             q == IF puede THEN En("hay", r) ELSE OCIOSO
  <2>1. /\ r.paso = "carpeta" /\ Sigue(h, q)
        /\ carpetas' = IF puede THEN ConCarpeta(k.dueno, CarpetaDe(k.ruta)) ELSE carpetas
        /\ UNCHANGED <<disco, meta, permisos, acusados, sucios, compartidos>>
    BY <1>2 DEF creaCarpeta
  <2>2. q = OCIOSO \/ (q \in Pedido /\ Bien(q, compartidos))
    BY <1>0, <2>1, EnBien DEF Pasos, ConLeido, Compartiendo
  <2> HIDE DEF puede, q
  <2>3. Hilos'
    BY <2>1, <2>2, HilosSiguen DEF Inv
  <2>4. carpetas' \in [Usuario -> SUBSET Carpeta]
    BY <1>0, <2>1 DEF Tipos, ConCarpeta, Carpeta, Clave
  <2> QED
    BY <2>1, <2>3, <2>4 DEF Inv, Tipos, SinIntrusos
<1>3. CASE hayMetadato(h)
  BY <1>0, <1>3, EnBien, LeeBien DEF hayMetadato, Pasos, ConLeido, Compartiendo
<1>4. CASE subeGet(h)
  <2> DEFINE m == [meta[k] EXCEPT !.ultimaVersion = r.n]
             q == [En("sube_put", r) EXCEPT !.leido = m]
  <2>1. /\ r.paso = "sube_get" /\ meta[k] \in Metadato
        /\ Lee(h, q)
    BY <1>0, <1>4 DEF subeGet, Get, existeMetadato, Tipos
  <2>2. m \in Metadato
    BY <1>0, <2>1 DEF Metadato
  <2>3. En("sube_put", r) \in Pedido /\ Bien(En("sube_put", r), compartidos)
    BY <1>0, <2>1, EnBien DEF Pasos, ConLeido, Compartiendo
  <2> HIDE DEF m
  <2>4. q \in Pedido
    BY <2>2, <2>3 DEF Pedido
  <2>5. Bien(q, compartidos)
    BY <2>2, <2>3 DEF Pedido, Bien
  <2> HIDE DEF q
  <2> QED
    BY <2>1, <2>4, <2>5, LeeBien
<1>5. CASE subePut(h)
  <2>1. /\ r.paso = "sube_put" /\ Sigue(h, En("escribe", r))
        /\ meta' = [meta EXCEPT ![k] = r.leido]
        /\ UNCHANGED <<carpetas, disco, permisos, sucios, compartidos>>
    BY <1>5 DEF subePut, EscribeDB
  <2>2. Hilos'
    BY <1>0, <2>1, EnBien, HilosSiguen DEF Inv, Pasos, ConLeido, Compartiendo
  <2>3. meta' \in [Clave -> Metadato \cup {NADA}]
    BY <1>0, <2>1 DEF Tipos, Pedido
  <2> QED
    BY <2>1, <2>2, <2>3 DEF Inv, Tipos, SinIntrusos
<1>6. CASE escribe(h)
  <2> DEFINE q == IF r.primera THEN En("carga_get", r) ELSE OCIOSO
  <2>1. /\ r.paso = "escribe" /\ Sigue(h, q)
        /\ disco' = IF HayCarpeta(k) /\ r.n \in Version
                    THEN [disco EXCEPT ![k][r.n] = <<k, r.n, r.id>>] ELSE disco
        /\ UNCHANGED <<carpetas, meta, permisos, sucios, compartidos>>
    BY <1>6 DEF escribe
  <2>2. q = OCIOSO \/ (q \in Pedido /\ Bien(q, compartidos))
    BY <1>0, <2>1, EnBien DEF Pasos, ConLeido, Compartiendo
  <2> HIDE DEF q
  <2>3. Hilos'
    BY <2>1, <2>2, HilosSiguen DEF Inv
  <2>4. disco' \in Disco
    BY <1>0, <2>1 DEF Tipos, Disco, Pedido, Contenido
  <2> QED
    BY <2>1, <2>3, <2>4 DEF Inv, Tipos, SinIntrusos
<1>7. CASE cargaGet(h)
  BY <1>0, <1>7, EnBien, LeeBien DEF cargaGet, Pasos, ConLeido, Compartiendo
<1>8. CASE cargaPut(h)
  <2>1. /\ Sigue(h, OCIOSO)
        /\ meta' = [meta EXCEPT ![k] = MetadatoNuevo(k)]
        /\ UNCHANGED <<carpetas, disco, permisos, sucios, compartidos>>
    BY <1>8 DEF cargaPut
  <2>2. Hilos'
    BY <2>1, HilosSiguen DEF Inv
  <2>3. MetadatoNuevo(k) \in Metadato
    BY <1>0, MaxVersionAssumption DEF MetadatoNuevo, Metadato, Clave
  <2>4. meta' \in [Clave -> Metadato \cup {NADA}]
    BY <1>0, <2>1, <2>3 DEF Tipos
  <2> QED
    BY <2>1, <2>2, <2>4 DEF Inv, Tipos, SinIntrusos
<1> QED
  BY <1>1, <1>2, <1>3, <1>4, <1>5, <1>6, <1>7, <1>8 DEF Sube

\* A rename keeps the shape of the disk, whatever the version.
LEMMA RenombraBien ==
  ASSUME Tipos, NEW k \in Clave, NEW c \in Clave, NEW n \in Int
  PROVE  Renombra(k, c, n) \in Disco
<1>1. CASE n \in Version
  <2>1. disco[k][n] \in Contenido \cup {NADA}
    BY <1>1 DEF Tipos, Disco
  <2> QED
    BY <1>1, <2>1 DEF Renombra, Tipos, Disco
<1>2. CASE n \notin Version
  <2>1. Renombra(k, c, n) = disco
    BY <1>2 DEF Renombra, Tipos, Disco
  <2> QED
    BY <2>1 DEF Tipos
<1> QED
  BY <1>1, <1>2

LEMMA BorraInv ==
  ASSUME Inv, NEW h \in Hilo, Borra(h), hilo[h] # OCIOSO, UNCHANGED <<pedidos, caidas>>
  PROVE  Inv'
<1> DEFINE r == hilo[h]
           k == r.clave
<1>0. /\ r \in Pedido /\ Bien(r, compartidos) /\ {k, r.destino} \subseteq Clave /\ Tipos
      /\ r.paso \in ConLeido => r.leido \in Metadato
  BY EnTrabajo DEF Inv
<1>v. Vuelve(r) = OCIOSO \/ (Vuelve(r) \in Pedido /\ Bien(Vuelve(r), compartidos))
  BY <1>0, EnBien DEF Vuelve, Pasos, ConLeido, Compartiendo
<1>1. CASE borraGet(h)
  <2>1. CASE Lee(h, Vuelve(r))
    BY <1>v, <2>1, LeeBien
  <2>2. CASE Get(h, k, [En("secuencia", r) EXCEPT
                 !.leido = meta[k], !.pend = meta[k].usuarios \ {meta[k].propietario}])
    <3> DEFINE m == meta[k]
               s == [En("secuencia", r) EXCEPT !.leido = m]
               q == [En("secuencia", r) EXCEPT
                       !.leido = m, !.pend = m.usuarios \ {m.propietario}]
    <3>1. m \in Metadato
      BY <1>0, <2>2, Leidos DEF Get
    <3>2. s \in Pedido /\ Bien(s, compartidos)
      BY <1>0, <3>1, LeidoBien DEF Pasos, Compartiendo
    <3>p. s.paso = "secuencia"
      BY <1>0 DEF En, Pedido
    <3>3. m.usuarios \subseteq Usuario
      BY <3>1 DEF Metadato
    <3>4. q = [s EXCEPT !.pend = m.usuarios \ {m.propietario}]
      BY <1>0, <3>1 DEF En, Pedido
    <3>5. Lee(h, q)
      BY <2>2 DEF Get
    <3> HIDE DEF m, s, q
    <3>6. q \in Pedido
      BY <3>2, <3>3, <3>4 DEF Pedido
    <3>7. Bien(q, compartidos)
      BY <3>2, <3>p, <3>4 DEF Pedido, Bien
    <3> QED
      BY <3>5, <3>6, <3>7, LeeBien
  <2> QED
    BY <1>1, <2>1, <2>2 DEF borraGet
<1>2. CASE secuencia(h)
  <2>1. PICK n \in Secuencia :
          Lee(h, [En("invitado", r) EXCEPT !.destino = EnPapelera(k, n)])
    BY <1>2 DEF secuencia
  <2> DEFINE s == En("invitado", r)
             q == [s EXCEPT !.destino = EnPapelera(k, n)]
  <2>2. s \in Pedido /\ Bien(s, compartidos)
    BY <1>0, <1>2, EnBien DEF secuencia, Pasos, ConLeido, Compartiendo
  <2>p. s.paso = "invitado"
    BY <1>0 DEF En, Pedido
  <2>3. EnPapelera(k, n) \in Clave
    BY <1>0 DEF EnPapelera, Clave
  <2>4. Lee(h, q)
    BY <2>1
  <2> HIDE DEF s
  <2>5. q \in Pedido
    BY <2>2, <2>3 DEF Pedido
  <2>6. Bien(q, compartidos)
    BY <2>2, <2>p DEF Pedido, Bien, Compartiendo
  <2> HIDE DEF q
  <2> QED
    BY <2>4, <2>5, <2>6, LeeBien
<1>3. CASE leeInvitado(h)
  <2>1. PICK g \in r.pend :
          Lee(h, [r EXCEPT !.pend = @ \ {g}, !.indices[g] = permisos[g] \ {k}])
    BY <1>3 DEF leeInvitado
  <2> DEFINE q == [r EXCEPT !.pend = @ \ {g}, !.indices[g] = permisos[g] \ {k}]
  <2>2. g \in Usuario /\ r.paso = "invitado"
    BY <1>0, <1>3 DEF leeInvitado, Pedido
  <2>3. permisos[g] \subseteq Clave /\ \A c \in permisos[g] : <<g, c>> \in compartidos
    BY <1>0, <2>2 DEF Tipos, Inv, SinIntrusos
  <2>4. q \in Pedido
    BY <1>0, <2>2, <2>3 DEF Pedido
  <2>5. Bien(q, compartidos)
    BY <1>0, <2>2, <2>3 DEF Pedido, Bien, Compartiendo
  <2>6. Lee(h, q)
    BY <2>1
  <2> HIDE DEF q
  <2> QED
    BY <2>4, <2>5, <2>6, LeeBien
<1>4. CASE loteBorra(h)
  BY <1>0, <1>v, <1>4, EnBien, LeeBien DEF loteBorra, Pasos, ConLeido, Compartiendo
<1>5. CASE escribeLoteBorra(h)
  <2> DEFINE m == r.leido
             n == [m EXCEPT !.usuarios = {m.propietario}]
  <2>1. /\ r.paso = "lote_escribe" /\ Sigue(h, En("mueve", r))
        /\ meta' = [meta EXCEPT ![k] = NADA, ![r.destino] = n]
        /\ permisos' = [g \in Usuario |-> IF g \in m.usuarios \ {m.propietario}
                                          THEN r.indices[g] ELSE permisos[g]]
        /\ UNCHANGED <<carpetas, disco, sucios, compartidos>>
    BY <1>5 DEF escribeLoteBorra, EscribeDB
  <2>2. Hilos'
    BY <1>0, <2>1, EnBien, HilosSiguen DEF Inv, Pasos, ConLeido, Compartiendo
  <2>3. n \in Metadato
    BY <1>0, <2>1 DEF Metadato, ConLeido
  <2> HIDE DEF n
  <2>4. meta' \in [Clave -> Metadato \cup {NADA}]
    BY <1>0, <2>1, <2>3 DEF Tipos
  <2>5. permisos' \in [Usuario -> SUBSET Clave]
    BY <1>0, <2>1 DEF Tipos, Pedido
  <2>6. SinIntrusos'
    BY <1>0, <2>1 DEF Inv, SinIntrusos, Bien
  <2> QED
    BY <2>1, <2>2, <2>4, <2>5, <2>6 DEF Inv, Tipos
<1>6. CASE mueve(h)
  <2> DEFINE falla == r.n > r.leido.ultimaVersion \/ disco[k][r.n] = NADA
             q == IF falla \/ r.n >= r.leido.ultimaVersion
                  THEN Vuelve(r) ELSE [r EXCEPT !.n = @ + 1]
  <2>1. /\ r.paso = "mueve" /\ Sigue(h, q)
        /\ disco' = IF falla THEN disco ELSE Renombra(k, r.destino, r.n)
        /\ UNCHANGED <<carpetas, meta, permisos, sucios, compartidos>>
    BY <1>6 DEF mueve, EscribeDisco
  <2> HIDE DEF falla
  <2>2. q = Vuelve(r) \/ (q \in Pedido /\ Bien(q, compartidos))
    BY <1>0, <2>1 DEF Pedido, Bien, Compartiendo
  <2> HIDE DEF q
  <2>3. Hilos'
    BY <1>v, <2>1, <2>2, HilosSiguen DEF Inv
  <2>4. disco' \in Disco
    BY <1>0, <2>1, RenombraBien DEF Tipos, Pedido
  <2> QED
    BY <2>1, <2>3, <2>4 DEF Inv, Tipos, SinIntrusos
<1> QED
  BY <1>1, <1>2, <1>3, <1>4, <1>5, <1>6 DEF Borra

\* The walk of a folder goes on to the file c.
LEMMA SiguienteBien ==
  ASSUME NEW r \in Pedido, NEW S \in SUBSET Clave, NEW c \in Clave
  PROVE  [r EXCEPT !.claves = S, !.clave = c, !.n = 1] \in Pedido
<1> DEFINE q == [r EXCEPT !.claves = S, !.clave = c, !.n = 1]
<1>1. q = [f \in DOMAIN r |-> IF f = "n" THEN 1 ELSE IF f = "clave" THEN c ELSE
                             IF f = "claves" THEN S ELSE r[f]]
  BY DEF Pedido
<1> QED
  BY <1>1 DEF Pedido

LEMMA BorraCarpetaInv ==
  ASSUME Inv, NEW h \in Hilo, BorraCarpeta(h), hilo[h] # OCIOSO, UNCHANGED <<pedidos, caidas>>
  PROVE  Inv'
<1> DEFINE r == hilo[h]
           k == r.clave
<1>0. r \in Pedido /\ Bien(r, compartidos) /\ k \in Clave /\ Tipos
  BY EnTrabajo DEF Inv
<1>1. CASE recorre(h)
  <2>1. PICK c \in r.claves :
          LET q == [r EXCEPT !.claves = @ \ {c}, !.clave = c, !.n = 1]
          IN  Lee(h, IF Existe(c) THEN En("borra_get", q) ELSE q)
    BY <1>1 DEF recorre
  <2> DEFINE q == [r EXCEPT !.claves = @ \ {c}, !.clave = c, !.n = 1]
  <2>2. c \in Clave /\ r.paso = "recorre"
    BY <1>0, <1>1 DEF recorre, Pedido
  <2>p. q \in Pedido
    <3>1. r.claves \ {c} \in SUBSET Clave
      BY <1>0 DEF Pedido
    <3> QED
      BY <1>0, <2>2, <3>1, SiguienteBien
  <2>q. q.paso = "recorre" /\ q.indices = r.indices
    BY <1>0, <2>2 DEF Pedido
  <2>i. \A u \in Usuario : \A i \in r.indices[u] : <<u, i>> \in compartidos
    BY <1>0 DEF Bien
  <2>b. Bien(q, compartidos)
    <3> HIDE DEF q
    <3> QED
      BY <2>q, <2>i DEF Bien, ConLeido, Compartiendo
  <2>3. q \in Pedido /\ Bien(q, compartidos)
    BY <2>p, <2>b
  <2>4. Lee(h, En("borra_get", q)) \/ Lee(h, q)
    BY <2>1
  <2> HIDE DEF q
  <2>5. En("borra_get", q) \in Pedido /\ Bien(En("borra_get", q), compartidos)
    BY <2>3, EnBien DEF Pasos, ConLeido, Compartiendo
  <2> QED
    BY <2>3, <2>4, <2>5, LeeBien
<1>2. CASE carpetaVacia(h)
  BY <1>0, <1>2, EnBien, LeeBien DEF carpetaVacia, Pasos, ConLeido, Compartiendo
<1>3. CASE deleteCarpeta(h)
  <2> DEFINE dir == CarpetaDe(k.ruta)
  <2>1. /\ Sigue(h, OCIOSO)
        /\ carpetas' = [carpetas EXCEPT ![r.user] = {e \in @ : ~IsPrefix(dir, e)}]
        /\ disco' = [c \in Clave |-> IF c \in Bajo(r.user, dir)
                                     THEN [v \in Version |-> NADA] ELSE disco[c]]
        /\ UNCHANGED <<meta, permisos, sucios, compartidos>>
    BY <1>3 DEF deleteCarpeta
  <2>2. Hilos'
    BY <2>1, HilosSiguen DEF Inv
  <2> HIDE DEF dir
  <2>3. carpetas' \in [Usuario -> SUBSET Carpeta]
    BY <1>0, <2>1 DEF Tipos
  <2>4. disco' \in Disco
    BY <1>0, <2>1 DEF Tipos, Disco
  <2> QED
    BY <2>1, <2>2, <2>3, <2>4 DEF Inv, Tipos, SinIntrusos
<1> QED
  BY <1>1, <1>2, <1>3 DEF BorraCarpeta

LEMMA PurgaInv ==
  ASSUME Inv, NEW h \in Hilo, Purga(h), hilo[h] # OCIOSO, UNCHANGED <<pedidos, caidas>>
  PROVE  Inv'
<1> DEFINE r == hilo[h]
           k == r.clave
<1>0. r \in Pedido /\ Bien(r, compartidos) /\ k \in Clave /\ Tipos
  BY EnTrabajo DEF Inv
<1>1. CASE purgaGet(h)
  BY <1>0, <1>1, EnBien, LeeBien DEF purgaGet, Get, Pasos, ConLeido, Compartiendo
<1>2. CASE purgaErase(h)
  <2>1. /\ Sigue(h, En("purga_rm", r))
        /\ meta' = [meta EXCEPT ![k] = NADA]
        /\ UNCHANGED <<carpetas, disco, permisos, sucios, compartidos>>
    BY <1>2 DEF purgaErase, EscribeDB
  <2>2. Hilos'
    BY <1>0, <2>1, EnBien, HilosSiguen DEF Inv, Pasos, ConLeido, Compartiendo
  <2>3. meta' \in [Clave -> Metadato \cup {NADA}]
    BY <1>0, <2>1 DEF Tipos
  <2> QED
    BY <2>1, <2>2, <2>3 DEF Inv, Tipos, SinIntrusos
<1>3. CASE purgaRm(h)
  <2>1. /\ Sigue(h, OCIOSO)
        /\ disco' = [disco EXCEPT ![k] = [v \in Version |-> NADA]]
        /\ UNCHANGED <<carpetas, meta, permisos, sucios, compartidos>>
    BY <1>3 DEF purgaRm
  <2>2. Hilos'
    BY <2>1, HilosSiguen DEF Inv
  <2>3. disco' \in Disco
    BY <1>0, <2>1 DEF Tipos, Disco
  <2> QED
    BY <2>1, <2>2, <2>3 DEF Inv, Tipos, SinIntrusos
<1> QED
  BY <1>1, <1>2, <1>3 DEF Purga

\* The folders of a path that is a file's.
LEMMA CarpetaBien ==
  ASSUME Tipos, NEW u \in Usuario, NEW k \in Clave
  PROVE  ConCarpeta(u, CarpetaDe(k.ruta)) \in [Usuario -> SUBSET Carpeta]
<1>1. Prefixes(CarpetaDe(k.ruta)) \subseteq Carpeta
  BY DEF Carpeta, Clave
<1> QED
  BY <1>1 DEF Tipos, ConCarpeta

LEMMA RestauraInv ==
  ASSUME Inv, NEW h \in Hilo, Restaura(h), hilo[h] # OCIOSO, UNCHANGED <<pedidos, caidas>>
  PROVE  Inv'
<1> DEFINE r == hilo[h]
           k == r.clave
<1>0. r \in Pedido /\ Bien(r, compartidos) /\ {k, r.destino} \subseteq Clave /\ Tipos
  BY EnTrabajo DEF Inv
<1>1. CASE restauraCarpeta(h)
  <2>1. /\ r.paso = "rest_carpeta" /\ Sigue(h, En("puedo", r))
        /\ carpetas' = ConCarpeta(r.user, CarpetaDe(k.ruta))
        /\ UNCHANGED <<disco, meta, permisos, sucios, compartidos>>
    BY <1>1 DEF restauraCarpeta
  <2>2. Hilos'
    BY <1>0, <2>1, EnBien, HilosSiguen DEF Inv, Pasos, ConLeido, Compartiendo
  <2>3. carpetas' \in [Usuario -> SUBSET Carpeta]
    BY <1>0, <2>1, CarpetaBien DEF Pedido
  <2> QED
    BY <2>1, <2>2, <2>3 DEF Inv, Tipos, SinIntrusos
<1>2. CASE puedoRestaurarA(h)
  BY <1>0, <1>2, EnBien, LeeBien DEF puedoRestaurarA, Pasos, ConLeido, Compartiendo
<1>3. CASE restauraGet(h)
  <2>1. meta[k] \in Metadato /\ Lee(h, [En("rest_mueve", r) EXCEPT !.leido = meta[k]])
    BY <1>0, <1>3, Leidos DEF restauraGet, Get
  <2> QED
    BY <1>0, <2>1, LeidoBien, LeeBien DEF Pasos, Compartiendo
<1>4. CASE restauraMueve(h)
  <2> DEFINE falla == disco[k][r.n] = NADA \/ ~HayCarpeta(r.destino)
             q == [r EXCEPT !.n = @ + 1]
  <2>1. /\ r.paso = "rest_mueve" /\ Sigue(h, IF falla THEN OCIOSO ELSE q)
        /\ disco' = IF falla THEN disco ELSE Renombra(k, r.destino, r.n)
        /\ UNCHANGED <<carpetas, meta, permisos, sucios, compartidos>>
    BY <1>4 DEF restauraMueve, EscribeDisco
  <2> HIDE DEF falla
  <2>2. q \in Pedido
    BY <1>0 DEF Pedido
  <2>3. Bien(q, compartidos)
    BY <1>0, <2>1 DEF Pedido, Bien, ConLeido, Compartiendo
  <2> HIDE DEF q
  <2>4. Hilos'
    BY <2>1, <2>2, <2>3, HilosSiguen DEF Inv
  <2>5. disco' \in Disco
    BY <1>0, <2>1, RenombraBien DEF Tipos, Pedido
  <2> QED
    BY <2>1, <2>4, <2>5 DEF Inv, Tipos, SinIntrusos
<1>5. CASE restauraLee(h)
  <2> DEFINE q == [En("rest_lote", r) EXCEPT !.nuevo = meta[k]]
  <2>1. meta[k] \in Metadato /\ Lee(h, q)
    BY <1>0, <1>5, Leidos DEF restauraLee, Get
  <2>2. q \in Pedido
    BY <1>0, <2>1 DEF En, Pedido, Pasos
  <2>3. Bien(q, compartidos)
    BY <1>0, <2>2 DEF En, Pedido, Bien, ConLeido, Compartiendo
  <2> QED
    BY <2>1, <2>2, <2>3, LeeBien
<1>6. CASE loteRestaura(h)
  <2> DEFINE p == En("rest_escribe", r)
             s == En("deshace", r)
             q == [s EXCEPT !.n = 1]
  <2>1. Lee(h, p) \/ Lee(h, q)
    BY <1>6 DEF loteRestaura
  <2>2. p \in Pedido /\ Bien(p, compartidos) /\ s \in Pedido /\ Bien(s, compartidos)
    BY <1>0, EnBien DEF Pasos, ConLeido, Compartiendo
  <2>3. s.paso = "deshace"
    BY <1>0 DEF En, Pedido
  <2> HIDE DEF p, s
  <2>4. q \in Pedido /\ Bien(q, compartidos)
    <3>1. q \in Pedido
      BY <2>2 DEF Pedido
    <3> QED
      BY <2>2, <2>3, <3>1 DEF Pedido, Bien, ConLeido, Compartiendo
  <2> HIDE DEF q
  <2> QED
    BY <2>1, <2>2, <2>4, LeeBien
<1>7. CASE restauraEscribe(h)
  <2>1. /\ Sigue(h, OCIOSO)
        /\ meta' = [meta EXCEPT ![k] = NADA, ![r.destino] = r.nuevo]
        /\ UNCHANGED <<carpetas, disco, permisos, sucios, compartidos>>
    BY <1>7 DEF restauraEscribe, EscribeDB
  <2>2. Hilos'
    BY <2>1, HilosSiguen DEF Inv
  <2>3. meta' \in [Clave -> Metadato \cup {NADA}]
    BY <1>0, <2>1 DEF Tipos, Pedido
  <2> QED
    BY <2>1, <2>2, <2>3 DEF Inv, Tipos, SinIntrusos
<1>8. CASE deshacerRestaurado(h)
  <2> DEFINE falla == r.n > r.leido.ultimaVersion \/ disco[r.destino][r.n] = NADA
             q == [r EXCEPT !.n = @ + 1]
  <2>1. /\ r.paso = "deshace" /\ (Sigue(h, OCIOSO) \/ Sigue(h, q))
        /\ disco' = IF falla THEN disco ELSE Renombra(r.destino, k, r.n)
        /\ UNCHANGED <<carpetas, meta, permisos, sucios, compartidos>>
    BY <1>8 DEF deshacerRestaurado, EscribeDisco
  <2> HIDE DEF falla
  <2>2. q \in Pedido
    BY <1>0 DEF Pedido
  <2>3. Bien(q, compartidos)
    BY <1>0, <2>1 DEF Pedido, Bien, ConLeido, Compartiendo
  <2> HIDE DEF q
  <2>4. Hilos'
    BY <2>1, <2>2, <2>3, HilosSiguen DEF Inv
  <2>5. disco' \in Disco
    BY <1>0, <2>1, RenombraBien DEF Tipos, Pedido
  <2> QED
    BY <2>1, <2>4, <2>5 DEF Inv, Tipos, SinIntrusos
<1> QED
  BY <1>1, <1>2, <1>3, <1>4, <1>5, <1>6, <1>7, <1>8 DEF Restaura

\* An index a thread writes was shared.
LEMMA IndiceEscrito ==
  ASSUME Inv, NEW r \in Pedido, Bien(r, compartidos), UNCHANGED compartidos,
         permisos' = [permisos EXCEPT ![r.quien] = r.indices[r.quien]]
  PROVE  permisos' \in [Usuario -> SUBSET Clave] /\ SinIntrusos'
<1>1. r.quien \in Usuario /\ r.indices[r.quien] \subseteq Clave
  BY DEF Pedido
<1>2. permisos' \in [Usuario -> SUBSET Clave]
  BY <1>1 DEF Inv, Tipos
<1> QED
  BY <1>1, <1>2 DEF Inv, Tipos, SinIntrusos, Bien

LEMMA ActualizaInv ==
  ASSUME Inv, NEW h \in Hilo, Actualiza(h), hilo[h] # OCIOSO, UNCHANGED <<pedidos, caidas>>
  PROVE  Inv'
<1> DEFINE r == hilo[h]
           k == r.clave
<1>0. /\ r \in Pedido /\ Bien(r, compartidos) /\ {k, r.destino} \subseteq Clave /\ Tipos
      /\ r.paso \in ConLeido => r.leido \in Metadato
  BY EnTrabajo DEF Inv
<1>1. CASE actualizaGet(h)
  <2> DEFINE m == meta[k]
             lista == IF r.lista = {} THEN m.usuarios ELSE r.lista
             pend == (lista \ m.usuarios) \cup (m.usuarios \ lista)
             q == [En("permiso", r) EXCEPT !.leido = m, !.lista = lista, !.pend = pend]
  <2>1. /\ m \in Metadato /\ Sigue(h, q)
        /\ compartidos' = compartidos \cup {<<g, r.destino>> : g \in lista}
                                     \cup {<<g, k>> : g \in lista}
        /\ UNCHANGED <<carpetas, disco, meta, permisos, sucios>>
    BY <1>0, <1>1, Leidos DEF actualizaGet
  <2>2. lista \subseteq Usuario /\ pend \subseteq Usuario
    BY <1>0, <2>1 DEF Metadato, Pedido
  <2> HIDE DEF m, lista, pend
  <2>3. q \in Pedido
    BY <1>0, <2>1, <2>2 DEF En, Pedido, Pasos
  <2>4. /\ q.paso = "permiso" /\ q.leido = m /\ q.lista = lista /\ q.indices = r.indices
        /\ q.clave = k /\ q.destino = r.destino
    BY <1>0 DEF En, Pedido
  <2>5. \A u \in Usuario : \A c \in r.indices[u] : <<u, c>> \in compartidos
    BY <1>0 DEF Bien
  <2> HIDE DEF q
  <2>6. Bien(q, compartidos')
    BY <2>1, <2>4, <2>5 DEF Bien
  <2>7. Hilos'
    BY <2>1, <2>3, <2>6, HilosSiguen DEF Inv
  <2>8. compartidos' \subseteq Usuario \X Clave
    BY <1>0, <2>1, <2>2 DEF Tipos
  <2> QED
    BY <2>1, <2>7, <2>8 DEF Inv, Tipos, SinIntrusos
<1>2. CASE siguientePermiso(h)
  <2>1. PICK g \in r.pend :
          LET q == [r EXCEPT !.pend = @ \ {g}, !.quien = g]
          IN  Lee(h, En("perm_get", q)) \/ Lee(h, q)
    BY <1>2 DEF siguientePermiso
  <2> DEFINE q == [r EXCEPT !.pend = @ \ {g}, !.quien = g]
  <2>2. g \in Usuario /\ r.paso = "permiso"
    BY <1>0, <1>2 DEF siguientePermiso, Pedido
  <2>3. q \in Pedido
    BY <1>0, <2>2 DEF Pedido
  <2>4. Bien(q, compartidos) /\ q.paso = "permiso" /\ q.leido = r.leido
    BY <1>0, <2>2 DEF Pedido, Bien
  <2>5. Lee(h, En("perm_get", q)) \/ Lee(h, q)
    BY <2>1
  <2> HIDE DEF q
  <2>6. En("perm_get", q) \in Pedido /\ Bien(En("perm_get", q), compartidos)
    BY <1>0, <2>2, <2>3, <2>4, EnBien DEF Pasos, ConLeido, Compartiendo
  <2> QED
    BY <2>3, <2>4, <2>5, <2>6, LeeBien
<1>3. CASE permisoGet(h)
  <2> DEFINE m == [meta[k] EXCEPT !.usuarios =
                     IF r.quien \in r.lista THEN @ \cup {r.quien} ELSE @]
             s == En("perm_indice", r)
             q == [s EXCEPT !.nuevo = m]
  <2>1. meta[k] \in Metadato /\ r.paso = "perm_get" /\ Lee(h, q)
    BY <1>0, <1>3, Leidos DEF permisoGet, Get
  <2>2. m \in Metadato
    BY <1>0, <2>1 DEF Metadato, Pedido
  <2>3. s \in Pedido /\ Bien(s, compartidos)
    BY <1>0, <2>1, EnBien DEF Pasos, ConLeido, Compartiendo
  <2> HIDE DEF m, s
  <2>4. q \in Pedido
    BY <2>2, <2>3 DEF Pedido
  <2>5. Bien(q, compartidos)
    BY <2>3 DEF Pedido, Bien
  <2> HIDE DEF q
  <2> QED
    BY <2>1, <2>4, <2>5, LeeBien
<1>4. CASE permisoIndice(h)
  <2> DEFINE g == r.quien
             I == IF g \in r.lista THEN permisos[g] \cup {k} ELSE permisos[g] \ {k}
             s == En("perm_lote", r)
             q == [s EXCEPT !.indices[g] = I]
  <2>1. r.paso = "perm_indice" /\ Lee(h, q) /\ g \in Usuario
    BY <1>0, <1>4 DEF permisoIndice, Pedido
  <2>2. I \subseteq Clave
    BY <1>0, <2>1 DEF Tipos
  <2>3. \A c \in I : <<g, c>> \in compartidos
    BY <1>0, <2>1 DEF Bien, Compartiendo, Inv, SinIntrusos
  <2>4. s \in Pedido /\ Bien(s, compartidos)
    BY <1>0, <2>1, EnBien DEF Pasos, ConLeido, Compartiendo
  <2> HIDE DEF I, s
  <2>5. q \in Pedido
    BY <2>1, <2>2, <2>4 DEF Pedido
  <2>6. Bien(q, compartidos)
    BY <2>1, <2>3, <2>4 DEF Pedido, Bien
  <2> HIDE DEF q
  <2> QED
    BY <2>1, <2>5, <2>6, LeeBien
<1>5. CASE permisoLote(h)
  BY <1>0, <1>5, EnBien, LeeBien DEF permisoLote, Pasos, ConLeido, Compartiendo
<1>6. CASE permisoEscribe(h)
  <2>1. /\ r.paso = "perm_escribe" /\ Sigue(h, En("permiso", r))
        /\ meta' = [meta EXCEPT ![k] = r.nuevo]
        /\ permisos' = [permisos EXCEPT ![r.quien] = r.indices[r.quien]]
        /\ UNCHANGED <<carpetas, disco, sucios, compartidos>>
    BY <1>6 DEF permisoEscribe, EscribeDB
  <2>2. Hilos'
    BY <1>0, <2>1, EnBien, HilosSiguen DEF Inv, Pasos, ConLeido, Compartiendo
  <2>3. meta' \in [Clave -> Metadato \cup {NADA}]
    BY <1>0, <2>1 DEF Tipos, Pedido
  <2>4. permisos' \in [Usuario -> SUBSET Clave] /\ SinIntrusos'
    BY <1>0, <2>1, IndiceEscrito
  <2> QED
    BY <2>1, <2>2, <2>3, <2>4 DEF Inv, Tipos
<1>7. CASE actualizaModify(h)
  BY <1>0, <1>7, EnBien, LeeBien
  DEF actualizaModify, PorModificar, Get, Pasos, ConLeido, Compartiendo
<1>8. CASE actualizaPut(h)
  <2>1. /\ r.paso = "act_put" /\ Sigue(h, OCIOSO)
        /\ meta' = [meta EXCEPT ![k] = Enviado(r)]
        /\ UNCHANGED <<carpetas, disco, permisos, sucios, compartidos>>
    BY <1>8 DEF actualizaPut, EscribeDB
  <2>2. Hilos'
    BY <2>1, HilosSiguen DEF Inv
  <2>3. Enviado(r) \in Metadato
    BY <1>0, <2>1 DEF Enviado, Metadato, ConLeido, Pedido, Clave
  <2>4. meta' \in [Clave -> Metadato \cup {NADA}]
    BY <1>0, <2>1, <2>3 DEF Tipos
  <2> QED
    BY <2>1, <2>2, <2>4 DEF Inv, Tipos, SinIntrusos
<1> QED
  BY <1>1, <1>2, <1>3, <1>4, <1>5, <1>6, <1>7, <1>8 DEF Actualiza

LEMMA RenombraArchivoInv ==
  ASSUME Inv, NEW h \in Hilo, RenombraArchivo(h), hilo[h] # OCIOSO,
         UNCHANGED <<pedidos, caidas>>
  PROVE  Inv'
<1> DEFINE r == hilo[h]
           k == r.clave
<1>0. /\ r \in Pedido /\ Bien(r, compartidos) /\ {k, r.destino} \subseteq Clave /\ Tipos
      /\ r.paso \in ConLeido => r.leido \in Metadato
  BY EnTrabajo DEF Inv
<1>1. CASE renombraHay(h)
  BY <1>0, <1>1, EnBien, LeeBien DEF renombraHay, Pasos, ConLeido, Compartiendo
<1>2. CASE renombraMueve(h)
  <2> DEFINE falla == disco[k][r.n] = NADA \/ ~HayCarpeta(r.destino)
             q == [r EXCEPT !.n = @ + 1]
  <2>1. /\ r.paso = "ren_mueve" /\ Sigue(h, IF falla THEN OCIOSO ELSE q)
        /\ disco' = IF falla THEN disco ELSE Renombra(k, r.destino, r.n)
        /\ UNCHANGED <<carpetas, meta, permisos, sucios, compartidos>>
    BY <1>2 DEF renombraMueve, EscribeDisco
  <2> HIDE DEF falla
  <2>2. q \in Pedido
    BY <1>0 DEF Pedido
  <2>3. Bien(q, compartidos)
    BY <1>0, <2>1 DEF Pedido, Bien
  <2> HIDE DEF q
  <2>4. Hilos'
    BY <2>1, <2>2, <2>3, HilosSiguen DEF Inv
  <2>5. disco' \in Disco
    BY <1>0, <2>1, RenombraBien DEF Tipos, Pedido
  <2> QED
    BY <2>1, <2>4, <2>5 DEF Inv, Tipos, SinIntrusos
<1>3. CASE renombraGet(h)
  <2> DEFINE q == [En("ren_indice", r) EXCEPT !.pend = r.lista \ {k.dueno}]
  <2>1. r.paso = "ren_mueve" /\ Lee(h, q)
    BY <1>3 DEF renombraGet, Get
  <2>2. q \in Pedido
    BY <1>0 DEF En, Pedido, Pasos
  <2>3. Bien(q, compartidos)
    BY <1>0, <2>1, <2>2 DEF En, Pedido, Bien, ConLeido, Compartiendo
  <2> HIDE DEF q
  <2> QED
    BY <2>1, <2>2, <2>3, LeeBien
<1>4. CASE renombraIndice(h)
  <2>1. PICK g \in r.pend :
          Lee(h, [En("ren_modify", r) EXCEPT
                    !.pend = @ \ {g}, !.quien = g,
                    !.indices[g] = (permisos[g] \ {k}) \cup {r.destino}])
    BY <1>4 DEF renombraIndice
  <2> DEFINE I == (permisos[g] \ {k}) \cup {r.destino}
             s == En("ren_modify", r)
             q == [s EXCEPT !.pend = @ \ {g}, !.quien = g, !.indices[g] = I]
  <2>2. r.paso = "ren_indice" /\ g \in Usuario /\ g \in r.lista
    BY <1>0, <1>4 DEF renombraIndice, Pedido, Bien
  <2>3. I \subseteq Clave
    BY <1>0, <2>2 DEF Tipos
  <2>4. \A c \in I : <<g, c>> \in compartidos
    BY <1>0, <2>2 DEF Bien, Compartiendo, Inv, SinIntrusos
  <2>5. r.pend \subseteq r.lista
    BY <1>0, <2>2 DEF Bien
  <2>6. s \in Pedido /\ Bien(s, compartidos)
    BY <1>0, <2>2, <2>5, EnBien DEF Pasos, ConLeido, Compartiendo
  <2>7. Lee(h, q)
    BY <2>1
  <2> HIDE DEF I, s
  <2>8. q \in Pedido
    BY <2>2, <2>3, <2>6 DEF Pedido
  <2>9. Bien(q, compartidos)
    BY <2>2, <2>4, <2>6 DEF Pedido, Bien
  <2> HIDE DEF q
  <2> QED
    BY <2>7, <2>8, <2>9, LeeBien
<1>5. CASE renombraModify(h)
  <2>1. /\ r.paso = "ren_modify" /\ Sigue(h, En("ren_indice", r))
        /\ permisos' = [permisos EXCEPT ![r.quien] = r.indices[r.quien]]
        /\ UNCHANGED <<carpetas, disco, meta, sucios, compartidos>>
    BY <1>5 DEF renombraModify, EscribeDB
  <2>2. r.pend \subseteq r.lista
    BY <1>0, <2>1 DEF Bien
  <2>3. Hilos'
    BY <1>0, <2>1, <2>2, EnBien, HilosSiguen DEF Inv, Pasos, ConLeido, Compartiendo
  <2>4. permisos' \in [Usuario -> SUBSET Clave] /\ SinIntrusos'
    BY <1>0, <2>1, IndiceEscrito
  <2> QED
    BY <2>1, <2>3, <2>4 DEF Inv, Tipos
<1>6. CASE renombraLote(h)
  BY <1>0, <1>6, EnBien, LeeBien DEF renombraLote, Pasos, ConLeido, Compartiendo
<1>7. CASE renombraEscribe(h)
  <2>1. /\ r.paso = "ren_escribe" /\ Sigue(h, OCIOSO)
        /\ meta' = [meta EXCEPT ![k] = NADA, ![r.destino] = Enviado(r)]
        /\ UNCHANGED <<carpetas, disco, permisos, sucios, compartidos>>
    BY <1>7 DEF renombraEscribe, EscribeDB
  <2>2. Hilos'
    BY <2>1, HilosSiguen DEF Inv
  <2>3. Enviado(r) \in Metadato
    BY <1>0, <2>1 DEF Enviado, Metadato, ConLeido, Pedido, Clave
  <2>4. meta' \in [Clave -> Metadato \cup {NADA}]
    BY <1>0, <2>1, <2>3 DEF Tipos
  <2> QED
    BY <2>1, <2>2, <2>4 DEF Inv, Tipos, SinIntrusos
<1> QED
  BY <1>1, <1>2, <1>3, <1>4, <1>5, <1>6, <1>7 DEF RenombraArchivo

LEMMA BuscaInv ==
  ASSUME Inv, NEW h \in Hilo, busca(h), hilo[h] # OCIOSO, UNCHANGED <<pedidos, caidas>>
  PROVE  Inv'
<1> DEFINE r == hilo[h]
<1>0. r \in Pedido /\ Bien(r, compartidos) /\ r.paso = "busca"
  BY EnTrabajo DEF busca
<1>1. PICK c \in r.claves : Lee(h, OCIOSO) \/ Lee(h, [r EXCEPT !.claves = @ \ {c}])
  BY DEF busca, Get
<1> DEFINE q == [r EXCEPT !.claves = @ \ {c}]
<1>2. q \in Pedido
  BY <1>0 DEF Pedido
<1>3. Bien(q, compartidos)
  BY <1>0 DEF Pedido, Bien
<1>4. Lee(h, OCIOSO) \/ Lee(h, q)
  BY <1>1
<1> HIDE DEF q
<1> QED
  BY <1>2, <1>3, <1>4, LeeBien

\* The process dies, by itself or by a get of a thread.
LEMMA CaeInv ==
  ASSUME Inv, Cae, pedidos' = pedidos, caidas' \in 0..MaxCaidas
  PROVE  Inv'
<1>1. Hilos'
  BY DEF Cae, Hilos
<1>2. \A h \in Hilo : hilo[h].toca \subseteq Usuario \X Ruta
  BY DEF Inv, Hilos, Pedido, OCIOSO
<1>3. sucios' \subseteq Usuario \X Ruta
  BY <1>2 DEF Cae, Inv, Tipos
<1> QED
  BY <1>1, <1>3 DEF Cae, Inv, Tipos, SinIntrusos

-----------------------------------------------------------------------------
(* Init and Next *)

LEMMA InitInv == ASSUME Init PROVE Inv
<1>0. PICK K \in Iniciales : \E C \in SUBSET {k \in K : Viva(k)} : Guardados(K, C)
  BY DEF Init
<1>1. PICK C \in SUBSET {k \in K : Viva(k)} : Guardados(K, C)
  BY <1>0
<1>3. K \subseteq Clave /\ C \subseteq Clave
  BY UnidadesAssumption
<1>4. /\ carpetas = [u \in Usuario |-> IF u \in Unidades THEN Carpeta ELSE {<<>>}]
      /\ hilo = [h \in Hilo |-> OCIOSO]
      /\ pedidos = 0 /\ caidas = 0 /\ sucios = {}
  BY DEF Init
<1>5. Hilos
  BY <1>4 DEF Hilos
<1>6. carpetas \in [Usuario -> SUBSET Carpeta]
  BY <1>4 DEF Carpeta
<1>7. disco \in Disco
  BY <1>1, <1>3, UnidadesAssumption DEF Guardados, Disco, Contenido
<1>8. meta \in [Clave -> Metadato \cup {NADA}]
  <2> SUFFICES ASSUME NEW k \in Clave, k \in K PROVE meta[k] \in Metadato
    BY <1>1, <1>3 DEF Guardados
  <2> QED
    BY <1>1, UnidadesAssumption, MaxVersionAssumption DEF Guardados, Metadato, Clave, Version
<1>9. permisos \in [Usuario -> SUBSET Clave] /\ compartidos \subseteq Usuario \X Clave
  BY <1>1, <1>3 DEF Guardados
<1>10. SinIntrusos
  BY <1>1 DEF Guardados, SinIntrusos
<1> QED
  BY <1>4, <1>5, <1>6, <1>7, <1>8, <1>9, <1>10, UnidadesAssumption DEF Inv, Tipos

LEMMA NextInv == ASSUME Inv, [Next]_vars PROVE Inv'
<1>1. ASSUME NEW h \in Hilo, Pide(h) PROVE Inv'
  BY <1>1, PideInv
<1>2. ASSUME NEW h \in Hilo, Paso(h) PROVE Inv'
  BY <1>2, SubeInv, BorraInv, BorraCarpetaInv, PurgaInv, RestauraInv, ActualizaInv,
     RenombraArchivoInv, BuscaInv DEF Paso
<1>3. ASSUME NEW h \in Hilo, Lanza(h) PROVE Inv'
  BY <1>3, CaeInv DEF Lanza, Inv, Tipos
<1>4. CASE Caida
  BY <1>4, CaeInv, UnidadesAssumption DEF Caida, Inv, Tipos
<1>5. CASE UNCHANGED vars
  BY <1>5 DEF vars, Inv, Tipos, Hilos, SinIntrusos
<1> QED
  BY <1>1, <1>2, <1>3, <1>4, <1>5 DEF Next

LEMMA InvSiempre == Spec => []Inv
<1>1. Init => Inv
  BY InitInv
<1>2. Inv /\ [Next]_vars => Inv'
  BY NextInv
<1> QED
  BY <1>1, <1>2, PTL DEF Spec

\* The stores and the threads keep their types, for any number of threads, requests
\* and crashes: no interleaving makes a store hold what was never written to it.
THEOREM TipoHilos == Spec => []TypeOK
<1>1. Inv => TypeOK
  BY DEF Inv, Tipos, Hilos, Pedido, Disco, TypeOK
<1> QED
  BY <1>1, InvSiempre, PTL

\* No interleaving of agregarPermiso, eliminarPermiso, the deletion's batch and the
\* renaming of a path, and no crash, puts in a user's index a path nobody shared with
\* him, for any number of threads, requests and crashes.
THEOREM SinIntrusosSiempre == Spec => []SinIntrusos
<1>1. Inv => SinIntrusos
  BY DEF Inv
<1> QED
  BY <1>1, InvSiempre, PTL
=============================================================================
