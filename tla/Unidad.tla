------------------------------- MODULE Unidad -------------------------------
(***************************************************************************)
(* What UDrive promises about its drives, and all that a user can see of   *)
(* them: which versions of each file can be downloaded, and which guests   *)
(* reach it.  There is no metadata, no folder and no order of steps here:  *)
(* a request takes effect at once, or not at all.  Archivos implements     *)
(* this specification when the clients are careful.                        *)
(***************************************************************************)
EXTENDS Claves

VARIABLES registrados,  \* the users who have a drive
          versiones,    \* versiones[k]: the versions of k that can be read
          lectores      \* lectores[k]: the guests who reach k

vars == <<registrados, versiones, lectores>>

Hay(k) == versiones[k] # {}

Alcanza(u, k) == u = k.dueno \/ u \in lectores[k]

Libre(k) == ~Hay(k) /\ lectores[k] = {}

\* The file of k goes whole to the free key c, with the guests L.
Pasa(k, c, L) ==
  /\ Libre(c)
  /\ versiones' = [versiones EXCEPT ![k] = {}, ![c] = versiones[k]]
  /\ lectores' = [lectores EXCEPT ![k] = {}, ![c] = L]
  /\ UNCHANGED registrados

Init ==
  /\ registrados = {}
  /\ versiones = [k \in Clave |-> {}]
  /\ lectores = [k \in Clave |-> {}]

Alta(u) ==
  /\ u \notin registrados
  /\ registrados' = registrados \cup {u}
  /\ UNCHANGED <<versiones, lectores>>

\* The owner starts a file, private; whoever reaches it adds its next version.
Subir(u, k) ==
  /\ Viva(k) /\ Alcanza(u, k)
  /\ \E n \in Version : /\ versiones[k] = 1..(n - 1)
                        /\ versiones' = [versiones EXCEPT ![k] = 1..n]
  /\ UNCHANGED <<registrados, lectores>>

\* The files of S go to the trash of their owners, each whole, to a place that
\* was free, where no guest reaches it.
Borrar(u, S) ==
  /\ \A k \in S : Alcanza(u, k)
  /\ \E sec \in [S -> Secuencia] :
       LET Destino(c) == ~Viva(c) /\ \E k \in S : c = EnPapelera(k, sec[k])
           Origen(c) == [c EXCEPT !.sec = VIVA]
       IN  /\ \A k \in S : Libre(EnPapelera(k, sec[k]))
           /\ versiones' = [c \in Clave |-> IF c \in S THEN {}
                              ELSE IF Destino(c) THEN versiones[Origen(c)]
                              ELSE versiones[c]]
           /\ lectores' = [c \in Clave |-> IF c \in S THEN {} ELSE lectores[c]]
  /\ UNCHANGED registrados

\* Only the owner reaches his trash.
Purgar(u, k) ==
  /\ ~Viva(k) /\ u = k.dueno
  /\ versiones' = [versiones EXCEPT ![k] = {}]
  /\ UNCHANGED <<registrados, lectores>>

Restaurar(u, k) ==
  /\ ~Viva(k) /\ u = k.dueno
  /\ Pasa(k, ClaveReal(u, k), {})

\* Whoever reaches a file chooses who else does.
Compartir(u, k, L) ==
  /\ Viva(k) /\ Alcanza(u, k)
  /\ lectores' = [lectores EXCEPT ![k] = L]
  /\ UNCHANGED <<registrados, versiones>>

Renombrar(u, k, nueva, L) ==
  /\ Viva(k) /\ MismaCarpeta(k, nueva) /\ Alcanza(u, k)
  /\ Pasa(k, nueva, L)

Next ==
  \/ \E u \in Usuario : Alta(u)
  \/ \E u \in registrados :
       \/ \E k \in Clave : Subir(u, k)
       \/ \E S \in SUBSET {k \in Clave : Viva(k) /\ Hay(k)} : Borrar(u, S)
       \/ \E k \in {c \in Clave : Hay(c)} :
            \/ Purgar(u, k)
            \/ Restaurar(u, k)
            \/ \E L \in SUBSET (registrados \ {k.dueno}) :
                 \/ Compartir(u, k, L)
                 \/ \E nueva \in Clave : Renombrar(u, k, nueva, L)

Spec == Init /\ [][Next]_vars
=============================================================================
