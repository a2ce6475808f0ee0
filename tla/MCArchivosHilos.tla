-------------------------- MODULE MCArchivosHilos --------------------------
(* ArchivosHilos on one drive, with a guest. *)
EXTENDS ArchivosHilos, TLC

\* Two files that can be renamed to each other, in a folder.
a == <<"d", "a">>
b == <<"d", "b">>

MCRuta == {a, b}

\* The files there at the start, up to the exchange of the names a and b: a live, alone
\* or with b live or with one of them in the trash; or both in the trash.
MCIniciales ==
  {{[dueno |-> u, ruta |-> a, sec |-> VIVA], [dueno |-> u, ruta |-> r, sec |-> n]} :
     u \in Unidades, r \in MCRuta, n \in {0, VIVA}}
  \cup {{[dueno |-> u, ruta |-> r, sec |-> 0] : r \in MCRuta} : u \in Unidades}

\* A thread is not told from another.
Simetria == Permutations(Hilo)
=============================================================================
