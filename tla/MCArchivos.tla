----------------------------- MODULE MCArchivos -----------------------------
(* Archivos on small drives. *)
EXTENDS Archivos, TLC

\* Two files that can be renamed to each other, in a folder or in the root.
MCRuta == {<<"d", "a">>, <<"d", "b">>}

MCRutaRaiz == {<<"a">>, <<"b">>}

CONSTANTS MaxArchivos,  \* bound: files, live or deleted, that exist at once
          MaxCompartidos \* bound: paths in all the indexes together

Acotado ==
  /\ Cardinality({k \in Clave : meta[k] # NADA \/ disco[k] # {}}) <= MaxArchivos
  /\ Cardinality({p \in Usuario \X Clave : p[2] \in permisos[p[1]]}) <= MaxCompartidos

\* No guest is told from another, nor a drive from another.
Simetria == Permutations(Usuario)
=============================================================================
