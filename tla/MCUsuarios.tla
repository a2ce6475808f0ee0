---------------------------- MODULE MCUsuarios ----------------------------
(* Usuarios for TLC: users are alike, and so are threads. *)
EXTENDS Usuarios, TLC

Simetria == Permutations(Usuario) \cup Permutations(Hilo)
=============================================================================
