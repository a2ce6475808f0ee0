--------------------------- MODULE Servidor_proof ---------------------------
(* A proof about Servidor, for any number of threads. *)
EXTENDS Servidor, TLAPS

\* What has been joined has finished, and nothing is freed before all have.
Inv ==
  /\ TypeOK
  /\ main \in {"constructor", "espera", "join"} => vivos = Recurso
  /\ main = "join" => \A i \in Thread : i < proximo => thread[i] = "fin"
  /\ main \in {"delete", "fin"} => \A i \in Thread : thread[i] = "fin"

LEMMA InitInv == Init => Inv
BY CantThreadsAssumption, MaxPedidosAssumption DEF Init, Inv, TypeOK, Thread

LEMMA MainInv == Inv /\ Main => Inv'
<1> SUFFICES ASSUME Inv, Main PROVE Inv'
  OBVIOUS
<1> USE CantThreadsAssumption DEF Inv, TypeOK, Thread
<1>1. CASE lanzarThread
  BY <1>1 DEF lanzarThread
<1>2. CASE lanzado
  BY <1>2 DEF lanzado
<1>3. CASE dejarDeEsperar
  BY <1>3 DEF dejarDeEsperar
<1>4. CASE join
  BY <1>4 DEF join
<1>5. CASE joinTerminado
  BY <1>5 DEF joinTerminado
<1>6. ASSUME NEW r \in Recurso, delete(r) PROVE Inv'
  BY <1>6 DEF delete
<1> QED
  BY <1>1, <1>2, <1>3, <1>4, <1>5, <1>6 DEF Main

LEMMA HiloInv == ASSUME Inv, NEW i \in Thread, Hilo(i) PROVE Inv'
<1>1. /\ thread[i] # "fin" /\ UNCHANGED <<running, main, proximo, vivos>>
      /\ \A j \in Thread : j # i => thread'[j] = thread[j]
  BY DEF Inv, TypeOK, Hilo, comprobar, requestHandler, responder, volverDePoll
<1>2. thread' \in [Thread -> {"nuevo", "while", "poll", "pedido", "fin"}]
  BY DEF Inv, TypeOK, Hilo, comprobar, requestHandler, responder, volverDePoll
<1>3. pedidos' \in [Thread -> 0..MaxPedidos]
  BY MaxPedidosAssumption DEF Inv, TypeOK, Hilo, comprobar, requestHandler, responder, volverDePoll
<1> QED
  BY <1>1, <1>2, <1>3 DEF Inv, TypeOK

LEMMA InvSiempre == Spec => []Inv
<1>1. Inv /\ [Next]_vars => Inv'
  <2> SUFFICES ASSUME Inv, [Next]_vars PROVE Inv'
    OBVIOUS
  <2>1. CASE close
    BY <2>1 DEF close, Inv, TypeOK
  <2>2. CASE UNCHANGED vars
    BY <2>2 DEF vars, Inv, TypeOK
  <2> QED
    BY <2>1, <2>2, MainInv, HiloInv DEF Next
<1> QED
  BY <1>1, InitInv, PTL DEF Spec

\* The counters of started and joined threads and of requests stay within what the
\* code asked for, for any number of threads and of requests in a poll.
THEOREM TipoServidor == Spec => []TypeOK
<1>1. Inv => TypeOK
  BY DEF Inv
<1> QED
  BY <1>1, InvSiempre, PTL

\* ~Server joins every thread before it frees the servers, the databases, the
\* managers and the handlers, whenever the signal arrives: no thread that has
\* not ended finds any of them freed.
THEOREM NadaBorrado == Spec => []NadaBorradoEnUso
<1>1. Inv => NadaBorradoEnUso
  BY DEF Inv, TypeOK, NadaBorradoEnUso
<1> QED
  BY <1>1, InvSiempre, PTL
=============================================================================
