------------------------------ MODULE Servidor ------------------------------
(***************************************************************************)
(* lanzarServer and Server: the main thread makes the server, starts its    *)
(* threads and waits; each thread polls its mongoose server, which calls    *)
(* back with the requests; a signal clears the flag running; the main       *)
(* thread then joins the threads in turn and frees what they used.          *)
(*                                                                          *)
(* What a request does is the business of the other modules; here it holds  *)
(* pointers to the databases, the managers and the handlers.                *)
(***************************************************************************)
EXTENDS Naturals

CONSTANTS cantThreads,  \* conf.cantThreads, or one if it is less
          MaxPedidos    \* bound: requests that one poll delivers

ASSUME CantThreadsAssumption == cantThreads \in Nat \ {0}
ASSUME MaxPedidosAssumption == MaxPedidos \in Nat \ {0}

Thread == 1..cantThreads

\* What ~Server frees, in its order.
Recurso == {"servers", "bases", "manejadores", "mapaURI"}

VARIABLES running,      \* the flag the signal handler clears
          main,         \* where the main thread is
          proximo,      \* the thread it starts or joins next
          thread,       \* thread[i]: where thread i is
          pedidos,      \* pedidos[i]: requests its current poll has delivered
          vivos         \* what has not been freed

vars == <<running, main, proximo, thread, pedidos, vivos>>

TypeOK ==
  /\ running \in BOOLEAN
  /\ main \in {"constructor", "espera", "join", "delete", "fin"}
  /\ proximo \in 1..(cantThreads + 1)
  /\ thread \in [Thread -> {"nuevo", "while", "poll", "pedido", "fin"}]
  /\ pedidos \in [Thread -> 0..MaxPedidos]
  /\ vivos \subseteq Recurso

Init ==
  /\ running = TRUE
  /\ main = "constructor"
  /\ proximo = 1
  /\ thread = [i \in Thread |-> "nuevo"]
  /\ pedidos = [i \in Thread |-> 0]
  /\ vivos = Recurso

-----------------------------------------------------------------------------
(* The main thread *)

\* Mutant: the loop over the servers goes one too far.
lanzarThreadDeMas ==
  /\ main = "constructor" /\ proximo <= cantThreads + 1
  /\ thread' = [thread EXCEPT ![proximo] = "while"]
  /\ proximo' = proximo + 1
  /\ UNCHANGED <<running, main, pedidos, vivos>>

\* Server::Server, which has made everything else by now, starts a thread.
lanzarThread ==
  /\ main = "constructor" /\ proximo <= cantThreads
  /\ thread' = [thread EXCEPT ![proximo] = "while"]
  /\ proximo' = proximo + 1
  /\ UNCHANGED <<running, main, pedidos, vivos>>

lanzado ==
  /\ main = "constructor" /\ proximo > cantThreads
  /\ main' = "espera"
  /\ UNCHANGED <<running, proximo, thread, pedidos, vivos>>

\* lanzarServer looks at running every millisecond; when it is cleared the
\* server goes out of scope.
dejarDeEsperar ==
  /\ main = "espera" /\ ~running
  /\ main' = "join" /\ proximo' = 1
  /\ UNCHANGED <<running, thread, pedidos, vivos>>

\* Mutant: the threads are not waited for.
joinSinEsperar ==
  /\ main = "join" /\ proximo <= cantThreads
  /\ proximo' = proximo + 1
  /\ UNCHANGED <<running, main, thread, pedidos, vivos>>

\* ~Server joins the next thread, which waits for it.
join ==
  /\ main = "join" /\ proximo <= cantThreads
  /\ thread[proximo] = "fin"
  /\ proximo' = proximo + 1
  /\ UNCHANGED <<running, main, thread, pedidos, vivos>>

joinTerminado ==
  /\ main = "join" /\ proximo > cantThreads
  /\ main' = "delete"
  /\ UNCHANGED <<running, proximo, thread, pedidos, vivos>>

\* The servers go first, then the databases, the managers and the handlers.
delete(r) ==
  /\ main = "delete"
  /\ r \in vivos
  /\ r = "bases" => "servers" \notin vivos
  /\ r = "manejadores" => "bases" \notin vivos
  /\ r = "mapaURI" => "manejadores" \notin vivos
  /\ vivos' = vivos \ {r}
  /\ main' = IF vivos' = {} THEN "fin" ELSE main
  /\ UNCHANGED <<running, proximo, thread, pedidos>>

-----------------------------------------------------------------------------
(* The threads *)

\* Mutant: a thread that never looks at running.
comprobarSiempre(i) ==
  /\ thread[i] = "while"
  /\ thread' = [thread EXCEPT ![i] = "poll"]
  /\ pedidos' = [pedidos EXCEPT ![i] = 0]
  /\ UNCHANGED <<running, main, proximo, vivos>>

\* pollServer: while (running) ...
comprobar(i) ==
  /\ thread[i] = "while"
  /\ thread' = [thread EXCEPT ![i] = IF running THEN "poll" ELSE "fin"]
  /\ pedidos' = [pedidos EXCEPT ![i] = 0]
  /\ UNCHANGED <<running, main, proximo, vivos>>

\* mg_poll_server calls requestHandler with a request ...
requestHandler(i) ==
  /\ thread[i] = "poll" /\ pedidos[i] < MaxPedidos
  /\ thread' = [thread EXCEPT ![i] = "pedido"]
  /\ pedidos' = [pedidos EXCEPT ![i] = @ + 1]
  /\ UNCHANGED <<running, main, proximo, vivos>>

\* ... which is answered ...
responder(i) ==
  /\ thread[i] = "pedido"
  /\ thread' = [thread EXCEPT ![i] = "poll"]
  /\ UNCHANGED <<running, main, proximo, pedidos, vivos>>

\* ... and returns, when its time is up or its connections have been served.
volverDePoll(i) ==
  /\ thread[i] = "poll"
  /\ thread' = [thread EXCEPT ![i] = "while"]
  /\ UNCHANGED <<running, main, proximo, pedidos, vivos>>

\* SIGTERM or SIGINT, as soon as lanzarServer has asked for them.
close ==
  /\ running
  /\ running' = FALSE
  /\ UNCHANGED <<main, proximo, thread, pedidos, vivos>>

Main == lanzarThread \/ lanzado \/ dejarDeEsperar \/ join \/ joinTerminado
        \/ (\E r \in Recurso : delete(r))

Hilo(i) == comprobar(i) \/ requestHandler(i) \/ responder(i) \/ volverDePoll(i)

Next == Main \/ (\E i \in Thread : Hilo(i)) \/ close

Spec == Init /\ [][Next]_vars

\* The operating system runs the main thread and every other; a poll returns
\* and a request is answered.  Nobody need send a signal.
FairSpec == Spec /\ WF_vars(Main) /\ \A i \in Thread : WF_vars(Hilo(i))

-----------------------------------------------------------------------------
(* Properties *)

\* No thread polls or answers with anything freed: ~Server joins all of them
\* before it deletes the first thing, also when the signal arrives while the
\* threads are being started.
NadaBorradoEnUso ==
  \A i \in Thread : thread[i] # "fin" => vivos = Recurso

\* After a signal the server ends, whatever its threads were doing.
CierraAlFin == ~running ~> main = "fin"
=============================================================================
