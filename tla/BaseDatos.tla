----------------------------- MODULE BaseDatos -----------------------------
(***************************************************************************)
(* BD and its two implementations, given the same calls: MapDB, a map in    *)
(* memory (mapDB.cpp), and BaseDeDatos, which stores it in RocksDB           *)
(* (basededatos.cpp).  A client of theirs calls put, modify and erase, or   *)
(* fills a Batch and has it written as a whole.  One thread calls them.     *)
(***************************************************************************)
EXTENDS Naturals, Sequences, SequencesExt

CONSTANTS Clave, Valor,
          NADA,             \* no such key
          MaxAcciones       \* bound: actions of a batch

ASSUME NadaAssumption == NADA \notin Valor

VACIO == ""                 \* the value Batch::erase stores with its key

DBAction == [action : {"PUT", "MODIFY"}, key : Clave, value : Valor]
            \cup [action : {"ERASE"}, key : Clave, value : {VACIO}]

Base == [Clave -> Valor \cup {NADA}]

VARIABLES mapa,     \* the contents of MapDB
          rocks,    \* the contents of RocksDB
          batch,    \* the actions of the Batch being filled
          resp      \* what the last call did, in each: TRUE, FALSE, or it threw

vars == <<mapa, rocks, batch, resp>>

Respuesta == {"true", "false", "KeyNotFound", "out_of_range"}

TypeOK ==
  /\ mapa \in Base
  /\ rocks \in Base
  /\ batch \in Seq(DBAction)
  /\ resp \in [mapa : Respuesta, rocks : Respuesta]

Init ==
  /\ mapa = [k \in Clave |-> NADA]
  /\ rocks = [k \in Clave |-> NADA]
  /\ batch = <<>>
  /\ resp = [mapa |-> "true", rocks |-> "true"]

-----------------------------------------------------------------------------
(* Single calls *)

contains(db, k) == db[k] # NADA

Con(db, k, v) == [db EXCEPT ![k] = v]

\* put does not replace: it returns false for a key that is there.
put(k, v) ==
  /\ mapa' = IF contains(mapa, k) THEN mapa ELSE Con(mapa, k, v)
  /\ rocks' = IF contains(rocks, k) THEN rocks ELSE Con(rocks, k, v)
  /\ resp' = [mapa |-> IF contains(mapa, k) THEN "false" ELSE "true",
              rocks |-> IF contains(rocks, k) THEN "false" ELSE "true"]
  /\ UNCHANGED batch

\* What a call that needs its key answers.
SiEsta(db, k) == IF contains(db, k) THEN "true" ELSE "KeyNotFound"

modify(k, v) ==
  /\ mapa' = IF contains(mapa, k) THEN Con(mapa, k, v) ELSE mapa
  /\ rocks' = IF contains(rocks, k) THEN Con(rocks, k, v) ELSE rocks
  /\ resp' = [mapa |-> SiEsta(mapa, k), rocks |-> SiEsta(rocks, k)]
  /\ UNCHANGED batch

erase(k) ==
  /\ mapa' = Con(mapa, k, NADA)
  /\ rocks' = Con(rocks, k, NADA)
  /\ resp' = [mapa |-> SiEsta(mapa, k), rocks |-> SiEsta(rocks, k)]
  /\ UNCHANGED batch

-----------------------------------------------------------------------------
(* Batches *)

\* Batch::put, Batch::modify and Batch::erase add an action at the end.  The batches
\* that the managers fill name a key twice in one case: the deletion of a file whose
\* user list has a guest twice modifies his index twice.
agregar(a) ==
  /\ Len(batch) < MaxAcciones
  /\ \A i \in DOMAIN batch :
       batch[i].key = a.key => batch[i].action = "MODIFY" /\ a.action = "MODIFY"
  /\ batch' = Append(batch, a)
  /\ UNCHANGED <<mapa, rocks, resp>>

\* Mutant: an action that modifies is not checked.
checkActionPut(db, a) == IF a.action = "PUT" THEN ~contains(db, a.key) ELSE TRUE

\* The check both implementations make of every action before running any:
\* against the database as it is, not as the earlier actions will leave it.
checkAction(db, a) ==
  IF a.action = "PUT" THEN ~contains(db, a.key) ELSE contains(db, a.key)

checkBatch(db) == \A i \in DOMAIN batch : checkAction(db, batch[i])

\* MapDB runs the actions on the map one by one: insert does not replace, at
\* throws out_of_range, which stops the batch there.
executeAction(s, a) ==
  CASE s.lanzo -> s
    [] a.action = "PUT" /\ contains(s.db, a.key) -> s
    [] a.action = "PUT" /\ ~contains(s.db, a.key) -> [s EXCEPT !.db = Con(@, a.key, a.value)]
    [] a.action = "MODIFY" /\ contains(s.db, a.key) -> [s EXCEPT !.db = Con(@, a.key, a.value)]
    [] a.action = "MODIFY" /\ ~contains(s.db, a.key) -> [s EXCEPT !.lanzo = TRUE]
    [] a.action = "ERASE" -> [s EXCEPT !.db = Con(@, a.key, NADA)]

EjecutadoEnMapa == FoldLeft(executeAction, [db |-> mapa, lanzo |-> FALSE], batch)

\* Mutant: MODIFY falls through to ERASE.
addActionToBatchCae(db, a) == Con(db, a.key, IF a.action = "PUT" THEN a.value ELSE NADA)

\* Mutant: ERASE writes an empty value.
addActionToBatchVacia(db, a) == Con(db, a.key, a.value)

\* RocksDB gets a Put or a Delete for each action and runs them together.
addActionToBatch(db, a) == Con(db, a.key, IF a.action = "ERASE" THEN NADA ELSE a.value)

EscritoEnRocks == FoldLeft(addActionToBatch, rocks, batch)

\* writeBatch on both.
writeBatch ==
  /\ batch # <<>>
  /\ mapa' = IF checkBatch(mapa) THEN EjecutadoEnMapa.db ELSE mapa
  /\ rocks' = IF checkBatch(rocks) THEN EscritoEnRocks ELSE rocks
  /\ resp' = [mapa |-> CASE ~checkBatch(mapa) -> "false"
                         [] checkBatch(mapa) /\ EjecutadoEnMapa.lanzo -> "out_of_range"
                         [] OTHER -> "true",
              rocks |-> IF checkBatch(rocks) THEN "true" ELSE "false"]
  /\ batch' = <<>>

Next ==
  \/ \E k \in Clave, v \in Valor : put(k, v) \/ modify(k, v)
  \/ \E k \in Clave : erase(k)
  \/ \E a \in DBAction : agregar(a)
  \/ writeBatch

Spec == Init /\ [][Next]_vars

-----------------------------------------------------------------------------
(* Properties *)

\* The two implementations cannot be told apart: same contents, same answers.
\* The server is run on RocksDB and its tests, and the build without RocksDB, on
\* MapDB.
Indistinguibles == mapa = rocks /\ resp.mapa = resp.rocks

\* A batch is written in its totality or, if anything fails, not at all, says
\* batch.h: here by what each key must hold afterwards, which is what the last action
\* that names it says.
TodoONada ==
  [][ batch # <<>> /\ batch' = <<>> =>
      \A db \in {<<"mapa", mapa, mapa'>>, <<"rocks", rocks, rocks'>>} :
        IF resp'[db[1]] = "true"
        THEN \A k \in Clave :
               IF \E i \in DOMAIN batch : batch[i].key = k
               THEN \E i \in DOMAIN batch :
                      /\ batch[i].key = k
                      /\ \A j \in DOMAIN batch : batch[j].key = k => j <= i
                      /\ db[3][k] = IF batch[i].action = "ERASE" THEN NADA ELSE batch[i].value
               ELSE db[3][k] = db[2][k]
        ELSE db[3] = db[2] ]_vars
=============================================================================
