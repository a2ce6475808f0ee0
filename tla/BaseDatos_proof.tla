--------------------------- MODULE BaseDatos_proof ---------------------------
(* The theorems about BaseDatos: for any keys, values and length of a batch, the  *)
(* two implementations answer the same and a batch is all or nothing.             *)
EXTENDS BaseDatos, WellFoundedInduction, TLAPS

-----------------------------------------------------------------------------
(* What a fold over a sequence computes *)

\* Induction, from the fact that a set of naturals has a least element.
LEMMA Induccion ==
  ASSUME NEW S \in SUBSET Nat, 0 \in S, \A n \in S : n + 1 \in S
  PROVE  S = Nat
<1> SUFFICES ASSUME Nat \ S # {} PROVE FALSE
  OBVIOUS
<1>1. PICK x \in Nat \ S : \A y \in Nat \ S : <<y, x>> \notin OpToRel(<, Nat)
  BY NatLessThanWellFounded, WFMin
<1>2. x - 1 \in Nat /\ x - 1 \notin S
  BY x # 0, (x - 1) + 1 = x
<1>3. <<x - 1, x>> \in OpToRel(<, Nat)
  BY <1>2 DEF OpToRel
<1> QED
  BY <1>1, <1>2, <1>3

LEMMA MaximoEs ==
  ASSUME NEW n \in Nat, NEW s \in SUBSET (1..(n + 1)), n + 1 \in s
  PROVE  Max(s) = n + 1
<1>1. \A x \in s : (\A y \in s : x >= y) <=> x = n + 1
  OBVIOUS
<1> QED
  BY <1>1 DEF Max

LEMMA HayMaximo ==
  ASSUME NEW n \in Nat, NEW s \in SUBSET (1..n), s # {}
  PROVE  Max(s) \in s
<1> DEFINE P(m) == \A t \in SUBSET (1..m) : t # {} => Max(t) \in t
           S == {m \in Nat : P(m)}
<1>0. \A m : m \in S <=> m \in Nat /\ P(m)
  <2> HIDE DEF P
  <2> QED
    BY DEF S
<1> HIDE DEF S
<1>1. 0 \in S
  <2>1. \A t \in SUBSET (1..0) : t = {}
    OBVIOUS
  <2> QED
    BY <1>0, <2>1
<1>2. ASSUME NEW m \in S PROVE m + 1 \in S
  <2>1. m \in Nat /\ \A t \in SUBSET (1..m) : t # {} => Max(t) \in t
    BY <1>0
  <2>2. ASSUME NEW t \in SUBSET (1..(m + 1)), t # {} PROVE Max(t) \in t
    <3>1. CASE m + 1 \in t
      BY <2>1, <3>1, MaximoEs
    <3>2. CASE m + 1 \notin t
      <4>1. t \in SUBSET (1..m)
        BY <2>1, <3>2
      <4> QED
        BY <2>1, <2>2, <4>1
    <3> QED
      BY <3>1, <3>2
  <2> QED
    BY <1>0, <2>1, <2>2
<1>3. S = Nat
  <2>1. S \in SUBSET Nat
    BY <1>0
  <2> QED
    BY <1>1, <1>2, <2>1, Induccion
<1> QED
  BY <1>0, <1>3

\* The recursive function by which a fold is defined, with F as its step, exists.
Pliega(g, F, base, n, seq) ==
  \A s \in SUBSET (1..n) :
    g[s] = IF s = {} THEN base ELSE F[<<g[s \ {Max(s)}], seq[Max(s)]>>]

LEMMA Pliegue ==
  ASSUME NEW T, NEW A, NEW F \in [T \X A -> T], NEW base \in T,
         NEW n \in Nat, NEW seq \in [1..n -> A]
  PROVE  \E g \in [SUBSET (1..n) -> T] : Pliega(g, F, base, n, seq)
<1> DEFINE Hasta(m, g) ==
             \A s \in SUBSET (1..m) :
               g[s] = IF s = {} THEN base ELSE F[<<g[s \ {Max(s)}], seq[Max(s)]>>]
           S == {m \in Nat : m <= n => \E g \in [SUBSET (1..m) -> T] : Hasta(m, g)}
           Existe(m) == \E g \in [SUBSET (1..m) -> T] : Hasta(m, g)
<1>0. \A m : m \in S <=> m \in Nat /\ (m <= n => Existe(m))
  OBVIOUS
<1> HIDE DEF S
<1>1. 0 \in S
  <2>1. SUBSET (1..0) = {{}}
    OBVIOUS
  <2>2. [s \in SUBSET (1..0) |-> base] \in [SUBSET (1..0) -> T]
    OBVIOUS
  <2>3. Hasta(0, [s \in SUBSET (1..0) |-> base])
    BY <2>1
  <2> QED
    BY <1>0, <2>2, <2>3
<1>2. ASSUME NEW m \in S PROVE m + 1 \in S
  <2> SUFFICES ASSUME m \in Nat, m + 1 <= n, Existe(m) PROVE Existe(m + 1)
    <3> HIDE DEF Existe
    <3> QED
      BY <1>0, <1>2
  <2>1. PICK g \in [SUBSET (1..m) -> T] : Hasta(m, g)
    OBVIOUS
  <2> DEFINE h == [s \in SUBSET (1..(m + 1)) |->
                     IF m + 1 \in s THEN F[<<g[s \ {m + 1}], seq[m + 1]>>] ELSE g[s]]
  <2>0. m \in Nat /\ m + 1 \in 1..n
    OBVIOUS
  <2>2. seq[m + 1] \in A
    BY <2>0
  <2>3. \A s \in SUBSET (1..(m + 1)) : s \ {m + 1} \in SUBSET (1..m)
    BY <2>0
  <2>4. \A s \in SUBSET (1..(m + 1)) : m + 1 \notin s => s \in SUBSET (1..m)
    BY <2>0
  <2>5. h \in [SUBSET (1..(m + 1)) -> T]
    BY <2>2, <2>3, <2>4
  <2>6. ASSUME NEW s \in SUBSET (1..(m + 1))
        PROVE  h[s] = IF s = {} THEN base ELSE F[<<h[s \ {Max(s)}], seq[Max(s)]>>]
    <3>1. CASE m + 1 \in s
      <4>1. Max(s) = m + 1
        BY <1>2, <3>1, MaximoEs
      <4>2. s \ {m + 1} \in SUBSET (1..(m + 1)) /\ m + 1 \notin s \ {m + 1}
        OBVIOUS
      <4>3. h[s \ {m + 1}] = g[s \ {m + 1}]
        BY <4>2
      <4> QED
        BY <3>1, <4>1, <4>3
    <3>2. CASE m + 1 \notin s
      <4>1. /\ s \in SUBSET (1..m) /\ s \ {Max(s)} \in SUBSET (1..m)
            /\ s \ {Max(s)} \in SUBSET (1..(m + 1)) /\ m + 1 \notin s \ {Max(s)}
        BY <2>4, <3>2
      <4>2. h[s] = g[s] /\ h[s \ {Max(s)}] = g[s \ {Max(s)}]
        BY <3>2, <4>1
      <4>3. g[s] = IF s = {} THEN base ELSE F[<<g[s \ {Max(s)}], seq[Max(s)]>>]
        BY <2>1, <4>1
      <4> QED
        BY <4>2, <4>3
    <3> QED
      BY <3>1, <3>2
  <2> HIDE DEF h
  <2> QED
    BY <2>5, <2>6
<1>3. S = Nat
  <2>1. S \in SUBSET Nat
    BY DEF S
  <2> QED
    BY <1>1, <1>2, <2>1, Induccion
<1>4. Existe(n)
  <2> HIDE DEF Existe
  <2> QED
    BY <1>0, <1>3
<1> QED
  BY <1>4 DEF Pliega

\* Step by step: the values of such a function on 1..i.
LEMMA Peldanos ==
  ASSUME NEW n \in Nat, NEW i \in 1..n
  PROVE  /\ 1..i \in SUBSET (1..n) /\ 1..i # {}
         /\ Max(1..i) = i /\ (1..i) \ {i} = 1..(i - 1)
<1>1. /\ i - 1 \in Nat /\ (i - 1) + 1 = i
      /\ 1..i \in SUBSET (1..((i - 1) + 1)) /\ (i - 1) + 1 \in 1..i
  OBVIOUS
<1>2. Max(1..i) = (i - 1) + 1
  BY <1>1, MaximoEs
<1>3. 1..i \in SUBSET (1..n) /\ 1..i # {} /\ (1..i) \ {i} = 1..(i - 1)
  OBVIOUS
<1>4. Max(1..i) = i
  BY <1>1, <1>2
<1> QED
  BY <1>3, <1>4

-----------------------------------------------------------------------------
(* What a batch does *)

\* Two actions of a batch on one key both modify it.
RepiteModificando ==
  \A i, j \in DOMAIN batch : batch[i].key = batch[j].key =>
    i = j \/ (batch[i].action = "MODIFY" /\ batch[j].action = "MODIFY")

Inv == TypeOK /\ Indistinguibles /\ RepiteModificando

Escribe(a) == IF a.action = "ERASE" THEN NADA ELSE a.value

\* The i-th action is the last of the first n on the key k.
UltimaDe(k, n, i) == i \in 1..n /\ batch[i].key = k /\ \A j \in 1..n : batch[j].key = k => j <= i

\* D after the first n actions of the batch.
Tras(D, n) ==
  [k \in Clave |-> IF \E i \in 1..n : UltimaDe(k, n, i)
                   THEN Escribe(batch[CHOOSE i \in 1..n : UltimaDe(k, n, i)])
                   ELSE D[k]]

LEMMA AccionEs ==
  ASSUME NEW a \in DBAction
  PROVE  /\ a.action \in {"PUT", "MODIFY", "ERASE"} /\ a.key \in Clave
         /\ Escribe(a) \in Valor \cup {NADA}
         /\ a.action # "ERASE" => a.value \in Valor
BY DEF DBAction, Escribe

LEMMA TrasNada ==
  ASSUME NEW D \in Base
  PROVE  Tras(D, 0) = D
BY DEF Tras, UltimaDe, Base

\* The last action of the first n on the key of the n-th is the n-th; on another key,
\* it is the one before.
LEMMA UltimaEs ==
  ASSUME NEW n \in Nat \ {0}, NEW k, NEW i
  PROVE  /\ k = batch[n].key => (UltimaDe(k, n, i) <=> i = n)
         /\ k # batch[n].key => (UltimaDe(k, n, i) <=> UltimaDe(k, n - 1, i))
<1>1. \A j \in 1..n : j = n \/ j \in 1..(n - 1)
  OBVIOUS
<1>2. \A j \in 1..(n - 1) : j \in 1..n /\ j <= n /\ j # n
  OBVIOUS
<1>3. n \in 1..n /\ n <= n /\ \A j \in 1..n : n <= j => j = n
  OBVIOUS
<1> QED
  BY <1>1, <1>2, <1>3 DEF UltimaDe

\* A key that is named has a last action.
LEMMA HayUltima ==
  ASSUME NEW n \in Nat, NEW k, NEW i \in 1..n, batch[i].key = k
  PROVE  \E j \in 1..n : UltimaDe(k, n, j)
<1> DEFINE P(m) == (\E j \in 1..m : batch[j].key = k) => \E j : UltimaDe(k, m, j)
           S == {m \in Nat : P(m)}
<1>0. \A m : m \in S <=> m \in Nat /\ P(m)
  <2> HIDE DEF P
  <2> QED
    BY DEF S
<1> HIDE DEF S
<1>1. 0 \in S
  <2>1. 1..0 = {}
    OBVIOUS
  <2> QED
    BY <1>0, <2>1
<1>2. ASSUME NEW m \in S PROVE m + 1 \in S
  <2>1. m \in Nat /\ m + 1 \in Nat \ {0} /\ (m + 1) - 1 = m
    BY <1>0
  <2>2. CASE k = batch[m + 1].key
    <3>1. UltimaDe(k, m + 1, m + 1)
      BY <2>1, <2>2, UltimaEs
    <3> QED
      BY <1>0, <2>1, <3>1
  <2>3. CASE k # batch[m + 1].key
    <3>1. \A j : UltimaDe(k, m + 1, j) <=> UltimaDe(k, m, j)
      BY <2>1, <2>3, UltimaEs
    <3>2. \A j \in 1..(m + 1) : batch[j].key = k => j \in 1..m
      BY <2>1, <2>3
    <3> QED
      BY <1>0, <2>1, <3>1, <3>2
  <2> QED
    BY <2>2, <2>3
<1>3. S = Nat
  <2>1. S \in SUBSET Nat
    BY <1>0
  <2> QED
    BY <1>1, <1>2, <2>1, Induccion
<1> QED
  BY <1>0, <1>3 DEF UltimaDe

LEMMA TrasUna ==
  ASSUME batch \in Seq(DBAction), NEW D \in Base, NEW n \in DOMAIN batch
  PROVE  Con(Tras(D, n - 1), batch[n].key, Escribe(batch[n])) = Tras(D, n)
<1> DEFINE a == batch[n]
           P == Tras(D, n - 1)
<1>1. n \in Nat \ {0} /\ n \in 1..n /\ a.key \in Clave
  BY AccionEs
<1>2. \A i \in 1..(n - 1) : i \in 1..n
  BY <1>1
<1>3. ASSUME NEW k \in Clave
      PROVE  Tras(D, n)[k] = IF k = a.key THEN Escribe(a) ELSE P[k]
  <2>1. CASE k = a.key
    <3>1. \A i : UltimaDe(k, n, i) <=> i = n
      BY <1>1, <2>1, UltimaEs
    <3>2. (CHOOSE i \in 1..n : UltimaDe(k, n, i)) = n
      BY <1>1, <3>1
    <3> QED
      BY <1>1, <2>1, <3>1, <3>2 DEF Tras
  <2>2. CASE k # a.key
    <3>1. \A i : UltimaDe(k, n, i) <=> UltimaDe(k, n - 1, i)
      BY <1>1, <2>2, UltimaEs
    <3>2. \A i : /\ UltimaDe(k, n, i) => i \in 1..n
                 /\ UltimaDe(k, n - 1, i) => i \in 1..(n - 1)
      BY DEF UltimaDe
    <3>3. \A i : (i \in 1..n /\ UltimaDe(k, n, i))
                 <=> (i \in 1..(n - 1) /\ UltimaDe(k, n - 1, i))
      BY <3>1, <3>2
    <3>4. (CHOOSE i \in 1..n : UltimaDe(k, n, i))
          = (CHOOSE i \in 1..(n - 1) : UltimaDe(k, n - 1, i))
      BY <3>3
    <3> QED
      BY <2>2, <3>3, <3>4 DEF Tras
  <2> QED
    BY <2>1, <2>2
<1>4. Con(P, a.key, Escribe(a)) = [k \in Clave |-> IF k = a.key THEN Escribe(a) ELSE P[k]]
  BY <1>1 DEF Con, Tras
<1>5. Tras(D, n) = [k \in Clave |-> Tras(D, n)[k]]
  BY DEF Tras
<1> QED
  BY <1>3, <1>4, <1>5

\* After the first m actions, the key of the next one is there exactly as it was at the
\* start: only modifications can have named it.
LEMMA TrasHay ==
  ASSUME batch \in Seq(DBAction), RepiteModificando, NEW D \in Base, checkBatch(D),
         NEW m \in Nat, m + 1 \in DOMAIN batch
  PROVE  contains(Tras(D, m), batch[m + 1].key) <=> contains(D, batch[m + 1].key)
<1> DEFINE a == batch[m + 1]
           i == CHOOSE i \in 1..m : UltimaDe(a.key, m, i)
<1>0. a \in DBAction /\ a.key \in Clave /\ \A j \in 1..m : j \in DOMAIN batch /\ j # m + 1
  BY AccionEs
<1>1. CASE \E j \in 1..m : UltimaDe(a.key, m, j)
  <2>1. i \in 1..m /\ UltimaDe(a.key, m, i)
    BY <1>1
  <2> HIDE DEF i
  <2>2. batch[i].key = a.key /\ i \in DOMAIN batch /\ i # m + 1
    BY <1>0, <2>1 DEF UltimaDe
  <2>3. batch[i].action = "MODIFY" /\ a.action = "MODIFY"
    BY <2>2 DEF RepiteModificando
  <2>4. batch[i] \in DBAction /\ Escribe(batch[i]) = batch[i].value
    BY <2>2, <2>3 DEF Escribe
  <2>5. Escribe(batch[i]) # NADA
    BY <2>3, <2>4, AccionEs, NadaAssumption
  <2>6. Tras(D, m)[a.key] = Escribe(batch[i])
    BY <1>0, <1>1 DEF Tras, i
  <2>7. contains(D, a.key)
    BY <2>3 DEF checkBatch, checkAction
  <2> QED
    BY <2>5, <2>6, <2>7 DEF contains
<1>2. CASE ~\E j \in 1..m : UltimaDe(a.key, m, j)
  <2>1. Tras(D, m)[a.key] = D[a.key]
    BY <1>0, <1>2 DEF Tras
  <2> QED
    BY <2>1 DEF contains
<1> QED
  BY <1>1, <1>2

LEMMA TrasTipo ==
  ASSUME batch \in Seq(DBAction), NEW D \in Base, NEW n \in Nat, n <= Len(batch)
  PROVE  Tras(D, n) \in Base
<1>1. ASSUME NEW k \in Clave PROVE Tras(D, n)[k] \in Valor \cup {NADA}
  <2>1. CASE \E i \in 1..n : UltimaDe(k, n, i)
    <3> DEFINE i == CHOOSE i \in 1..n : UltimaDe(k, n, i)
    <3>1. i \in 1..n
      BY <2>1
    <3>2. batch[i] \in DBAction
      BY <3>1
    <3>3. Escribe(batch[i]) \in Valor \cup {NADA}
      BY <3>2, AccionEs
    <3> QED
      BY <2>1, <3>3 DEF Tras
  <2>2. CASE ~\E i \in 1..n : UltimaDe(k, n, i)
    BY <2>2 DEF Tras, Base
  <2> QED
    BY <2>1, <2>2
<1> QED
  BY <1>1 DEF Tras, Base

\* RocksDB: each key that the batch names holds what its last action writes.
LEMMA EscritoEs ==
  ASSUME batch \in Seq(DBAction), NEW D \in Base
  PROVE  FoldLeft(addActionToBatch, D, batch) = Tras(D, Len(batch))
<1> DEFINE n == Len(batch)
           F == [x \in Base \X DBAction |-> addActionToBatch(x[1], x[2])]
           G == CHOOSE g : g = [s \in SUBSET (1..n) |->
                  IF s = {} THEN D ELSE addActionToBatch(g[s \ {Max(s)}], batch[Max(s)])]
<1>1. n \in Nat /\ DOMAIN batch = 1..n /\ batch \in [1..n -> DBAction]
  OBVIOUS
<1>2. F \in [Base \X DBAction -> Base]
  <2> SUFFICES ASSUME NEW d \in Base, NEW a \in DBAction PROVE addActionToBatch(d, a) \in Base
    OBVIOUS
  <2> QED
    BY AccionEs DEF addActionToBatch, Con, Base
<1>3. PICK g \in [SUBSET (1..n) -> Base] : Pliega(g, F, D, n, batch)
  <2> HIDE DEF F, n
  <2> QED
    BY <1>1, <1>2, Pliegue
<1>4. g = [s \in SUBSET (1..n) |->
             IF s = {} THEN D ELSE addActionToBatch(g[s \ {Max(s)}], batch[Max(s)])]
  <2> SUFFICES ASSUME NEW s \in SUBSET (1..n), s # {}
               PROVE  g[s] = addActionToBatch(g[s \ {Max(s)}], batch[Max(s)])
    BY <1>3 DEF Pliega
  <2>1. Max(s) \in 1..n
    BY <1>1, HayMaximo
  <2>2. batch[Max(s)] \in DBAction /\ g[s \ {Max(s)}] \in Base
    BY <1>1, <1>3, <2>1
  <2>3. <<g[s \ {Max(s)}], batch[Max(s)]>> \in Base \X DBAction
    BY <2>2
  <2> QED
    BY <1>3, <2>3 DEF Pliega
<1>5. FoldLeft(addActionToBatch, D, batch) = G[1..n]
  BY <1>1 DEF FoldLeft, MapThenFoldSet
<1>6. G = [s \in SUBSET (1..n) |->
             IF s = {} THEN D ELSE addActionToBatch(G[s \ {Max(s)}], batch[Max(s)])]
  BY <1>4
<1> HIDE DEF G
<1> DEFINE S == {i \in Nat : i <= n => G[1..i] = Tras(D, i)}
<1>7. 0 \in S
  <2>1. 1..0 = {} /\ {} \in SUBSET (1..n)
    OBVIOUS
  <2> QED
    BY <1>6, <2>1, TrasNada
<1>8. ASSUME NEW m \in S PROVE m + 1 \in S
  <2> SUFFICES ASSUME m + 1 <= n PROVE G[1..(m + 1)] = Tras(D, m + 1)
    OBVIOUS
  <2>1. m \in Nat /\ m + 1 \in 1..n /\ (m + 1) - 1 = m /\ G[1..m] = Tras(D, m)
    BY <1>1
  <2>2. G[1..(m + 1)] = addActionToBatch(G[1..m], batch[m + 1])
    <3>1. /\ 1..(m + 1) \in SUBSET (1..n) /\ 1..(m + 1) # {}
          /\ Max(1..(m + 1)) = m + 1 /\ (1..(m + 1)) \ {m + 1} = 1..m
      BY <1>1, <2>1, Peldanos
    <3> QED
      BY <1>6, <3>1
  <2>3. addActionToBatch(Tras(D, m), batch[m + 1])
        = Con(Tras(D, m), batch[m + 1].key, Escribe(batch[m + 1]))
    BY DEF addActionToBatch, Escribe
  <2> QED
    BY <1>1, <2>1, <2>2, <2>3, TrasUna
<1>9. S = Nat
  <2> HIDE DEF S
  <2>1. S \in SUBSET Nat
    BY DEF S
  <2> QED
    BY <1>7, <1>8, <2>1, Induccion
<1> QED
  BY <1>1, <1>5, <1>9

\* MapDB: a batch that was checked runs to its end, with the same outcome.
LEMMA EjecutadoEs ==
  ASSUME batch \in Seq(DBAction), RepiteModificando, NEW D \in Base, checkBatch(D)
  PROVE  FoldLeft(executeAction, [db |-> D, lanzo |-> FALSE], batch)
         = [db |-> Tras(D, Len(batch)), lanzo |-> FALSE]
<1> DEFINE n == Len(batch)
           E == [db : Base, lanzo : BOOLEAN]
           D0 == [db |-> D, lanzo |-> FALSE]
           F == [x \in E \X DBAction |-> executeAction(x[1], x[2])]
           G == CHOOSE g : g = [s \in SUBSET (1..n) |->
                  IF s = {} THEN D0 ELSE executeAction(g[s \ {Max(s)}], batch[Max(s)])]
<1>1. n \in Nat /\ DOMAIN batch = 1..n /\ batch \in [1..n -> DBAction] /\ D0 \in E
  OBVIOUS
<1>2. F \in [E \X DBAction -> E]
  <2> SUFFICES ASSUME NEW e \in E, NEW a \in DBAction PROVE executeAction(e, a) \in E
    OBVIOUS
  <2>1. \A v \in Valor \cup {NADA} : Con(e.db, a.key, v) \in Base
    BY DEF Con, Base
  <2>2. a.action = "PUT" \/ a.action = "MODIFY" \/ a.action = "ERASE"
    BY AccionEs
  <2> QED
    BY <2>1, <2>2, AccionEs DEF executeAction
<1>3. PICK g \in [SUBSET (1..n) -> E] : Pliega(g, F, D0, n, batch)
  <2> HIDE DEF F, n, E, D0
  <2> QED
    BY <1>1, <1>2, Pliegue
<1>4. g = [s \in SUBSET (1..n) |->
             IF s = {} THEN D0 ELSE executeAction(g[s \ {Max(s)}], batch[Max(s)])]
  <2> SUFFICES ASSUME NEW s \in SUBSET (1..n), s # {}
               PROVE  g[s] = executeAction(g[s \ {Max(s)}], batch[Max(s)])
    <3> HIDE DEF F, E, D0
    <3> QED
      BY <1>3 DEF Pliega
  <2>1. Max(s) \in 1..n
    BY <1>1, HayMaximo
  <2>2. batch[Max(s)] \in DBAction /\ g[s \ {Max(s)}] \in E
    BY <1>1, <1>3, <2>1
  <2> HIDE DEF E
  <2>3. <<g[s \ {Max(s)}], batch[Max(s)]>> \in E \X DBAction
    BY <2>2
  <2> QED
    BY <1>3, <2>3 DEF Pliega
<1>5. FoldLeft(executeAction, D0, batch) = G[1..n]
  BY <1>1 DEF FoldLeft, MapThenFoldSet
<1>6. G = [s \in SUBSET (1..n) |->
             IF s = {} THEN D0 ELSE executeAction(G[s \ {Max(s)}], batch[Max(s)])]
  BY <1>4
<1> HIDE DEF G
<1> DEFINE S == {i \in Nat : i <= n => G[1..i] = [db |-> Tras(D, i), lanzo |-> FALSE]}
<1>7. 0 \in S
  <2>1. 1..0 = {} /\ {} \in SUBSET (1..n)
    OBVIOUS
  <2> QED
    BY <1>6, <2>1, TrasNada
<1>8. ASSUME NEW m \in S PROVE m + 1 \in S
  <2> SUFFICES ASSUME m + 1 <= n
               PROVE  G[1..(m + 1)] = [db |-> Tras(D, m + 1), lanzo |-> FALSE]
    OBVIOUS
  <2> DEFINE a == batch[m + 1]
             e == [db |-> Tras(D, m), lanzo |-> FALSE]
  <2>1. m \in Nat /\ m + 1 \in 1..n /\ (m + 1) - 1 = m /\ G[1..m] = e
    BY <1>1
  <2>2. G[1..(m + 1)] = executeAction(e, a)
    <3>1. /\ 1..(m + 1) \in SUBSET (1..n) /\ 1..(m + 1) # {}
          /\ Max(1..(m + 1)) = m + 1 /\ (1..(m + 1)) \ {m + 1} = 1..m
      BY <1>1, <2>1, Peldanos
    <3> QED
      BY <1>6, <2>1, <3>1
  <2>3. a \in DBAction /\ checkAction(D, a)
    BY <1>1, <2>1 DEF checkBatch
  <2>4. contains(Tras(D, m), a.key) <=> contains(D, a.key)
    <3>1. m + 1 \in DOMAIN batch
      BY <1>1, <2>1
    <3> QED
      BY <2>1, <3>1, TrasHay
  <2>5. executeAction(e, a) = [db |-> Con(Tras(D, m), a.key, Escribe(a)), lanzo |-> FALSE]
    <3>1. a.action = "PUT" \/ a.action = "MODIFY" \/ a.action = "ERASE"
      BY <2>3, AccionEs
    <3>2. a.action = "PUT" => ~contains(Tras(D, m), a.key)
      BY <2>3, <2>4 DEF checkAction
    <3>3. a.action = "MODIFY" => contains(Tras(D, m), a.key)
      BY <2>3, <2>4 DEF checkAction
    <3> QED
      BY <3>1, <3>2, <3>3 DEF executeAction, Escribe
  <2>6. Con(Tras(D, m), a.key, Escribe(a)) = Tras(D, m + 1)
    BY <1>1, <2>1, TrasUna
  <2> QED
    BY <2>2, <2>5, <2>6
<1>9. S = Nat
  <2> HIDE DEF S
  <2>1. S \in SUBSET Nat
    BY DEF S
  <2> QED
    BY <1>7, <1>8, <2>1, Induccion
<1> QED
  BY <1>1, <1>5, <1>9

-----------------------------------------------------------------------------
(* The steps *)

LEMMA SueltaSigue ==
  ASSUME Inv, NEW k \in Clave,
         \/ \E v \in Valor : put(k, v) \/ modify(k, v)
         \/ erase(k)
  PROVE  Inv'
<1>1. UNCHANGED batch
  BY DEF put, modify, erase
<1>2. \A v \in Valor \cup {NADA} : Con(mapa, k, v) \in Base
  BY DEF Inv, TypeOK, Con, Base
<1>3. TypeOK' /\ Indistinguibles'
  BY <1>2 DEF Inv, TypeOK, Indistinguibles, put, modify, erase, SiEsta, Respuesta
<1>4. RepiteModificando'
  BY <1>1 DEF Inv, RepiteModificando
<1> QED
  BY <1>3, <1>4 DEF Inv

LEMMA AgregaSigue ==
  ASSUME Inv, NEW a \in DBAction, agregar(a)
  PROVE  Inv'
<1>1. batch' \in Seq(DBAction)
  BY DEF Inv, TypeOK, agregar
<1>2. TypeOK' /\ Indistinguibles'
  BY <1>1 DEF Inv, TypeOK, Indistinguibles, agregar
<1>3. /\ DOMAIN batch' = 1..(Len(batch) + 1)
      /\ batch'[Len(batch) + 1] = a
      /\ \A i \in DOMAIN batch : batch'[i] = batch[i]
  BY DEF Inv, TypeOK, agregar
<1>4. /\ Len(batch) \in Nat /\ DOMAIN batch = 1..Len(batch)
      /\ \A i \in DOMAIN batch :
           batch[i].key = a.key => batch[i].action = "MODIFY" /\ a.action = "MODIFY"
  BY DEF Inv, TypeOK, agregar
<1>5. RepiteModificando'
  <2> SUFFICES ASSUME NEW i \in DOMAIN batch', NEW j \in DOMAIN batch',
                      batch'[i].key = batch'[j].key
               PROVE  \/ i = j
                      \/ batch'[i].action = "MODIFY" /\ batch'[j].action = "MODIFY"
    BY DEF RepiteModificando
  <2>1. i \in DOMAIN batch \/ i = Len(batch) + 1
    BY <1>3, <1>4
  <2>2. j \in DOMAIN batch \/ j = Len(batch) + 1
    BY <1>3, <1>4
  <2> QED
    BY <1>3, <1>4, <2>1, <2>2 DEF Inv, RepiteModificando
<1> QED
  BY <1>2, <1>5 DEF Inv

\* What writeBatch does, in both.
LEMMA LoteEs ==
  ASSUME Inv, writeBatch
  PROVE  /\ mapa' = IF checkBatch(mapa) THEN Tras(mapa, Len(batch)) ELSE mapa
         /\ rocks' = mapa'
         /\ resp' = [mapa |-> IF checkBatch(mapa) THEN "true" ELSE "false",
                     rocks |-> IF checkBatch(mapa) THEN "true" ELSE "false"]
         /\ batch' = <<>>
<1>1. mapa = rocks /\ batch \in Seq(DBAction) /\ RepiteModificando /\ mapa \in Base
  BY DEF Inv, TypeOK, Indistinguibles
<1>2. EscritoEnRocks = Tras(rocks, Len(batch))
  BY <1>1, EscritoEs DEF EscritoEnRocks
<1>3. checkBatch(mapa) => EjecutadoEnMapa = [db |-> Tras(mapa, Len(batch)), lanzo |-> FALSE]
  BY <1>1, EjecutadoEs DEF EjecutadoEnMapa
<1>4. CASE checkBatch(mapa)
  BY <1>1, <1>2, <1>3, <1>4 DEF writeBatch
<1>5. CASE ~checkBatch(mapa)
  BY <1>1, <1>5 DEF writeBatch
<1> QED
  BY <1>4, <1>5

LEMMA LoteSigue ==
  ASSUME Inv, writeBatch
  PROVE  Inv'
<1>1. mapa' \in Base
  BY LoteEs, TrasTipo DEF Inv, TypeOK
<1>2. batch' \in Seq(DBAction) /\ DOMAIN batch' = {}
  BY LoteEs
<1>3. resp' \in [mapa : Respuesta, rocks : Respuesta] /\ resp'.mapa = resp'.rocks
  BY LoteEs DEF Respuesta
<1> QED
  BY <1>1, <1>2, <1>3, LoteEs DEF Inv, TypeOK, Indistinguibles, RepiteModificando

LEMMA InvSigue ==
  ASSUME Inv, [Next]_vars
  PROVE  Inv'
<1>1. CASE \E k \in Clave, v \in Valor : put(k, v) \/ modify(k, v)
  BY <1>1, SueltaSigue
<1>2. CASE \E k \in Clave : erase(k)
  BY <1>2, SueltaSigue
<1>3. CASE \E a \in DBAction : agregar(a)
  BY <1>3, AgregaSigue
<1>4. CASE writeBatch
  BY <1>4, LoteSigue
<1>5. CASE UNCHANGED vars
  BY <1>5 DEF vars, Inv, TypeOK, Indistinguibles, RepiteModificando
<1> QED
  BY <1>1, <1>2, <1>3, <1>4, <1>5 DEF Next

LEMMA InvInicio == Init => Inv
<1> SUFFICES ASSUME Init PROVE Inv
  OBVIOUS
<1>1. TypeOK /\ Indistinguibles
  BY DEF Init, TypeOK, Indistinguibles, Base, Respuesta
<1>2. DOMAIN batch = {}
  BY DEF Init
<1> QED
  BY <1>1, <1>2 DEF Inv, RepiteModificando

LEMMA InvSiempre == Spec => []Inv
<1>1. Inv /\ [Next]_vars => Inv'
  BY InvSigue
<1> QED
  BY <1>1, InvInicio, PTL DEF Spec

\* The types of the two databases, of the batch and of the answers.
THEOREM TipoBaseDatos == Spec => []TypeOK
<1>1. Inv => TypeOK
  BY DEF Inv
<1> QED
  BY <1>1, InvSiempre, PTL

\* MapDB, which runs the actions of a batch one by one on the map, and BaseDeDatos, which
\* gives them to RocksDB together, hold and answer the same after any calls: what the
\* tests run on the one says of the other.
THEOREM SiempreIndistinguibles == Spec => []Indistinguibles
<1>1. Inv => Indistinguibles
  BY DEF Inv
<1> QED
  BY <1>1, InvSiempre, PTL

LEMMA LoteEntero ==
  ASSUME Inv, writeBatch, NEW D, D = mapa', resp'.mapa = "true", NEW k \in Clave
  PROVE  IF \E i \in DOMAIN batch : batch[i].key = k
         THEN \E i \in DOMAIN batch : /\ batch[i].key = k
                                      /\ \A j \in DOMAIN batch : batch[j].key = k => j <= i
                                      /\ D[k] = IF batch[i].action = "ERASE" THEN NADA
                                                                             ELSE batch[i].value
         ELSE D[k] = mapa[k]
<1>1. D = Tras(mapa, Len(batch)) /\ DOMAIN batch = 1..Len(batch) /\ Len(batch) \in Nat
  BY LoteEs DEF Inv, TypeOK
<1> DEFINE n == Len(batch)
           i == CHOOSE i \in 1..n : UltimaDe(k, n, i)
<1>2. (\E j \in 1..n : UltimaDe(k, n, j)) =>
        UltimaDe(k, n, i) /\ D[k] = Escribe(batch[i])
  BY <1>1 DEF Tras
<1>3. (~\E j \in 1..n : UltimaDe(k, n, j)) => D[k] = mapa[k]
  BY <1>1 DEF Tras
<1>4. (\E j \in 1..n : batch[j].key = k) <=> \E j \in 1..n : UltimaDe(k, n, j)
  BY <1>1, HayUltima DEF UltimaDe
<1> HIDE DEF i
<1> QED
  BY <1>1, <1>2, <1>3, <1>4 DEF Escribe, UltimaDe

\* writeBatch answers that a batch was written only when every key that it names holds
\* what the last action on it says and no other key has changed, and otherwise changes nothing
\* (batch.h:29), in both implementations.
THEOREM LotesTodoONada == Spec => TodoONada
<1> DEFINE Lote(db) ==
      IF resp'[db[1]] = "true"
      THEN \A k \in Clave :
             IF \E i \in DOMAIN batch : batch[i].key = k
             THEN \E i \in DOMAIN batch :
                    /\ batch[i].key = k
                    /\ \A j \in DOMAIN batch : batch[j].key = k => j <= i
                    /\ db[3][k] = IF batch[i].action = "ERASE" THEN NADA ELSE batch[i].value
             ELSE db[3][k] = db[2][k]
      ELSE db[3] = db[2]
    Bien == batch # <<>> /\ batch' = <<>> =>
              \A db \in {<<"mapa", mapa, mapa'>>, <<"rocks", rocks, rocks'>>} : Lote(db)
<1>1. Inv /\ [Next]_vars => [Bien]_vars
  <2> SUFFICES ASSUME Inv, [Next]_vars, batch # <<>>, batch' = <<>>
               PROVE  Lote(<<"mapa", mapa, mapa'>>) /\ Lote(<<"rocks", rocks, rocks'>>)
    <3> HIDE DEF Lote
    <3> QED
      OBVIOUS
  <2>1. writeBatch
    <3>1. \A a \in DBAction : ~agregar(a)
      BY DEF agregar, Inv, TypeOK
    <3> QED
      BY <3>1 DEF Next, put, modify, erase, vars
  <2>2. /\ mapa = rocks /\ mapa' = rocks' /\ resp'.mapa = resp'.rocks
        /\ resp'.mapa # "true" => mapa' = mapa
    BY <2>1, LoteEs DEF Inv, Indistinguibles
  <2>3. Lote(<<"mapa", mapa, mapa'>>)
    BY <2>1, <2>2, LoteEntero
  <2>4. Lote(<<"rocks", rocks, rocks'>>)
    BY <2>1, <2>2, LoteEntero
  <2> QED
    BY <2>3, <2>4
<1> QED
  BY <1>1, InvSiempre, PTL DEF Spec, TodoONada
=============================================================================
