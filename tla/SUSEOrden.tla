------------------------------ MODULE SUSEOrden ------------------------------
(***************************************************************************)
(* The binary semaphores of SUSE.c do not deadlock, for any number of      *)
(* threads atenderScheduleNext.  Each handler of SUSELocks takes them in   *)
(* the order of Rango, whichever way its outcomes go, and no cycle of      *)
(* threads that wait for each other can come of that.                      *)
(*                                                                         *)
(* With ConJoin the order is broken: liberarBloqueadosPorElHilo takes the  *)
(* semaphore of ready while it has that of the programs.  What is left is  *)
(* that a thread never waits for a semaphore that it has itself.           *)
(***************************************************************************)
EXTENDS SUSELocks, SequenceTheorems, TLAPS

(* Where each semaphore comes in the order.                                *)
Rango == [metricas |-> 1, SEMAFOROS |-> 2, blockedPorSemaforo |-> 3,
          exit |-> 4, new |-> 4, ready |-> 5, programas |-> 6]

LEMMA RangoTipo == \A s \in Semaforos : Rango[s] \in 1 .. 6
BY DEF Rango, Semaforos

(* A thread that has r may wait for s.                                     *)
Antes(r, s) == r # s /\ (ConJoin \/ Rango[r] < Rango[s])

(* A thread that has T does p and has U: it waits only for what comes      *)
(* after all it has, and posts only what it has.                           *)
Toma(p, T, U) ==
    \E s \in Semaforos :
        \/ p = <<"wait", s>> /\ (\A r \in T : Antes(r, s)) /\ U = T \cup {s}
        \/ p = <<"post", s>> /\ s \in T /\ U = T \ {s}

(* f says what the thread has after each step of m.                        *)
Lleva(f, m, T, U) ==
    /\ f \in [0 .. Len(m) -> SUBSET Semaforos]
    /\ f[0] = T /\ f[Len(m)] = U
    /\ \A k \in 1 .. Len(m) : Toma(m[k], f[k - 1], f[k])

(* A thread that has T can run m in order, and has U at the end.           *)
Corre(m, T, U) == m \in Seq(Paso) /\ \E f : Lleva(f, m, T, U)

(* m takes, and posts, only semaphores that come after n.                  *)
Buena(m, n) ==
    \A T \in SUBSET Semaforos : (\A r \in T : Rango[r] <= n) => Corre(m, T, T)

-----------------------------------------------------------------------------
(* Pieces of a handler, one after the other.                               *)

LEMMA CorreVacia == \A T \in SUBSET Semaforos : Corre(<<>>, T, T)
<1> SUFFICES ASSUME NEW T \in SUBSET Semaforos PROVE Corre(<<>>, T, T)
  OBVIOUS
<1>1. <<>> \in Seq(Paso) /\ Len(<<>>) = 0
  BY EmptySeq
<1>2. Lleva([k \in 0 .. 0 |-> T], <<>>, T, T)
  BY <1>1 DEF Lleva
<1> QED
  BY <1>1, <1>2 DEF Corre

LEMMA CorreUno ==
    ASSUME NEW p \in Paso, NEW T \in SUBSET Semaforos, NEW U \in SUBSET Semaforos,
           Toma(p, T, U)
    PROVE  Corre(<<p>>, T, U)
<1>1. <<p>> \in Seq(Paso) /\ Len(<<p>>) = 1 /\ <<p>>[1] = p
  OBVIOUS
<1> DEFINE f == [k \in 0 .. 1 |-> IF k = 0 THEN T ELSE U]
<1>2. Lleva(f, <<p>>, T, U)
  BY <1>1 DEF Lleva
<1> QED
  BY <1>1, <1>2 DEF Corre

LEMMA CorreDos ==
    ASSUME NEW a, NEW b, NEW T, NEW U, NEW V, Corre(a, T, U), Corre(b, U, V)
    PROVE  Corre(a \o b, T, V)
<1>1. PICK f : a \in Seq(Paso) /\ Lleva(f, a, T, U)
  BY DEF Corre
<1>2. PICK g : b \in Seq(Paso) /\ Lleva(g, b, U, V)
  BY DEF Corre
<1>3. /\ a \o b \in Seq(Paso)
      /\ Len(a) \in Nat /\ Len(b) \in Nat /\ Len(a \o b) = Len(a) + Len(b)
      /\ \A k \in 1 .. Len(a) + Len(b) :
             (a \o b)[k] = IF k <= Len(a) THEN a[k] ELSE b[k - Len(a)]
  BY <1>1, <1>2, ConcatProperties, LenProperties
<1>4. PICK h : h = [k \in 0 .. Len(a) + Len(b) |->
                        IF k <= Len(a) THEN f[k] ELSE g[k - Len(a)]]
  OBVIOUS
<1>5. h \in [0 .. Len(a) + Len(b) -> SUBSET Semaforos]
  <2>1. ASSUME NEW k \in 0 .. Len(a) + Len(b)
        PROVE  (IF k <= Len(a) THEN f[k] ELSE g[k - Len(a)]) \in SUBSET Semaforos
    <3>1. CASE k <= Len(a)
      BY SMTT(60), <1>1, <1>3, <3>1 DEF Lleva
    <3>2. CASE ~(k <= Len(a))
      <4>1. k - Len(a) \in 0 .. Len(b)
        BY <1>3, <3>2
      <4> QED
        BY <1>2, <3>2, <4>1 DEF Lleva
    <3> QED
      BY <3>1, <3>2
  <2> QED
    BY <1>4, <2>1
<1>6. h[0] = T
  BY <1>1, <1>3, <1>4 DEF Lleva
<1>7. h[Len(a)] = U
  BY <1>1, <1>3, <1>4 DEF Lleva
<1>8. h[Len(a) + Len(b)] = V
  <2>1. CASE Len(b) = 0
    BY <1>2, <1>3, <1>7, <2>1 DEF Lleva
  <2>2. CASE Len(b) # 0
    BY <1>2, <1>3, <1>4, <2>2 DEF Lleva
  <2> QED
    BY <2>1, <2>2
<1>9. ASSUME NEW k \in 1 .. Len(a) + Len(b)
      PROVE  Toma((a \o b)[k], h[k - 1], h[k])
  <2>1. CASE k <= Len(a)
    <3>1. /\ k \in 1 .. Len(a) /\ (a \o b)[k] = a[k]
          /\ h[k - 1] = f[k - 1] /\ h[k] = f[k]
      BY <1>3, <1>4, <2>1
    <3> QED
      BY <1>1, <3>1 DEF Lleva
  <2>2. CASE k > Len(a)
    <3>1. PICK i \in 1 .. Len(b) : k = Len(a) + i /\ k - Len(a) = i /\ (k - 1) - Len(a) = i - 1
      <4>1. k - Len(a) \in 1 .. Len(b)
        BY <1>3, <2>2
      <4> QED
        BY <1>3, <4>1
    <3>2. (a \o b)[k] = b[i] /\ h[k] = g[i]
      BY <1>3, <1>4, <2>2, <3>1
    <3>3. h[k - 1] = g[i - 1]
      <4>1. CASE i = 1
        <5>1. k - 1 = Len(a) /\ i - 1 = 0
          BY <1>3, <3>1, <4>1
        <5> QED
          BY <1>2, <1>7, <5>1 DEF Lleva
      <4>2. CASE i # 1
        <5>1. ~(k - 1 <= Len(a)) /\ k - 1 \in 0 .. Len(a) + Len(b)
          BY <1>3, <3>1, <4>2
        <5> QED
          BY <1>4, <3>1, <5>1
      <4> QED
        BY <4>1, <4>2
    <3> QED
      BY <1>2, <3>2, <3>3 DEF Lleva
  <2> QED
    BY <1>3, <2>1, <2>2
<1>10. Lleva(h, a \o b, T, V)
  BY <1>3, <1>5, <1>6, <1>8, <1>9 DEF Lleva
<1> QED
  BY <1>3, <1>10 DEF Corre

(* What is left of m after its first step.                                 *)
LEMMA CorreTail ==
    ASSUME NEW m, NEW T, NEW V, Corre(m, T, V), m # <<>>
    PROVE  \E U : Toma(Head(m), T, U) /\ Corre(Tail(m), U, V)
<1>1. PICK f : m \in Seq(Paso) /\ Lleva(f, m, T, V)
  BY DEF Corre
<1>2. /\ Len(m) \in Nat /\ Len(m) > 0 /\ Head(m) = m[1]
      /\ Tail(m) \in Seq(Paso) /\ Len(Tail(m)) = Len(m) - 1
      /\ \A i \in 1 .. Len(m) - 1 : Tail(m)[i] = m[i + 1]
  BY <1>1, HeadTailProperties, EmptySeq, LenProperties
<1>3. Toma(Head(m), T, f[1])
  BY <1>1, <1>2 DEF Lleva
<1>4. PICK g : g = [k \in 0 .. Len(m) - 1 |-> f[k + 1]]
  OBVIOUS
<1>5. g \in [0 .. Len(m) - 1 -> SUBSET Semaforos] /\ g[0] = f[1] /\ g[Len(m) - 1] = V
  BY <1>1, <1>2, <1>4 DEF Lleva
<1>6. ASSUME NEW k \in 1 .. Len(m) - 1 PROVE Toma(Tail(m)[k], g[k - 1], g[k])
  <2>1. /\ k + 1 \in 1 .. Len(m) /\ (k + 1) - 1 = k /\ Tail(m)[k] = m[k + 1]
        /\ g[k] = f[k + 1] /\ g[k - 1] = f[k]
    BY <1>2, <1>4
  <2> QED
    BY <1>1, <2>1 DEF Lleva
<1>7. Lleva(g, Tail(m), f[1], V)
  BY <1>2, <1>5, <1>6 DEF Lleva
<1> QED
  BY <1>2, <1>3, <1>7 DEF Corre

-----------------------------------------------------------------------------
(* The handlers.                                                           *)

LEMMA CorreWait ==
    ASSUME NEW s \in Semaforos, NEW T \in SUBSET Semaforos,
           \A r \in T : Antes(r, s)
    PROVE  Corre(Wait(s), T, T \cup {s})
<1>1. <<"wait", s>> \in Paso /\ Toma(<<"wait", s>>, T, T \cup {s})
  BY DEF Paso, Toma
<1> QED
  BY <1>1, CorreUno DEF Wait

LEMMA CorrePost ==
    ASSUME NEW s \in Semaforos, NEW T \in SUBSET Semaforos, s \in T
    PROVE  Corre(Post(s), T, T \ {s})
<1>1. <<"post", s>> \in Paso /\ Toma(<<"post", s>>, T, T \ {s})
  BY DEF Paso, Toma
<1> QED
  BY <1>1, CorreUno DEF Post

LEMMA BuenaVacia == \A n : Buena(<<>>, n)
BY CorreVacia DEF Buena

LEMMA BuenaDos == \A a, b, n : Buena(a, n) /\ Buena(b, n) => Buena(a \o b, n)
BY CorreDos DEF Buena

LEMMA BuenaEn ==
    ASSUME NEW s \in Semaforos, NEW a, NEW n \in Nat,
           Buena(a, Rango[s]), n < Rango[s]
    PROVE  Buena(En(s, a), n)
<1> SUFFICES ASSUME NEW T \in SUBSET Semaforos, \A r \in T : Rango[r] <= n
             PROVE  Corre(En(s, a), T, T)
  BY DEF Buena
<1>1. \A r \in T : Rango[r] < Rango[s]
  BY RangoTipo
<1>2. Corre(Wait(s), T, T \cup {s})
  <2>1. \A r \in T : Antes(r, s)
    BY <1>1, RangoTipo DEF Antes
  <2> QED
    BY <2>1, CorreWait
<1>3. Corre(a, T \cup {s}, T \cup {s})
  <2>1. \A r \in T \cup {s} : Rango[r] <= Rango[s]
    BY <1>1, RangoTipo
  <2> QED
    BY <2>1 DEF Buena
<1>4. Corre(Post(s), T \cup {s}, T)
  <2>1. s \notin T /\ (T \cup {s}) \ {s} = T
    BY <1>1, RangoTipo
  <2>2. Corre(Post(s), T \cup {s}, (T \cup {s}) \ {s})
    BY CorrePost
  <2> QED
    BY <2>1, <2>2
<1> QED
  BY <1>2, <1>3, <1>4, CorreDos DEF En

LEMMA BuenaCorto ==
    \A s \in Semaforos, n \in Nat : n < Rango[s] => Buena(Corto(s), n)
BY BuenaEn, BuenaVacia, RangoTipo DEF Corto

(* siguienteAEjecutar gives ready back before programas.                   *)
LEMMA BuenaCruzada ==
    Buena(Wait("ready") \o Wait("programas") \o Post("ready") \o Post("programas"), 0)
<1> SUFFICES ASSUME NEW T \in SUBSET Semaforos, \A r \in T : Rango[r] <= 0
             PROVE  Corre(Wait("ready") \o Wait("programas")
                              \o Post("ready") \o Post("programas"), T, T)
  BY DEF Buena
<1>1. T = {} /\ "ready" \in Semaforos /\ "programas" \in Semaforos
  BY RangoTipo DEF Semaforos
<1>2. Corre(Wait("ready"), {}, {"ready"})
  BY <1>1, CorreWait
<1>3. Corre(Wait("programas"), {"ready"}, {"ready", "programas"})
  <2>1. Antes("ready", "programas")
    BY DEF Rango, Antes
  <2>2. {"ready"} \cup {"programas"} = {"ready", "programas"}
    OBVIOUS
  <2> QED
    BY <1>1, <2>1, <2>2, CorreWait
<1>4. Corre(Post("ready"), {"ready", "programas"}, {"programas"})
  <2>1. {"ready", "programas"} \ {"ready"} = {"programas"}
    OBVIOUS
  <2> QED
    BY <1>1, <2>1, CorrePost
<1>5. Corre(Post("programas"), {"programas"}, {})
  <2>1. {"programas"} \ {"programas"} = {}
    OBVIOUS
  <2> QED
    BY <1>1, <2>1, CorrePost
<1> QED
  BY <1>1, <1>2, <1>3, <1>4, <1>5, CorreDos

LEMMA BuenaPasarAReady == \A n \in 0 .. 4 : Buena(PasarAReady, n)
<1>1. /\ "ready" \in Semaforos /\ "programas" \in Semaforos
      /\ Rango["ready"] = 5 /\ Rango["programas"] = 6
  BY DEF Semaforos, Rango
<1>2. Buena(Corto("programas"), 5)
  BY <1>1, BuenaCorto
<1> QED
  BY <1>1, <1>2, BuenaEn DEF PasarAReady

LEMMA BuenaTomarMetricas == Buena(TomarMetricas, 0)
<1>1. /\ "metricas" \in Semaforos /\ Rango["metricas"] = 1
      /\ \A s \in Semaforos \ {"metricas"} : 1 < Rango[s]
      /\ {"new", "programas", "ready", "blockedPorSemaforo", "SEMAFOROS"}
             \subseteq Semaforos \ {"metricas"}
  BY DEF Semaforos, Rango
<1>2. \A s \in Semaforos \ {"metricas"} : Buena(Corto(s), 1)
  BY <1>1, BuenaCorto
<1>3. Buena(Corto("new") \o Corto("programas") \o Corto("ready")
                \o Corto("blockedPorSemaforo") \o Corto("SEMAFOROS"), 1)
  BY <1>1, <1>2, BuenaDos
<1> QED
  BY <1>1, <1>3, BuenaEn DEF TomarMetricas

LEMMA BuenaSuse == \A m \in SuseWait \cup SuseSignal : Buena(m, 0)
<1>1. /\ {"SEMAFOROS", "blockedPorSemaforo", "programas"} \subseteq Semaforos
      /\ Rango["SEMAFOROS"] = 2 /\ Rango["blockedPorSemaforo"] = 3
      /\ Rango["programas"] = 6
  BY DEF Semaforos, Rango
<1>2. Buena(Corto("SEMAFOROS"), 0) /\ Buena(Corto("blockedPorSemaforo"), 2)
  BY <1>1, BuenaCorto
<1>3. Buena(Corto("programas"), 3) /\ Buena(PasarAReady, 3)
  BY <1>1, BuenaCorto, BuenaPasarAReady
<1>4. Buena(PasarAReady \o Corto("programas"), 3)
  BY <1>3, BuenaDos
<1>5. /\ Buena(En("blockedPorSemaforo", Corto("programas")), 2)
      /\ Buena(En("blockedPorSemaforo", PasarAReady \o Corto("programas")), 2)
  BY <1>1, <1>3, <1>4, BuenaEn
<1>6. /\ Buena(En("SEMAFOROS", En("blockedPorSemaforo", Corto("programas"))), 0)
      /\ Buena(En("SEMAFOROS", Corto("blockedPorSemaforo")), 0)
      /\ Buena(En("SEMAFOROS", En("blockedPorSemaforo",
                                  PasarAReady \o Corto("programas"))), 0)
  BY <1>1, <1>2, <1>5, BuenaEn
<1> QED
  BY <1>2, <1>6 DEF SuseWait, SuseSignal

(* liberarBloqueadosPorElHilo, when there is a hilo to bring to ready.     *)
LEMMA BuenaAlReves == ConJoin => Buena(En("programas", Corto("ready")), 0)
<1> SUFFICES ASSUME ConJoin, NEW T \in SUBSET Semaforos, \A r \in T : Rango[r] <= 0
             PROVE  Corre(En("programas", Corto("ready")), T, T)
  BY DEF Buena
<1>1. T = {} /\ "ready" \in Semaforos /\ "programas" \in Semaforos
  BY RangoTipo DEF Semaforos
<1>2. Corre(Wait("programas"), {}, {"programas"})
  BY <1>1, CorreWait
<1>3. Corre(Wait("ready"), {"programas"}, {"programas", "ready"})
  <2>1. Antes("programas", "ready")
    BY DEF Antes
  <2>2. {"programas"} \cup {"ready"} = {"programas", "ready"}
    OBVIOUS
  <2> QED
    BY <1>1, <2>1, <2>2, CorreWait
<1>4. Corre(Post("ready"), {"programas", "ready"}, {"programas"})
  <2>1. {"programas", "ready"} \ {"ready"} = {"programas"}
    OBVIOUS
  <2> QED
    BY <1>1, <2>1, CorrePost
<1>5. Corre(Post("programas"), {"programas"}, {})
  <2>1. {"programas"} \ {"programas"} = {}
    OBVIOUS
  <2> QED
    BY <1>1, <2>1, CorrePost
<1>6. Corre(Corto("ready"), {"programas"}, {"programas"})
  <2>1. Corre(<<>>, {"programas", "ready"}, {"programas", "ready"})
    BY <1>1, CorreVacia
  <2> QED
    BY <1>3, <1>4, <2>1, CorreDos DEF Corto, En
<1> QED
  BY <1>1, <1>2, <1>5, <1>6, CorreDos DEF En

(* Every handler of every thread.                                          *)
LEMMA ManejadoresBuenos == \A h : \A m \in Manejadores(h) : Buena(m, 0)
<1> TAKE h
<1>1. \A s \in Semaforos : Buena(Corto(s), 0)
  BY RangoTipo, BuenaCorto
<1>2. {"exit", "new", "ready", "programas"} \subseteq Semaforos
  BY DEF Semaforos
<1>3. Buena(CrearHilo, 0) /\ Buena(LimpiarEstructuras, 0)
  BY <1>1, <1>2, BuenaDos DEF CrearHilo, LimpiarEstructuras
<1>4. \A m \in RealizarClose : Buena(m, 0)
  <2>1. Buena(En("programas", <<>>), 0)
    BY <1>1, <1>2 DEF Corto
  <2> QED
    BY <1>1, <1>2, <2>1, BuenaAlReves, BuenaTomarMetricas, BuenaDos DEF RealizarClose
<1>5. \A m \in Conexion : Buena(m, 0)
  <2>1. \A m \in {CrearHilo, Corto("programas"), LimpiarEstructuras} : Buena(m, 0)
    BY <1>1, <1>2, <1>3
  <2>2. \A m \in SuseWait : Buena(m, 0)
    BY BuenaSuse
  <2>3. \A m \in SuseSignal : Buena(m, 0)
    BY BuenaSuse
  <2> QED
    BY <1>4, <2>1, <2>2, <2>3, Zenon DEF Conexion
<1>6. \A m \in PlanificarReady : Buena(m, 0)
  <2>1. Buena(PasarAReady, 0)
    BY BuenaPasarAReady
  <2>2. Buena(Corto("new"), 0) /\ Buena(Corto("programas"), 0)
    BY <1>1, <1>2
  <2> QED
    BY <2>1, <2>2, BuenaDos, Zenon DEF PlanificarReady
<1>7. \A m \in SiguienteAEjecutar : Buena(m, 0)
  BY <1>1, <1>2, BuenaCruzada, BuenaDos DEF SiguienteAEjecutar
<1> QED
  BY <1>5, <1>6, <1>7, BuenaTomarMetricas DEF Manejadores

-----------------------------------------------------------------------------
(* What a thread holds is what it needs to run the rest of its handler:    *)
(* the invariant from which both properties follow.                        *)

Tenidos(h) == {s \in Semaforos : tiene[s] = h}

Sana == TypeOK /\ \A h \in Hebras : Corre(resto[h], Tenidos(h), {})

LEMMA LibreNoEsHebra == Libre \notin Hebras
BY LocksAssumption DEF Hebras

LEMMA SanaInit == Init => Sana
<1> SUFFICES ASSUME Init PROVE Sana
  OBVIOUS
<1>1. TypeOK
  BY EmptySeq DEF Init, TypeOK
<1>2. ASSUME NEW h \in Hebras PROVE Corre(resto[h], Tenidos(h), {})
  <2>1. Tenidos(h) = {}
    BY LibreNoEsHebra DEF Init, Tenidos
  <2>2. resto[h] = <<>>
    BY DEF Init
  <2> QED
    BY <2>1, <2>2, CorreVacia
<1> QED
  BY <1>1, <1>2 DEF Sana

LEMMA SanaEmpezar ==
    ASSUME Sana, NEW h \in Hebras, Empezar(h) PROVE Sana'
<1>1. PICK m \in Manejadores(h) : resto' = [resto EXCEPT ![h] = m]
  BY DEF Empezar
<1>2. Corre(m, {}, {})
  BY <1>1, ManejadoresBuenos DEF Buena
<1>3. Tenidos(h) = {}
  <2>1. Corre(<<>>, Tenidos(h), {})
    BY DEF Sana, Empezar
  <2>2. PICK f : Lleva(f, <<>>, Tenidos(h), {})
    BY <2>1 DEF Corre
  <2>3. Len(<<>>) = 0
    BY EmptySeq
  <2> QED
    BY <2>2, <2>3 DEF Lleva
<1>4. \A g \in Hebras : Tenidos(g)' = Tenidos(g)
  BY DEF Empezar, Tenidos
<1>5. TypeOK'
  BY <1>1, <1>2 DEF Sana, TypeOK, Empezar, Corre
<1>6. ASSUME NEW g \in Hebras PROVE Corre(resto'[g], Tenidos(g)', {})
  BY <1>1, <1>2, <1>3, <1>4 DEF Sana, TypeOK
<1> QED
  BY <1>5, <1>6 DEF Sana

(* The first step of what is left, with what the thread has.               *)
LEMMA PasoDe ==
    ASSUME NEW p, NEW s, NEW T, NEW U, Toma(p, T, U)
    PROVE  /\ p = <<"wait", s>> =>
                  /\ s \in Semaforos /\ U = T \cup {s}
                  /\ \A r \in T : Antes(r, s)
           /\ p = <<"post", s>> => s \in T /\ U = T \ {s}
BY DEF Toma

LEMMA SanaSemWait ==
    ASSUME Sana, NEW h \in Hebras, NEW s \in Semaforos, SemWait(h, s)
    PROVE  Sana'
<1>1. /\ resto[h] # <<>> /\ Head(resto[h]) = <<"wait", s>>
      /\ Corre(resto[h], Tenidos(h), {})
  BY DEF Sana, SemWait, Pide
<1>2. PICK U : Toma(<<"wait", s>>, Tenidos(h), U) /\ Corre(Tail(resto[h]), U, {})
  BY <1>1, CorreTail
<1>3. U = Tenidos(h) \cup {s}
  BY <1>2, PasoDe
<1>4. \A r \in Semaforos : tiene'[r] = IF r = s THEN h ELSE tiene[r]
  BY DEF SemWait, Sana, TypeOK
<1>5. Tenidos(h)' = U
  BY <1>3, <1>4 DEF Tenidos
<1>6. \A g \in Hebras \ {h} : Tenidos(g)' = Tenidos(g)
  BY <1>4, LibreNoEsHebra DEF Tenidos, SemWait
<1>7. /\ resto'[h] = Tail(resto[h])
      /\ \A g \in Hebras \ {h} : resto'[g] = resto[g]
  BY DEF SemWait, Sana, TypeOK
<1>8. \A g \in Hebras : Corre(resto'[g], Tenidos(g)', {})
  BY <1>2, <1>5, <1>6, <1>7 DEF Sana
<1>9. TypeOK'
  BY <1>2 DEF Sana, TypeOK, SemWait, Corre
<1> QED
  BY <1>8, <1>9 DEF Sana

LEMMA SanaSemPost ==
    ASSUME Sana, NEW h \in Hebras, NEW s \in Semaforos, SemPost(h, s)
    PROVE  Sana'
<1>1. /\ resto[h] # <<>> /\ Head(resto[h]) = <<"post", s>>
      /\ Corre(resto[h], Tenidos(h), {})
  BY DEF Sana, SemPost
<1>2. PICK U : Toma(<<"post", s>>, Tenidos(h), U) /\ Corre(Tail(resto[h]), U, {})
  BY <1>1, CorreTail
<1>3. U = Tenidos(h) \ {s} /\ s \in Tenidos(h)
  BY <1>2, PasoDe
<1>4. \A r \in Semaforos : tiene'[r] = IF r = s THEN Libre ELSE tiene[r]
  BY DEF SemPost, Sana, TypeOK
<1>5. Tenidos(h)' = U
  BY <1>3, <1>4, LibreNoEsHebra DEF Tenidos
<1>6. \A g \in Hebras \ {h} : Tenidos(g)' = Tenidos(g)
  BY <1>3, <1>4, LibreNoEsHebra DEF Tenidos
<1>7. /\ resto'[h] = Tail(resto[h])
      /\ \A g \in Hebras \ {h} : resto'[g] = resto[g]
  BY DEF SemPost, Sana, TypeOK
<1>8. \A g \in Hebras : Corre(resto'[g], Tenidos(g)', {})
  BY <1>2, <1>5, <1>6, <1>7 DEF Sana
<1>9. TypeOK'
  BY <1>2 DEF Sana, TypeOK, SemPost, Corre
<1> QED
  BY <1>8, <1>9 DEF Sana

LEMMA SanaSiempre == Spec => []Sana
<1>1. Init => Sana
  BY SanaInit
<1>2. Sana /\ [Next]_varsLocks => Sana'
  <2> SUFFICES ASSUME Sana, [Next]_varsLocks PROVE Sana'
    OBVIOUS
  <2>1. ASSUME NEW h \in Hebras, Empezar(h) PROVE Sana'
    BY <2>1, SanaEmpezar
  <2>2. ASSUME NEW h \in Hebras, Avanza(h) PROVE Sana'
    BY <2>2, SanaSemWait, SanaSemPost DEF Avanza
  <2>3. CASE UNCHANGED varsLocks
    BY <2>3 DEF varsLocks, Sana, TypeOK, Tenidos
  <2> QED
    BY <2>1, <2>2, <2>3 DEF Next
<1> QED
  BY <1>1, <1>2, PTL DEF Spec

-----------------------------------------------------------------------------
LEMMA SanaEsDueno == Sana => DuenoCorrecto
<1> SUFFICES ASSUME Sana, NEW h \in Hebras, NEW s \in Semaforos
             PROVE  /\ resto[h] = <<>> => tiene[s] # h
                    /\ resto[h] # <<>> /\ Head(resto[h]) = <<"post", s>> => tiene[s] = h
  BY DEF DuenoCorrecto
<1>1. CASE resto[h] = <<>>
  <2>1. Corre(<<>>, Tenidos(h), {})
    BY <1>1 DEF Sana
  <2>2. PICK f : Lleva(f, <<>>, Tenidos(h), {})
    BY <2>1 DEF Corre
  <2>3. Len(<<>>) = 0
    BY EmptySeq
  <2>4. Tenidos(h) = {}
    BY <2>2, <2>3 DEF Lleva
  <2> QED
    BY <1>1, <2>4 DEF Tenidos
<1>2. CASE resto[h] # <<>> /\ Head(resto[h]) = <<"post", s>>
  <2>1. Corre(resto[h], Tenidos(h), {})
    BY DEF Sana
  <2>2. PICK U : Toma(<<"post", s>>, Tenidos(h), U)
    BY <1>2, <2>1, CorreTail
  <2> QED
    BY ZenonT(60), <1>2, <2>2, PasoDe DEF Tenidos
<1> QED
  BY <1>1, <1>2

(* Who waits for a semaphore has only some that come before it.            *)
LEMMA EsperaSube ==
    ASSUME ConJoin = FALSE, Sana, NEW h \in Hebras, NEW s \in Semaforos, Pide(h, s),
           NEW r \in Semaforos, tiene[r] = h
    PROVE  Rango[r] < Rango[s]
<1>1. /\ resto[h] # <<>> /\ Head(resto[h]) = <<"wait", s>>
      /\ Corre(resto[h], Tenidos(h), {})
  BY DEF Sana, Pide
<1>2. PICK U : Toma(<<"wait", s>>, Tenidos(h), U)
  BY <1>1, CorreTail
<1> QED
  BY <1>2, PasoDe DEF Tenidos, Antes

(* In a set of threads that wait for each other somebody waits for a       *)
(* semaphore of rank k at least, for every k: there is no such set.        *)
LEMMA SanaEsSinInterbloqueo == ConJoin = FALSE /\ Sana => SinInterbloqueo
<1> SUFFICES ASSUME ConJoin = FALSE, Sana, NEW S \in SUBSET Hebras, S # {},
                    \A h \in S : \E g \in S : EsperaA(h, g)
             PROVE  FALSE
  BY DEF SinInterbloqueo
<1> DEFINE Alguno(k) == \E h \in S, s \in Semaforos :
                            Pide(h, s) /\ (\E g \in S : tiene[s] = g) /\ Rango[s] >= k
<1>1. Alguno(1)
  <2>1. PICK h \in S, g \in S : EsperaA(h, g)
    OBVIOUS
  <2> QED
    BY <2>1, RangoTipo DEF EsperaA
<1>2. ASSUME NEW k \in 1 .. 6, Alguno(k) PROVE Alguno(k + 1)
  <2>1. PICK s \in Semaforos, g \in S : tiene[s] = g /\ Rango[s] >= k
    BY <1>2
  <2>2. PICK f \in S, r \in Semaforos : Pide(g, r) /\ tiene[r] = f
    BY DEF EsperaA
  <2>3. Rango[s] < Rango[r]
    BY <2>1, <2>2, EsperaSube
  <2> QED
    BY <2>1, <2>2, <2>3, RangoTipo
<1>3. Alguno(7)
  <2> HIDE DEF Alguno
  <2>1. Alguno(2)
    BY <1>1, <1>2
  <2>2. Alguno(3)
    BY <1>2, <2>1
  <2>3. Alguno(4)
    BY <1>2, <2>2
  <2>4. Alguno(5)
    BY <1>2, <2>3
  <2>5. Alguno(6)
    BY <1>2, <2>4
  <2> QED
    BY <1>2, <2>5
<1> QED
  BY <1>3, RangoTipo

(* A thread posts only a semaphore that it holds, and holds none between   *)
(* two handlers: each sem_post of SUSE.c ends the section that the same    *)
(* thread began, with any number of threads atenderScheduleNext, and       *)
(* whether or not a hilo that is closed has joiners.                       *)
THEOREM DuenoSiempre == Spec => []DuenoCorrecto
BY SanaSiempre, SanaEsDueno, PTL

(* No threads of SUSE wait for each other in a circle, with any number of  *)
(* threads atenderScheduleNext, while no hilo with joiners is closed.      *)
THEOREM NoHayInterbloqueo == ConJoin = FALSE /\ Spec => []SinInterbloqueo
<1> SUFFICES ASSUME ConJoin = FALSE PROVE Spec => []SinInterbloqueo
  OBVIOUS
<1>1. Sana => SinInterbloqueo
  BY SanaEsSinInterbloqueo
<1> QED
  BY <1>1, SanaSiempre, PTL
=============================================================================
