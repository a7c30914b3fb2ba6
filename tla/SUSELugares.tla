---------------------------- MODULE SUSELugares ------------------------------
(***************************************************************************)
(* Type correctness of module SUSE, and where its hilos are, proved for any*)
(* number of programs, hilos and semaphores.  TypeOK is inductive: there is*)
(* one lemma per action of Next, with one step per variable that the action*)
(* changes.  A step of the server changes the structures that hold the     *)
(* hilos in one of a few ways, whatever the thread that takes it: the moves*)
(* of this module.  The invariants of SUSEProps about those structures are *)
(* proved from the moves.                                                  *)
(***************************************************************************)
EXTENDS SUSEProps, SequenceTheorems, FiniteSetTheorems, TLAPS

-----------------------------------------------------------------------------
(* Operators.                                                              *)

(* A counter kept modulo Ancho stays in its range, also when it goes down. *)
LEMMA Modulo == \A n \in Int : n % Ancho \in 0 .. Ancho - 1
BY SUSEAssumption

LEMMA Vacia == ASSUME NEW S PROVE <<>> \in Seq(S)
BY EmptySeq

LEMMA Primero ==
    ASSUME NEW S, NEW l \in Seq(S), l # <<>>
    PROVE  Head(l) \in S /\ Tail(l) \in Seq(S)
BY HeadTailProperties

LEMMA Ultimo ==
    ASSUME NEW S, NEW l \in Seq(S), NEW x \in S
    PROVE  Append(l, x) \in Seq(S)
BY AppendProperties

LEMMA RangoTipado ==
    ASSUME NEW S, NEW l \in Seq(S) PROVE Range(l) \subseteq S
BY DEF Range

(* Sorting a list of hilos yields a list of hilos.                         *)
LEMMA OrdenTipado ==
    ASSUME NEW l \in Seq(Hilo), NEW s \in Ordenamientos(l)
    PROVE  s \in Seq(Hilo)
BY RangoTipado DEF Ordenamientos

(* A process that dies leaves everything as it was.                        *)
LEMMA CaeTipado ==
    ASSUME NEW m \in Motivos, Cae(m), TypeOK
    PROVE  TypeOK'
BY DEF Cae, TypeOK, ConexionEnCurso, varsPrograma, varsReady, varsNew,
   varsPlanif, varsSem, varsFin

(* pasarAReady, called by planificarReady and by a signal.                 *)
LEMMA PasarAReadyTipado ==
    ASSUME TypeOK, NEW h \in Hilo, PasarAReady(h)
    PROVE  /\ listas' \in SUBSET Pids
           /\ exec' \in [Pids -> HiloONadie]
           /\ transicion' \in [Hilo -> Estados]
           /\ ready' \in [Pids -> Seq(Hilo)]
           /\ enReady' \in [Pids -> Int]
<1>0. h.pid \in Pids
  BY DEF Hilo
<1>1. CASE h.pid \notin listas
  <2>1. /\ listas' = listas \cup {h.pid}
        /\ exec' = [exec EXCEPT ![h.pid] = h]
        /\ transicion' = [transicion EXCEPT ![h] = "Execute"]
        /\ ready' = ready /\ enReady' = enReady
    BY <1>1 DEF PasarAReady
  <2>2. listas' \in SUBSET Pids
    BY <1>0, <2>1 DEF TypeOK
  <2>3. exec' \in [Pids -> HiloONadie]
    BY <2>1 DEF TypeOK, HiloONadie
  <2>4. transicion' \in [Hilo -> Estados]
    BY <2>1 DEF TypeOK, Estados
  <2> QED
    BY <2>1, <2>2, <2>3, <2>4 DEF TypeOK
<1>2. CASE h.pid \in listas
  <2>1. /\ ready' = [ready EXCEPT ![h.pid] = Append(@, h)]
        /\ enReady' = [enReady EXCEPT ![h.pid] = @ + 1]
        /\ transicion' = [transicion EXCEPT ![h] = "Ready"]
        /\ listas' = listas /\ exec' = exec
    BY <1>2 DEF PasarAReady
  <2>2. Append(ready[h.pid], h) \in Seq(Hilo)
    BY <1>0, Ultimo DEF TypeOK
  <2>3. ready' \in [Pids -> Seq(Hilo)]
    BY <2>1, <2>2 DEF TypeOK
  <2>4. enReady' \in [Pids -> Int]
    <3>1. enReady[h.pid] + 1 \in Int
      BY <1>0 DEF TypeOK
    <3> QED
      BY <2>1, <3>1 DEF TypeOK
  <2>5. transicion' \in [Hilo -> Estados]
    BY <2>1 DEF TypeOK, Estados
  <2> QED
    BY <2>1, <2>3, <2>4, <2>5 DEF TypeOK
<1> QED
  BY <1>1, <1>2

-----------------------------------------------------------------------------
(* The connection thread: connections and creation.                        *)

LEMMA TipoCrearPrograma ==
    ASSUME NEW p \in Pids, TypeOK, CrearPrograma(p)
    PROVE  TypeOK'
<1>1. socket' \in [Pids -> {"libre", "conectado", "cerrado"}]
  BY SUSEAssumption DEF TypeOK, CrearPrograma
<1>2. programas' \in SUBSET Pids
  BY SUSEAssumption DEF TypeOK, CrearPrograma
<1> QED
  BY <1>1, <1>2 DEF TypeOK, CrearPrograma, ConexionEnCurso, varsPrograma,
       varsReady, varsNew, varsPlanif, varsSem, varsFin

LEMMA TipoCrearHilo ==
    ASSUME NEW p \in Pids, NEW t \in Tids, TypeOK, CrearHilo(p, t)
    PROVE  TypeOK'
<1>1. transicion' \in [Hilo -> Estados]
  BY SUSEAssumption DEF TypeOK, CrearHilo, ConexionEnCurso, Solicita,
       EnServicio, Estados, Hilo, HiloONadie
<1>2. estimacion' \in [Hilo -> Estimaciones]
  BY SUSEAssumption DEF TypeOK, CrearHilo, ConexionEnCurso, Solicita,
       EnServicio, Hilo, HiloONadie
<1>3. new' \in Seq(Hilo)
  BY SUSEAssumption, Ultimo DEF TypeOK, CrearHilo, ConexionEnCurso, Solicita,
       EnServicio, Hilo, HiloONadie
<1>4. hayNuevos' \in Nat
  BY SUSEAssumption DEF TypeOK, CrearHilo, ConexionEnCurso, Solicita,
       EnServicio
<1>5. conexion' \in Conexiones
  BY SUSEAssumption DEF TypeOK, CrearHilo, ConexionEnCurso, Solicita,
       EnServicio, Conexiones, Pasos, EnSelect, HiloONadie, Hilo
<1>6. ConexionEnCurso'
  BY SUSEAssumption DEF TypeOK, ConexionEnCurso, CrearHilo, Conexiones, Pasos,
       EnSelect, HiloONadie, Hilo, EnServicio, Solicita
<1> QED
  BY <1>1, <1>2, <1>3, <1>4, <1>5, <1>6 DEF TypeOK, CrearHilo, varsPrograma,
       varsReady, varsNew, varsPlanif, varsSem, varsFin

LEMMA TipoContarNew ==
    ASSUME TypeOK, ContarNew
    PROVE  TypeOK'
<1>1. enNew' \in [Pids -> Int]
  BY SUSEAssumption DEF TypeOK, ContarNew, ConexionEnCurso
<1>2. conexion' \in Conexiones
  BY SUSEAssumption DEF TypeOK, ContarNew, ConexionEnCurso, Conexiones, Pasos,
       EnSelect, HiloONadie, Hilo, EnServicio, Solicita
<1>3. ConexionEnCurso'
  BY SUSEAssumption DEF TypeOK, ConexionEnCurso, ContarNew, Conexiones, Pasos,
       EnSelect, HiloONadie, Hilo, EnServicio, Solicita
<1> QED
  BY <1>1, <1>2, <1>3 DEF TypeOK, ContarNew, varsPrograma, varsReady, varsNew,
       varsPlanif, varsSem, varsFin

LEMMA TipoScheduleNext ==
    ASSUME NEW p \in Pids, TypeOK, ScheduleNext(p)
    PROVE  TypeOK'
<1>1. agenda' \in [Pids -> Agendas]
  BY SUSEAssumption DEF TypeOK, ScheduleNext, Solicita, EnServicio, Agendas
<1> QED
  BY <1>1 DEF TypeOK, ScheduleNext, ConexionEnCurso, varsPrograma, varsReady,
       varsNew, varsPlanif, varsSem, varsFin

-----------------------------------------------------------------------------
(* The connection thread: semaphores.                                      *)

LEMMA TipoSuseWait ==
    ASSUME NEW p \in Pids, NEW t \in Tids, NEW s \in Sems, TypeOK,
           SuseWait(p, t, s)
    PROVE  TypeOK'
<1>1. CASE semaforo[s] > 0
  <2>1. semaforo' \in [Sems -> Nat]
    <3>1. semaforo[s] - 1 \in Nat
      BY <1>1 DEF TypeOK
    <3>2. semaforo' = [semaforo EXCEPT ![s] = @ - 1]
      BY <1>1 DEF SuseWait, TypeOK
    <3> QED
      BY <3>1, <3>2 DEF TypeOK
  <2>2. UNCHANGED <<socket, programas, varsPrograma, varsReady, varsFin,
                    estimacion, transicion, varsNew, varsPlanif, maximo,
                    cola, conexion, agenda, respuesta, caida>>
    BY <1>1 DEF SuseWait, TypeOK
  <2> QED
    BY ZenonT(60), <2>1, <2>2 DEF TypeOK, ConexionEnCurso, varsPrograma, varsReady,
       varsNew, varsPlanif, varsFin
<1>2. CASE ~(semaforo[s] > 0) /\ exec[p] = Nadie
  BY <1>2, CaeTipado DEF SuseWait, Motivos
<1>3. CASE ~(semaforo[s] > 0) /\ exec[p] # Nadie /\ exec[p].tid # t
  BY <1>3, CaeTipado DEF SuseWait, Motivos
<1>4. CASE ~(semaforo[s] > 0) /\ exec[p] # Nadie /\ exec[p].tid = t
  <2>0. exec[p] \in Hilo
    BY <1>4 DEF TypeOK, HiloONadie
  <2>1. /\ cola' = [cola EXCEPT ![s] = Append(@, exec[p])]
        /\ transicion' = [transicion EXCEPT ![exec[p]] = "Blocked"]
        /\ enBlocked' = [enBlocked EXCEPT ![p] = (@ + 1) % Ancho]
        /\ DejarExec(p)
        /\ UNCHANGED <<socket, programas, bloqueados, estaBloqueado,
                       mutexLibre, enNew, enReady, varsReady, varsFin,
                       estimacion, varsNew, varsPlanif, maximo, semaforo,
                       conexion, agenda, respuesta, caida>>
    BY <1>4 DEF SuseWait
  <2>2. cola' \in [Sems -> Seq(Hilo)]
    <3>1. Append(cola[s], exec[p]) \in Seq(Hilo)
      BY <2>0, Ultimo DEF TypeOK
    <3> QED
      BY <2>1, <3>1 DEF TypeOK
  <2>3. transicion' \in [Hilo -> Estados]
    BY <2>1 DEF TypeOK, Estados
  <2>4. enBlocked' \in [Pids -> 0 .. Ancho - 1]
    <3>1. enBlocked[p] + 1 \in Int
      BY SMTT(60), SUSEAssumption DEF TypeOK
    <3>2. (enBlocked[p] + 1) % Ancho \in 0 .. Ancho - 1
      BY <3>1, Modulo
    <3> QED
      BY <2>1, <3>2 DEF TypeOK
  <2>5. exec' \in [Pids -> HiloONadie]
    BY <2>1 DEF TypeOK, DejarExec, HiloONadie
  <2> QED
    BY <2>1, <2>2, <2>3, <2>4, <2>5 DEF TypeOK, ConexionEnCurso, varsReady,
       varsNew, varsPlanif, varsFin
<1> QED
  BY <1>1, <1>2, <1>3, <1>4

LEMMA TipoSuseSignal ==
    ASSUME NEW p \in Pids, NEW s \in Sems, TypeOK, SuseSignal(p, s)
    PROVE  TypeOK'
<1>1. CASE cola[s] = <<>>
  <2>1. semaforo' \in [Sems -> Nat]
    <3>1. semaforo[s] + 1 \in Nat
      BY DEF TypeOK
    <3>2. semaforo' = [semaforo EXCEPT ![s] = @ + 1]
      BY <1>1 DEF SuseSignal, Cae
    <3> QED
      BY <3>1, <3>2 DEF TypeOK
  <2> QED
    BY ZenonT(60), <1>1, <2>1 DEF TypeOK, SuseSignal, ConexionEnCurso, varsPrograma,
       varsReady, varsNew, varsPlanif, varsFin
<1>2. CASE cola[s] # <<>> /\ Head(cola[s]).pid \notin programas
  BY <1>2, CaeTipado DEF SuseSignal, Motivos
<1>3. CASE cola[s] # <<>> /\ Head(cola[s]).pid \in programas
  <2>0. Head(cola[s]) \in Hilo /\ Tail(cola[s]) \in Seq(Hilo)
    BY <1>3, Primero DEF TypeOK
  <2>1. /\ PasarAReady(Head(cola[s]))
        /\ cola' = [cola EXCEPT ![s] = Tail(@)]
        /\ conexion' = [paso |-> "despertar", pid |-> p,
                        hilo |-> Head(cola[s])]
        /\ UNCHANGED <<socket, programas, bloqueados, estaBloqueado,
                       mutexLibre, enNew, enBlocked, varsFin, estimacion,
                       varsNew, varsPlanif, maximo, semaforo, agenda,
                       respuesta, caida>>
    BY <1>3 DEF SuseSignal
  <2>2. cola' \in [Sems -> Seq(Hilo)]
    BY <2>0, <2>1 DEF TypeOK
  <2>3. conexion' \in Conexiones /\ ConexionEnCurso'
    BY <2>0, <2>1 DEF Conexiones, Pasos, HiloONadie, ConexionEnCurso
  <2>4. /\ listas' \in SUBSET Pids
        /\ exec' \in [Pids -> HiloONadie]
        /\ transicion' \in [Hilo -> Estados]
        /\ ready' \in [Pids -> Seq(Hilo)]
        /\ enReady' \in [Pids -> Int]
    BY <2>0, <2>1, PasarAReadyTipado
  <2> QED
    BY <2>1, <2>2, <2>3, <2>4 DEF TypeOK, varsNew, varsPlanif, varsFin
<1> QED
  BY <1>1, <1>2, <1>3

LEMMA TipoDespertar ==
    ASSUME TypeOK, Despertar
    PROVE  TypeOK'
<1>0. conexion.pid \in Pids /\ conexion.hilo \in Hilo
  BY DEF TypeOK, ConexionEnCurso, Despertar
<1>1. mutexLibre' \in [Pids -> BOOLEAN]
  BY DEF TypeOK, Despertar
<1>2. PICK q \in {"desmarcar", "descontar"} :
          conexion' = [conexion EXCEPT !.paso = q]
  BY DEF Despertar
<1>3. conexion' \in Conexiones /\ ConexionEnCurso'
  <2>1. conexion' = [paso |-> q, pid |-> conexion.pid, hilo |-> conexion.hilo]
    BY <1>2 DEF TypeOK, Conexiones
  <2> QED
    BY <1>0, <2>1 DEF Conexiones, Pasos, HiloONadie, ConexionEnCurso
<1> QED
  BY <1>1, <1>3 DEF TypeOK, Despertar, varsReady, varsNew, varsPlanif,
     varsSem, varsFin

LEMMA TipoDesmarcar ==
    ASSUME TypeOK, Desmarcar
    PROVE  TypeOK'
<1>1. estaBloqueado' \in [Pids -> BOOLEAN]
  BY SUSEAssumption DEF TypeOK, Desmarcar, ConexionEnCurso, Desmarca
<1>2. conexion' \in Conexiones
  BY SUSEAssumption DEF TypeOK, Desmarcar, ConexionEnCurso, Desmarca,
       Conexiones, Pasos, EnSelect, HiloONadie, Hilo, EnServicio, Solicita
<1>3. ConexionEnCurso'
  BY SUSEAssumption DEF TypeOK, ConexionEnCurso, Desmarcar, Desmarca,
       Conexiones, Pasos, EnSelect, HiloONadie, Hilo, EnServicio, Solicita
<1> QED
  BY <1>1, <1>2, <1>3 DEF TypeOK, Desmarcar, varsPrograma, varsReady, varsNew,
       varsPlanif, varsSem, varsFin

LEMMA TipoDescontar ==
    ASSUME TypeOK, Descontar
    PROVE  TypeOK'
<1>0. conexion.pid \in Pids
  BY DEF TypeOK, ConexionEnCurso, Descontar
<1>1. (enBlocked[conexion.pid] - 1) % Ancho \in 0 .. Ancho - 1
  <2>1. enBlocked[conexion.pid] - 1 \in Int
    BY <1>0, SUSEAssumption DEF TypeOK
  <2> QED
    BY <2>1, Modulo
<1>2. enBlocked' \in [Pids -> 0 .. Ancho - 1]
  BY <1>1 DEF TypeOK, Descontar
<1>3. conexion' \in Conexiones /\ ConexionEnCurso'
  BY DEF Descontar, EnSelect, Conexiones, Pasos, HiloONadie, ConexionEnCurso
<1> QED
  BY <1>2, <1>3 DEF TypeOK, Descontar, varsPrograma, varsReady, varsNew,
     varsPlanif, varsSem, varsFin

-----------------------------------------------------------------------------
(* The connection thread: join and close.                                  *)

LEMMA TipoRealizarJoin ==
    ASSUME NEW p \in Pids, NEW t \in Tids, TypeOK, RealizarJoin(p, t)
    PROVE  TypeOK'
<1>0. exec[p] \in Hilo
  BY DEF TypeOK, RealizarJoin, HiloONadie
<1>1. enBlocked' \in [Pids -> 0 .. Ancho - 1]
  <2>1. (enBlocked[p] + 1) % Ancho \in 0 .. Ancho - 1
    <3>1. enBlocked[p] + 1 \in Int
      BY SUSEAssumption DEF TypeOK
    <3> QED
      BY <3>1, Modulo
  <2> QED
    BY <2>1 DEF TypeOK, RealizarJoin
<1>2. bloqueados' \in [Pids -> [Tids -> Seq(Hilo)]]
  <2>1. Append(bloqueados[p][t], exec[p]) \in Seq(Hilo)
    BY <1>0, Ultimo DEF TypeOK
  <2>2. [bloqueados[p] EXCEPT ![t] = Append(@, exec[p])]
            \in [Tids -> Seq(Hilo)]
    BY <2>1 DEF TypeOK
  <2> QED
    BY <2>2 DEF TypeOK, RealizarJoin
<1>3. transicion' \in [Hilo -> Estados]
  BY DEF TypeOK, RealizarJoin, Estados
<1>4. exec' \in [Pids -> HiloONadie]
  BY DEF TypeOK, RealizarJoin, DejarExec, HiloONadie
<1> QED
  BY <1>1, <1>2, <1>3, <1>4 DEF TypeOK, RealizarJoin, ConexionEnCurso,
     varsPrograma, varsReady, varsNew, varsPlanif, varsSem, varsFin

LEMMA TipoRealizarClose ==
    ASSUME NEW p \in Pids, NEW t \in Tids, TypeOK, RealizarClose(p, t)
    PROVE  TypeOK'
<1>1. CASE exec[p] = Nadie
  BY <1>1, CaeTipado DEF RealizarClose, Motivos
<1>2. CASE exec[p] # Nadie
  <2>0. exec[p] \in Hilo
    BY <1>2 DEF TypeOK, HiloONadie
  <2>1. exit' \in [Pids -> SUBSET Hilo]
    <3>1. exit[p] \cup {exec[p]} \in SUBSET Hilo
      BY <2>0 DEF TypeOK
    <3>2. exit' = [exit EXCEPT ![p] = @ \cup {exec[p]}]
      BY <1>2 DEF RealizarClose
    <3> QED
      BY <3>1, <3>2 DEF TypeOK
  <2>2. transicion' \in [Hilo -> Estados]
    BY <1>2 DEF TypeOK, RealizarClose, Estados
  <2>3. conexion' \in Conexiones /\ ConexionEnCurso'
    BY <1>2, <2>0 DEF RealizarClose, Conexiones, Pasos, HiloONadie,
       ConexionEnCurso
  <2>4. UNCHANGED <<socket, programas, varsPrograma, varsReady, liberados,
                    estimacion, varsNew, varsPlanif, maximo, varsSem, agenda,
                    respuesta, caida>>
    BY <1>2 DEF RealizarClose
  <2> QED
    BY <2>1, <2>2, <2>3, <2>4 DEF TypeOK, varsPrograma, varsReady, varsNew,
       varsPlanif, varsSem
<1> QED
  BY <1>1, <1>2

LEMMA TipoMetricasClose ==
    ASSUME TypeOK, MetricasClose
    PROVE  TypeOK'
<1>0. conexion.pid \in Pids /\ conexion.hilo \in Hilo
  BY DEF TypeOK, ConexionEnCurso, MetricasClose
<1>1. CASE SinPrograma
  BY <1>1, CaeTipado DEF MetricasClose, Motivos
<1>2. CASE ~SinPrograma
  <2>1. conexion' = [conexion EXCEPT !.paso = "devolver"]
    BY <1>2 DEF MetricasClose
  <2>2. conexion' = [paso |-> "devolver", pid |-> conexion.pid,
                     hilo |-> conexion.hilo]
    BY <2>1 DEF TypeOK, Conexiones
  <2>3. conexion' \in Conexiones /\ ConexionEnCurso'
    BY <1>0, <2>2 DEF Conexiones, Pasos, HiloONadie, ConexionEnCurso
  <2>4. new' \in Seq(Hilo) /\ colaAux' \in Seq(Hilo) /\ hayNuevos' \in Nat
    BY <1>2, Vacia DEF TypeOK, MetricasClose, Vaciar
  <2> QED
    BY <1>2, <2>3, <2>4 DEF TypeOK, MetricasClose, varsPrograma, varsReady,
       varsPlanif, varsSem, varsFin
<1> QED
  BY <1>1, <1>2

LEMMA TipoDevolverClose ==
    ASSUME TypeOK, DevolverClose
    PROVE  TypeOK'
<1>1. new' \in Seq(Hilo)
  BY SUSEAssumption, ConcatProperties DEF TypeOK, DevolverClose,
       ConexionEnCurso, Devolver, PostMaximo, Hilo, HiloONadie
<1>2. colaAux' \in Seq(Hilo)
  BY SUSEAssumption DEF TypeOK, DevolverClose, ConexionEnCurso, Devolver,
       PostMaximo
<1>3. metricas' \in {"libre", "timer", "close"}
  BY SUSEAssumption DEF TypeOK, DevolverClose, ConexionEnCurso, Devolver,
       PostMaximo
<1>4. maximo' \in Nat
  BY SMTT(60), SUSEAssumption DEF TypeOK, DevolverClose, ConexionEnCurso, Devolver,
       PostMaximo
<1>5. conexion' \in Conexiones
  BY SUSEAssumption DEF TypeOK, DevolverClose, ConexionEnCurso, Devolver,
       PostMaximo, Conexiones, Pasos, EnSelect, HiloONadie, Hilo, EnServicio,
       Solicita
<1>6. ConexionEnCurso'
  BY SUSEAssumption DEF TypeOK, ConexionEnCurso, DevolverClose, Devolver,
       PostMaximo, Conexiones, Pasos, EnSelect, HiloONadie, Hilo, EnServicio,
       Solicita
<1> QED
  BY <1>1, <1>2, <1>3, <1>4, <1>5, <1>6 DEF TypeOK, DevolverClose, Devolver,
       varsPrograma, varsReady, varsNew, varsPlanif, varsSem, varsFin

LEMMA TipoSoltarExec ==
    ASSUME TypeOK, SoltarExec
    PROVE  TypeOK'
<1>1. exec' \in [Pids -> HiloONadie]
  BY SUSEAssumption DEF TypeOK, SoltarExec, ConexionEnCurso, DejarExec,
       HiloONadie
<1>2. conexion' \in Conexiones
  BY SUSEAssumption DEF TypeOK, SoltarExec, ConexionEnCurso, DejarExec,
       Conexiones, Pasos, EnSelect, HiloONadie, Hilo, EnServicio, Solicita
<1>3. ConexionEnCurso'
  BY SUSEAssumption DEF TypeOK, ConexionEnCurso, SoltarExec, DejarExec,
       Conexiones, Pasos, EnSelect, HiloONadie, Hilo, EnServicio, Solicita
<1> QED
  BY <1>1, <1>2, <1>3 DEF TypeOK, SoltarExec, varsPrograma, varsReady,
       varsNew, varsPlanif, varsSem, varsFin

LEMMA TipoLiberar ==
    ASSUME TypeOK, Liberar
    PROVE  TypeOK'
<1>0. /\ conexion.pid \in Pids /\ conexion.hilo \in Hilo
      /\ conexion.hilo.tid \in Tids
  BY DEF TypeOK, ConexionEnCurso, Liberar, Hilo
<1>1. CASE Esperan = <<>>
  <2>1. conexion' = EnSelect
    BY <1>1 DEF Liberar
  <2>2. conexion' \in Conexiones /\ ConexionEnCurso'
    BY <2>1 DEF EnSelect, Conexiones, Pasos, HiloONadie, ConexionEnCurso
  <2> QED
    BY <1>1, <2>2 DEF TypeOK, Liberar, varsNew, varsPlanif, varsSem, varsFin
<1>2. CASE Esperan # <<>>
  <2> DEFINE h == Head(Esperan)
  <2>1. h \in Hilo /\ h.pid \in Pids /\ Tail(Esperan) \in Seq(Hilo)
    <3>1. Esperan \in Seq(Hilo)
      BY <1>0 DEF TypeOK, Esperan
    <3>2. h \in Hilo /\ Tail(Esperan) \in Seq(Hilo)
      BY <1>2, <3>1, Primero
    <3> QED
      BY <3>2 DEF Hilo
  <2>2. bloqueados' \in [Pids -> [Tids -> Seq(Hilo)]]
    <3>1. [bloqueados[conexion.pid] EXCEPT ![conexion.hilo.tid] = Tail(@)]
              \in [Tids -> Seq(Hilo)]
      BY <1>0, <2>1 DEF TypeOK, Esperan
    <3>2. bloqueados' = [bloqueados EXCEPT
               ![conexion.pid][conexion.hilo.tid] = Tail(@)]
      BY <1>2 DEF Liberar, QuitarPrimero
    <3> QED
      BY <3>1, <3>2 DEF TypeOK
  <2>3. UNCHANGED conexion
    BY <1>2 DEF Liberar
  <2>4. CASE BloqueadoPorAlguno(bloqueados', h)
    BY <1>2, <2>2, <2>3, <2>4 DEF TypeOK, Liberar, ConexionEnCurso, varsNew,
       varsPlanif, varsSem, varsFin
  <2>5. CASE ~BloqueadoPorAlguno(bloqueados', h)
    <3>1. /\ ready' = [ready EXCEPT ![h.pid] = Append(@, h)]
          /\ transicion' = [transicion EXCEPT ![h] = "Ready"]
          /\ enBlocked' = [enBlocked EXCEPT ![h.pid] = (@ - 1) % Ancho]
          /\ enReady' = [enReady EXCEPT ![h.pid] = @ + 1]
      BY <1>2, <2>5 DEF Liberar
    <3>2. ready' \in [Pids -> Seq(Hilo)]
      <4>1. Append(ready[h.pid], h) \in Seq(Hilo)
        BY <2>1, Ultimo DEF TypeOK
      <4> QED
        BY <3>1, <4>1 DEF TypeOK
    <3>3. enBlocked' \in [Pids -> 0 .. Ancho - 1]
      <4>1. enBlocked[h.pid] - 1 \in Int
        BY <2>1, SUSEAssumption DEF TypeOK
      <4>2. (enBlocked[h.pid] - 1) % Ancho \in 0 .. Ancho - 1
        BY <4>1, Modulo
      <4> QED
        BY <3>1, <4>2 DEF TypeOK
    <3>4. transicion' \in [Hilo -> Estados] /\ enReady' \in [Pids -> Int]
      <4>1. transicion' \in [Hilo -> Estados]
        BY <3>1 DEF TypeOK, Estados
      <4>2. enReady[h.pid] + 1 \in Int
        BY <2>1 DEF TypeOK
      <4>3. enReady' \in [Pids -> Int]
        BY <3>1, <4>2 DEF TypeOK
      <4> QED
        BY <4>1, <4>3
    <3> QED
      BY <1>2, <2>2, <2>3, <3>2, <3>3, <3>4 DEF TypeOK, Liberar,
         ConexionEnCurso, varsNew, varsPlanif, varsSem, varsFin
  <2> QED
    BY <2>4, <2>5
<1> QED
  BY <1>1, <1>2

-----------------------------------------------------------------------------
(* The connection thread: disconnection.                                   *)

LEMMA TipoDesconectar ==
    ASSUME NEW p \in Pids, TypeOK, Desconectar(p)
    PROVE  TypeOK'
<1>1. socket' \in [Pids -> {"libre", "conectado", "cerrado"}]
  BY SUSEAssumption DEF TypeOK, Desconectar, ConexionEnCurso, Solicita,
       EnServicio, PostMaximo
<1>2. respuesta' \in [Pids -> Tids \cup {Ninguna}]
  BY SUSEAssumption DEF TypeOK, Desconectar, ConexionEnCurso, Solicita,
       EnServicio, PostMaximo, Hilo, HiloONadie
<1>3. maximo' \in Nat
  BY SUSEAssumption DEF TypeOK, Desconectar, ConexionEnCurso, Solicita,
       EnServicio, PostMaximo
<1>4. conexion' \in Conexiones
  BY SUSEAssumption DEF TypeOK, Desconectar, ConexionEnCurso, Solicita,
       EnServicio, PostMaximo, Conexiones, Pasos, EnSelect, HiloONadie, Hilo
<1>5. ConexionEnCurso'
  BY SUSEAssumption DEF TypeOK, ConexionEnCurso, Desconectar, EnServicio,
       PostMaximo, Conexiones, Pasos, EnSelect, HiloONadie, Hilo, Solicita
<1> QED
  BY <1>1, <1>2, <1>3, <1>4, <1>5 DEF TypeOK, Desconectar, varsPrograma,
       varsReady, varsNew, varsPlanif, varsSem, varsFin

LEMMA TipoLimpiarReady ==
    ASSUME TypeOK, LimpiarReady
    PROVE  TypeOK'
<1>1. listas' \in SUBSET Pids
  BY SUSEAssumption DEF TypeOK, LimpiarReady, ConexionEnCurso
<1>2. ready' \in [Pids -> Seq(Hilo)]
  BY SUSEAssumption, Vacia DEF TypeOK, LimpiarReady, ConexionEnCurso, Hilo,
       HiloONadie
<1>3. exit' \in [Pids -> SUBSET Hilo]
  BY SUSEAssumption DEF TypeOK, LimpiarReady, ConexionEnCurso, Hilo,
       HiloONadie
<1>4. liberados' \in SUBSET Hilo
  BY SUSEAssumption, RangoTipado DEF TypeOK, LimpiarReady, ConexionEnCurso,
       Hilo, HiloONadie
<1>5. conexion' \in Conexiones
  BY SUSEAssumption DEF TypeOK, LimpiarReady, ConexionEnCurso, Conexiones,
       Pasos, EnSelect, HiloONadie, Hilo, EnServicio, Solicita
<1>6. ConexionEnCurso'
  BY SUSEAssumption DEF TypeOK, ConexionEnCurso, LimpiarReady, Conexiones,
       Pasos, EnSelect, HiloONadie, Hilo, EnServicio, Solicita
<1> QED
  BY <1>1, <1>2, <1>3, <1>4, <1>5, <1>6 DEF TypeOK, LimpiarReady,
       varsPrograma, varsReady, varsNew, varsPlanif, varsSem, varsFin

LEMMA TipoLimpiarPrograma ==
    ASSUME TypeOK, LimpiarPrograma
    PROVE  TypeOK'
<1>0. conexion.pid \in Pids
  BY DEF TypeOK, ConexionEnCurso, LimpiarPrograma
<1>1. BorraPrograma(conexion.pid) \subseteq Hilo
  <2>1. \A t \in Tids : Range(bloqueados[conexion.pid][t]) \subseteq Hilo
    BY <1>0, RangoTipado DEF TypeOK
  <2> QED
    BY <1>0, <2>1 DEF TypeOK, BorraPrograma, HiloONadie
<1>2. liberados' \in SUBSET Hilo
  BY <1>1 DEF TypeOK, LimpiarPrograma
<1>3. bloqueados' \in [Pids -> [Tids -> Seq(Hilo)]]
  <2>1. [t \in Tids |-> <<>>] \in [Tids -> Seq(Hilo)]
    BY Vacia
  <2> QED
    BY <2>1 DEF TypeOK, LimpiarPrograma
<1>4. exec' \in [Pids -> HiloONadie]
  BY DEF TypeOK, LimpiarPrograma, DejarExec, HiloONadie
<1>5. programas' \in SUBSET Pids
  BY DEF TypeOK, LimpiarPrograma
<1>6. conexion' \in Conexiones /\ ConexionEnCurso'
  BY DEF LimpiarPrograma, EnSelect, Conexiones, Pasos, HiloONadie,
     ConexionEnCurso
<1> QED
  BY <1>2, <1>3, <1>4, <1>5, <1>6 DEF TypeOK, LimpiarPrograma, varsPrograma,
     varsReady, varsNew, varsPlanif, varsSem, varsFin

-----------------------------------------------------------------------------
(* planificarReady and the metrics.                                        *)

LEMMA TipoTomarNuevo ==
    ASSUME TypeOK, TomarNuevo
    PROVE  TypeOK'
<1>1. hayNuevos' \in Nat
  BY DEF TypeOK, TomarNuevo
<1>2. new' \in Seq(Hilo) /\ enMano' \in HiloONadie
  <2>1. CASE new = <<>>
    BY <2>1 DEF TypeOK, TomarNuevo
  <2>2. CASE new # <<>>
    <3>1. Head(new) \in Hilo /\ Tail(new) \in Seq(Hilo)
      BY <2>2, Primero DEF TypeOK
    <3> QED
      BY <2>2, <3>1 DEF TomarNuevo, HiloONadie
  <2> QED
    BY <2>1, <2>2
<1>3. planificador' = "tomado"
  BY DEF TomarNuevo
<1> QED
  BY <1>1, <1>2, <1>3 DEF TypeOK, TomarNuevo, ConexionEnCurso, varsPrograma,
     varsReady, varsNew, varsPlanif, varsSem, varsFin

LEMMA TipoAdmitir ==
    ASSUME TypeOK, Admitir
    PROVE  TypeOK'
<1>1. CASE caida' # "no"
  BY <1>1, CaeTipado DEF Admitir, Motivos, Solicita, EnServicio, Calcular
<1>2. CASE caida' = "no"
  <2>1. maximo' \in Nat
    BY <1>2, SUSEAssumption DEF TypeOK, Admitir, Cae, HayLugar
  <2>2. enNew' \in [Pids -> Int]
    BY <1>2, SUSEAssumption DEF TypeOK, Admitir, Cae, HayLugar
  <2>3. planificador' \in {"espera", "tomado", "admitido"}
    BY <1>2, SUSEAssumption DEF TypeOK, Admitir, Cae, HayLugar
  <2>4. (planificador = "admitido" => enMano \in Hilo)'
    BY <1>2, SUSEAssumption DEF TypeOK, Admitir, HiloONadie, Cae, HayLugar
  <2> QED
    BY ZenonT(60), <1>2, <2>1, <2>2, <2>3, <2>4 DEF TypeOK, Admitir, Cae, ConexionEnCurso,
         varsPrograma, varsReady, varsNew, varsPlanif, varsSem, varsFin
<1> QED
  BY <1>1, <1>2

LEMMA TipoPasarNuevo ==
    ASSUME TypeOK, PasarNuevo
    PROVE  TypeOK'
<1>0. enMano \in Hilo
  BY DEF TypeOK, PasarNuevo
<1>1. CASE enMano.pid \notin programas
  BY <1>1, CaeTipado DEF PasarNuevo, Motivos
<1>2. CASE enMano.pid \in programas
  <2>1. /\ PasarAReady(enMano)
        /\ enMano' = Nadie
        /\ planificador' = "espera"
        /\ UNCHANGED <<socket, programas, bloqueados, estaBloqueado,
                       mutexLibre, enNew, enBlocked, varsFin, estimacion,
                       varsNew, maximo, varsSem, conexion, agenda,
                       respuesta, caida>>
    BY <1>2 DEF PasarNuevo
  <2>2. /\ listas' \in SUBSET Pids
        /\ exec' \in [Pids -> HiloONadie]
        /\ transicion' \in [Hilo -> Estados]
        /\ ready' \in [Pids -> Seq(Hilo)]
        /\ enReady' \in [Pids -> Int]
    BY <1>0, <2>1, PasarAReadyTipado
  <2> QED
    BY <2>1, <2>2 DEF TypeOK, HiloONadie, ConexionEnCurso, varsNew, varsSem,
       varsFin
<1> QED
  BY <1>1, <1>2

LEMMA TipoMetricasTimer ==
    ASSUME TypeOK, MetricasTimer
    PROVE  TypeOK'
<1>1. CASE caida' # "no"
  BY <1>1, CaeTipado DEF MetricasTimer, Motivos, Solicita, EnServicio,
       Calcular
<1>2. CASE caida' = "no"
  <2>1. new' \in Seq(Hilo)
    BY <1>2, SUSEAssumption DEF TypeOK, MetricasTimer, Cae, Vaciar, Hilo,
         HiloONadie
  <2>2. colaAux' \in Seq(Hilo)
    BY <1>2, SUSEAssumption DEF TypeOK, MetricasTimer, Cae, Vaciar
  <2>3. metricas' \in {"libre", "timer", "close"}
    BY <1>2, SUSEAssumption DEF TypeOK, MetricasTimer, Cae, Vaciar
  <2> QED
    BY <1>2, <2>1, <2>2, <2>3 DEF TypeOK, MetricasTimer, Cae, ConexionEnCurso,
         Vaciar, varsPrograma, varsReady, varsNew, varsPlanif, varsSem,
         varsFin
<1> QED
  BY <1>1, <1>2

LEMMA TipoDevolverTimer ==
    ASSUME TypeOK, DevolverTimer
    PROVE  TypeOK'
<1>1. new' \in Seq(Hilo)
  BY SUSEAssumption, ConcatProperties DEF TypeOK, DevolverTimer, Devolver,
       Hilo, HiloONadie
<1>2. colaAux' \in Seq(Hilo)
  BY SUSEAssumption DEF TypeOK, DevolverTimer, Devolver
<1>3. metricas' \in {"libre", "timer", "close"}
  BY SUSEAssumption DEF TypeOK, DevolverTimer, Devolver
<1> QED
  BY <1>1, <1>2, <1>3 DEF TypeOK, DevolverTimer, ConexionEnCurso, Devolver,
       varsPrograma, varsReady, varsNew, varsPlanif, varsSem, varsFin

-----------------------------------------------------------------------------
(* schedule_next.                                                          *)

LEMMA TipoRecalcular ==
    ASSUME NEW p \in Pids, TypeOK, Recalcular(p)
    PROVE  TypeOK'
<1>1. estimacion' \in [Hilo -> Estimaciones]
  BY ZenonT(60), SUSEAssumption DEF TypeOK, Recalcular, Solicita, EnServicio, Hilo,
       HiloONadie
<1>2. agenda' \in [Pids -> Agendas]
  BY SUSEAssumption DEF TypeOK, Recalcular, Solicita, EnServicio, Agendas
<1> QED
  BY <1>1, <1>2 DEF TypeOK, Recalcular, ConexionEnCurso, varsPrograma,
       varsReady, varsNew, varsPlanif, varsSem, varsFin

LEMMA TipoReplanificar ==
    ASSUME NEW p \in Pids, TypeOK, Replanificar(p)
    PROVE  TypeOK'
<1>1. CASE caida' # "no"
  BY <1>1, CaeTipado DEF Replanificar, Motivos, Solicita, EnServicio, Calcular
<1>2. CASE caida' = "no"
  <2>0. PICK s \in Ordenamientos(ready[p]) : ready' = [ready EXCEPT ![p] = s]
    BY <1>2 DEF Replanificar, Cae
  <2>1. ready' \in [Pids -> Seq(Hilo)]
    <3>1. ready[p] \in Seq(Hilo)
      BY DEF TypeOK
    <3>2. s \in Seq(Hilo)
      BY <3>1, OrdenTipado
    <3> QED
      BY <2>0, <3>2 DEF TypeOK
  <2>2. agenda' \in [Pids -> Agendas]
    <3>1. agenda' = [agenda EXCEPT ![p] = "calcular"]
      BY <1>2 DEF Replanificar, Cae
    <3> QED
      BY <3>1 DEF TypeOK, Agendas
  <2>3. UNCHANGED <<socket, programas, varsPrograma, listas, varsFin,
                    estimacion, transicion, varsNew, varsPlanif, maximo,
                    varsSem, conexion, respuesta, caida>>
    BY <1>2 DEF Replanificar, Cae
  <2> QED
    BY <2>1, <2>2, <2>3 DEF TypeOK, ConexionEnCurso, varsPrograma, varsNew,
         varsPlanif, varsSem, varsFin
<1> QED
  BY <1>1, <1>2

LEMMA TipoCalcularCae ==
    ASSUME NEW p \in Pids, TypeOK, CalcularCae(p)
    PROVE  TypeOK'
<1>1. CASE caida' # "no"
  BY <1>1, CaeTipado DEF CalcularCae, Motivos, Solicita, EnServicio, Calcular
<1>2. CASE caida' = "no"
  <2> QED
    BY <1>2 DEF TypeOK, CalcularCae, Cae, ConexionEnCurso, varsPrograma,
         varsReady, varsNew, varsPlanif, varsSem, varsFin
<1> QED
  BY <1>1, <1>2

LEMMA TipoDesalojar ==
    ASSUME NEW p \in Pids, TypeOK, Desalojar(p)
    PROVE  TypeOK'
<1>1. ready' \in [Pids -> Seq(Hilo)]
  BY SUSEAssumption, Primero, Ultimo DEF TypeOK, Desalojar, Solicita,
       EnServicio, Calcular, EsMasCorto, Responder, Hilo, HiloONadie
<1>2. exec' \in [Pids -> HiloONadie]
  BY SUSEAssumption, Primero DEF TypeOK, Desalojar, Solicita, EnServicio,
       Calcular, EsMasCorto, Responder, HiloONadie
<1>3. transicion' \in [Hilo -> Estados]
  BY SUSEAssumption, Primero DEF TypeOK, Desalojar, Solicita, EnServicio,
       Calcular, EsMasCorto, Responder, Estados, Hilo, HiloONadie
<1>4. respuesta' \in [Pids -> Tids \cup {Ninguna}]
  BY SUSEAssumption, Primero DEF TypeOK, Desalojar, Solicita, EnServicio,
       Calcular, EsMasCorto, Responder, Hilo, HiloONadie
<1>5. agenda' \in [Pids -> Agendas]
  BY SUSEAssumption DEF TypeOK, Desalojar, Solicita, EnServicio, Calcular,
       EsMasCorto, Responder, Agendas
<1> QED
  BY ZenonT(60), <1>1, <1>2, <1>3, <1>4, <1>5 DEF TypeOK, Desalojar, ConexionEnCurso,
       varsPrograma, varsReady, varsNew, varsPlanif, varsSem, varsFin

LEMMA TipoContinuar ==
    ASSUME NEW p \in Pids, TypeOK, Continuar(p)
    PROVE  TypeOK'
<1>1. respuesta' \in [Pids -> Tids \cup {Ninguna}]
  BY SUSEAssumption DEF TypeOK, Continuar, Solicita, EnServicio, Calcular,
       Responder, Hilo, HiloONadie
<1>2. agenda' \in [Pids -> Agendas]
  BY SUSEAssumption DEF TypeOK, Continuar, Solicita, EnServicio, Calcular,
       Responder, Agendas
<1> QED
  BY <1>1, <1>2 DEF TypeOK, Continuar, ConexionEnCurso, varsPrograma,
       varsReady, varsNew, varsPlanif, varsSem, varsFin

LEMMA TipoDespachar ==
    ASSUME NEW p \in Pids, TypeOK, Despachar(p)
    PROVE  TypeOK'
<1>1. exec' \in [Pids -> HiloONadie]
  BY SUSEAssumption, Primero DEF TypeOK, Despachar, Solicita, EnServicio,
       DescontarReady, Responder, HiloONadie
<1>2. ready' \in [Pids -> Seq(Hilo)]
  BY SUSEAssumption, Primero DEF TypeOK, Despachar, Solicita, EnServicio,
       DescontarReady, Responder, Hilo, HiloONadie
<1>3. enReady' \in [Pids -> Int]
  BY DEF TypeOK, Despachar, DescontarReady
<1>4. transicion' \in [Hilo -> Estados]
  BY SUSEAssumption, Primero DEF TypeOK, Despachar, Solicita, EnServicio,
       DescontarReady, Responder, Estados, Hilo, HiloONadie
<1>5. respuesta' \in [Pids -> Tids \cup {Ninguna}]
  BY SUSEAssumption, Primero DEF TypeOK, Despachar, Solicita, EnServicio,
       DescontarReady, Responder, Hilo, HiloONadie
<1>6. agenda' \in [Pids -> Agendas]
  BY SUSEAssumption DEF TypeOK, Despachar, Solicita, EnServicio,
       DescontarReady, Responder, Agendas
<1> QED
  BY <1>1, <1>2, <1>3, <1>4, <1>5, <1>6 DEF TypeOK, Despachar,
       ConexionEnCurso, varsPrograma, varsReady, varsNew, varsPlanif, varsSem,
       varsFin

LEMMA TipoQuedarSinHilos ==
    ASSUME NEW p \in Pids, TypeOK, QuedarSinHilos(p)
    PROVE  TypeOK'
<1>1. agenda' \in [Pids -> Agendas]
  BY SUSEAssumption DEF TypeOK, QuedarSinHilos, Solicita, EnServicio,
       Calcular, Agendas
<1> QED
  BY <1>1 DEF TypeOK, QuedarSinHilos, ConexionEnCurso, varsPrograma,
       varsReady, varsNew, varsPlanif, varsSem, varsFin

LEMMA TipoMarcar ==
    ASSUME NEW p \in Pids, TypeOK, Marcar(p)
    PROVE  TypeOK'
<1>1. CASE caida' # "no"
  BY <1>1, CaeTipado DEF Marcar, Motivos, Solicita, EnServicio, Calcular
<1>2. CASE caida' = "no"
  <2>1. estaBloqueado' \in [Pids -> BOOLEAN]
    BY <1>2, SUSEAssumption DEF TypeOK, Marcar, Solicita, EnServicio, Cae
  <2>2. agenda' \in [Pids -> Agendas]
    BY <1>2, SUSEAssumption DEF TypeOK, Marcar, Solicita, EnServicio, Cae,
         Agendas
  <2> QED
    BY <1>2, <2>1, <2>2 DEF TypeOK, Marcar, Cae, ConexionEnCurso,
         varsPrograma, varsReady, varsNew, varsPlanif, varsSem, varsFin
<1> QED
  BY <1>1, <1>2

LEMMA TipoTomarMutex ==
    ASSUME NEW p \in Pids, TypeOK, TomarMutex(p)
    PROVE  TypeOK'
<1>1. mutexLibre' \in [Pids -> BOOLEAN]
  BY SUSEAssumption DEF TypeOK, TomarMutex, Solicita, EnServicio
<1>2. agenda' \in [Pids -> Agendas]
  BY SUSEAssumption DEF TypeOK, TomarMutex, Solicita, EnServicio, Agendas
<1> QED
  BY <1>1, <1>2 DEF TypeOK, TomarMutex, ConexionEnCurso, varsPrograma,
       varsReady, varsNew, varsPlanif, varsSem, varsFin

LEMMA TipoRetomar ==
    ASSUME NEW p \in Pids, TypeOK, Retomar(p)
    PROVE  TypeOK'
<1>1. CASE Cae("listaInexistente") \/ Cae("candidatoNulo")
  BY <1>1, CaeTipado DEF Motivos
<1>2. CASE Despachar(p)
  BY <1>2, TipoDespachar
<1> QED
  BY <1>1, <1>2 DEF Retomar

LEMMA TipoRecibir ==
    ASSUME NEW p \in Pids, TypeOK, Recibir(p)
    PROVE  TypeOK'
<1>1. respuesta' \in [Pids -> Tids \cup {Ninguna}]
  BY SUSEAssumption DEF TypeOK, Recibir, Solicita, EnServicio, Hilo,
       HiloONadie
<1> QED
  BY <1>1 DEF TypeOK, Recibir, ConexionEnCurso, varsPrograma, varsReady,
       varsNew, varsPlanif, varsSem, varsFin

-----------------------------------------------------------------------------
(* The invariant.                                                          *)

LEMMA TipoInit == Init => TypeOK
<1> SUFFICES ASSUME Init PROVE TypeOK
  OBVIOUS
<1>1. conexion \in Conexiones /\ ConexionEnCurso
  BY DEF Init, EnSelect, Conexiones, Pasos, HiloONadie, ConexionEnCurso
<1>2. bloqueados \in [Pids -> [Tids -> Seq(Hilo)]]
  BY Vacia DEF Init
<1>3. /\ new \in Seq(Hilo) /\ colaAux \in Seq(Hilo)
      /\ ready \in [Pids -> Seq(Hilo)] /\ cola \in [Sems -> Seq(Hilo)]
  BY Vacia DEF Init
<1>4. enBlocked \in [Pids -> 0 .. Ancho - 1]
  BY SUSEAssumption DEF Init
<1>5. /\ semaforo \in [Sems -> Nat] /\ maximo \in Nat /\ hayNuevos \in Nat
      /\ estimacion \in [Hilo -> Estimaciones]
      /\ enNew \in [Pids -> Int] /\ enReady \in [Pids -> Int]
  BY SUSEAssumption DEF Init
<1>6. /\ exec \in [Pids -> HiloONadie] /\ enMano \in HiloONadie
      /\ transicion \in [Hilo -> Estados] /\ agenda \in [Pids -> Agendas]
      /\ caida \in Motivos
  BY DEF Init, HiloONadie, Estados, Agendas, Motivos
<1> QED
  BY <1>1, <1>2, <1>3, <1>4, <1>5, <1>6 DEF Init, TypeOK

LEMMA TipoPaso ==
    ASSUME TypeOK, [Next]_vars
    PROVE  TypeOK'
<1>1. CASE PasoConexion
  BY <1>1, TipoContarNew, TipoDespertar, TipoDesmarcar, TipoDescontar,
     TipoMetricasClose, TipoDevolverClose, TipoSoltarExec, TipoLiberar,
     TipoLimpiarReady, TipoLimpiarPrograma DEF PasoConexion
<1>2. CASE PasoPlanificador
  BY <1>2, TipoTomarNuevo, TipoAdmitir, TipoPasarNuevo DEF PasoPlanificador
<1>3. CASE MetricasTimer \/ DevolverTimer
  BY <1>3, TipoMetricasTimer, TipoDevolverTimer
<1>4. ASSUME NEW p \in Pids, PasoAgenda(p) PROVE TypeOK'
  <2>1. CASE DespacharSiguiente(p)
    BY <2>1, TipoDespachar DEF DespacharSiguiente
  <2> QED
    BY <1>4, <2>1, TipoRecalcular, TipoReplanificar, TipoCalcularCae,
       TipoDesalojar, TipoContinuar, TipoQuedarSinHilos, TipoMarcar,
       TipoTomarMutex, TipoRetomar DEF PasoAgenda
<1>5. ASSUME NEW p \in Pids, Solicitud(p) PROVE TypeOK'
  BY <1>5, TipoCrearPrograma, TipoScheduleNext, TipoDesconectar,
     TipoCrearHilo, TipoRealizarJoin, TipoRealizarClose, TipoSuseWait,
     TipoSuseSignal DEF Solicitud
<1>6. ASSUME NEW p \in Pids, Recibir(p) PROVE TypeOK'
  BY <1>6, TipoRecibir
<1>7. CASE UNCHANGED vars
  BY <1>7 DEF TypeOK, ConexionEnCurso, vars, varsPrograma, varsReady, varsNew,
     varsPlanif, varsSem, varsFin
<1> QED
  BY <1>1, <1>2, <1>3, <1>4, <1>5, <1>6, <1>7 DEF Next, PasoServidor

(* Every structure of the server holds what its type says in every state:  *)
(* no interleaving of its threads pops an empty list unseen, dereferences  *)
(* a missing hilo without dying, or takes MAXIMOPROCESAMIENTO, a semaphore *)
(* or hayNuevos below zero.                                                *)
THEOREM TipoCorrecto == Spec => []TypeOK
<1>1. TypeOK /\ [Next]_vars => TypeOK'
  BY TipoPaso
<1> QED
  BY TipoInit, <1>1, PTL DEF Spec

-----------------------------------------------------------------------------
(* Sequences of hilos.                                                     *)

LEMMA RangoAppend ==
    ASSUME NEW S, NEW l \in Seq(S), NEW x \in S
    PROVE  Range(Append(l, x)) = Range(l) \cup {x}
<1>1. /\ Len(Append(l, x)) = Len(l) + 1 /\ Append(l, x) \in Seq(S)
      /\ \A i \in 1 .. Len(l) : Append(l, x)[i] = l[i]
      /\ Append(l, x)[Len(l) + 1] = x
      /\ Len(l) \in Nat
  BY AppendProperties, LenProperties
<1>2. Range(Append(l, x)) = {Append(l, x)[i] : i \in 1 .. Len(l) + 1}
  BY <1>1, RangeEquality
<1>3. Range(l) = {l[i] : i \in 1 .. Len(l)}
  BY RangeEquality
<1> QED
  BY <1>1, <1>2, <1>3

(* The first of a list, and the others.                                    *)
LEMMA RangoTail ==
    ASSUME NEW S, NEW l \in Seq(S), l # <<>>
    PROVE  /\ Range(l) = {Head(l)} \cup Range(Tail(l))
           /\ Head(l) \in S /\ Tail(l) \in Seq(S)
<1>1. /\ Len(l) \in Nat /\ Len(l) # 0
  BY EmptySeq, LenProperties
<1>2. /\ Head(l) = l[1] /\ Head(l) \in S /\ Tail(l) \in Seq(S)
      /\ Len(Tail(l)) = Len(l) - 1
      /\ \A i \in 1 .. Len(Tail(l)) : Tail(l)[i] = l[i + 1]
  BY HeadTailProperties
<1>3. Range(Tail(l)) = {Tail(l)[i] : i \in 1 .. Len(l) - 1}
  BY ZenonT(60), <1>2, RangeEquality
<1>4. Range(l) = {l[i] : i \in 1 .. Len(l)}
  BY RangeEquality
<1>5. ASSUME NEW x \in Range(l) PROVE x \in {Head(l)} \cup Range(Tail(l))
  <2>1. PICK i \in 1 .. Len(l) : x = l[i]
    BY <1>4, <1>5
  <2>2. CASE i = 1
    BY <1>2, <2>1, <2>2
  <2>3. CASE i # 1
    <3>1. i - 1 \in 1 .. Len(l) - 1 /\ Tail(l)[i - 1] = l[i]
      BY <1>1, <1>2, <2>1, <2>3
    <3> QED
      BY <1>3, <2>1, <3>1
  <2> QED
    BY <2>2, <2>3
<1>6. ASSUME NEW x \in Range(Tail(l)) PROVE x \in Range(l)
  <2>1. PICK i \in 1 .. Len(l) - 1 : x = Tail(l)[i]
    BY <1>3, <1>6
  <2>2. i + 1 \in 1 .. Len(l) /\ x = l[i + 1]
    BY <1>1, <1>2, <2>1
  <2> QED
    BY <1>4, <2>2
<1>7. Head(l) \in Range(l)
  BY <1>1, <1>2, <1>4
<1> QED
  BY <1>2, <1>5, <1>6, <1>7

(* A hilo is its program and its tid.                                      *)
LEMMA HiloIgual ==
    \A g, h \in Hilo : g.pid = h.pid /\ g.tid = h.tid => g = h
BY DEF Hilo

LEMMA RangoVacio == Range(<<>>) = {}
BY DEF Range

LEMMA NoRepiteVacio == SinRepetidos(<<>>)
BY DEF SinRepetidos

LEMMA NoRepiteTail ==
    ASSUME NEW S, NEW l \in Seq(S), l # <<>>, SinRepetidos(l)
    PROVE  SinRepetidos(Tail(l)) /\ Head(l) \notin Range(Tail(l))
<1>1. /\ Len(l) \in Nat /\ Len(l) # 0 /\ DOMAIN l = 1 .. Len(l)
  BY EmptySeq, LenProperties
<1>2. /\ Head(l) = l[1] /\ Tail(l) \in Seq(S)
      /\ Len(Tail(l)) = Len(l) - 1
      /\ \A i \in 1 .. Len(Tail(l)) : Tail(l)[i] = l[i + 1]
  BY HeadTailProperties
<1>3. DOMAIN Tail(l) = 1 .. Len(l) - 1
  BY <1>2, LenProperties
<1>4. SinRepetidos(Tail(l))
  <2> SUFFICES ASSUME NEW i \in 1 .. Len(l) - 1, NEW j \in 1 .. Len(l) - 1,
                      Tail(l)[i] = Tail(l)[j]
               PROVE  i = j
    BY <1>3 DEF SinRepetidos
  <2>1. /\ i + 1 \in 1 .. Len(l) /\ j + 1 \in 1 .. Len(l)
        /\ l[i + 1] = l[j + 1]
    BY <1>1, <1>2
  <2>2. i + 1 = j + 1
    BY <1>1, <2>1 DEF SinRepetidos
  <2> QED
    BY <2>2
<1>5. ASSUME NEW i \in 1 .. Len(l) - 1, Tail(l)[i] = Head(l) PROVE FALSE
  <2>1. i + 1 \in 1 .. Len(l) /\ 1 \in 1 .. Len(l) /\ l[i + 1] = l[1]
    BY <1>1, <1>2, <1>5
  <2>2. i + 1 = 1
    BY <1>1, <2>1 DEF SinRepetidos
  <2> QED
    BY <2>2
<1> QED
  BY <1>2, <1>3, <1>4, <1>5 DEF Range

LEMMA NoRepiteAppend ==
    ASSUME NEW S, NEW l \in Seq(S), NEW x \in S,
           SinRepetidos(l), x \notin Range(l)
    PROVE  SinRepetidos(Append(l, x))
<1>1. /\ Len(Append(l, x)) = Len(l) + 1 /\ Append(l, x) \in Seq(S)
      /\ \A i \in 1 .. Len(l) : Append(l, x)[i] = l[i]
      /\ Append(l, x)[Len(l) + 1] = x
      /\ Len(l) \in Nat /\ DOMAIN l = 1 .. Len(l)
  BY AppendProperties, LenProperties
<1>2. DOMAIN Append(l, x) = 1 .. Len(l) + 1
  BY <1>1, LenProperties
<1> SUFFICES ASSUME NEW i \in 1 .. Len(l) + 1, NEW j \in 1 .. Len(l) + 1,
                    Append(l, x)[i] = Append(l, x)[j]
             PROVE  i = j
  BY <1>2 DEF SinRepetidos
<1>3. \A k \in 1 .. Len(l) : l[k] # x
  BY <1>1 DEF Range
<1>4. CASE i \in 1 .. Len(l) /\ j \in 1 .. Len(l)
  BY <1>1, <1>4 DEF SinRepetidos
<1>5. CASE i = Len(l) + 1
  BY <1>1, <1>3, <1>5
<1>6. CASE j = Len(l) + 1
  BY <1>1, <1>3, <1>6
<1> QED
  BY <1>1, <1>4, <1>5, <1>6

(* A concatenation repeats nothing exactly when neither part does and they *)
(* have nothing in common.                                                 *)
LEMMA NoRepiteConcat ==
    ASSUME NEW S, NEW a \in Seq(S), NEW b \in Seq(S)
    PROVE  SinRepetidos(a \o b) <=> /\ SinRepetidos(a) /\ SinRepetidos(b)
                                    /\ Range(a) \cap Range(b) = {}
<1>1. /\ a \o b \in Seq(S) /\ Len(a \o b) = Len(a) + Len(b)
      /\ \A i \in 1 .. Len(a) + Len(b) :
             (a \o b)[i] = IF i <= Len(a) THEN a[i] ELSE b[i - Len(a)]
      /\ Len(a) \in Nat /\ DOMAIN a = 1 .. Len(a)
      /\ Len(b) \in Nat /\ DOMAIN b = 1 .. Len(b)
  BY ConcatProperties, LenProperties
<1>2. DOMAIN (a \o b) = 1 .. Len(a) + Len(b)
  BY <1>1, LenProperties
<1>a. \A i \in 1 .. Len(a) :
          i \in 1 .. Len(a) + Len(b) /\ (a \o b)[i] = a[i]
  BY <1>1
<1>b. \A i \in 1 .. Len(b) :
          i + Len(a) \in 1 .. Len(a) + Len(b) /\ (a \o b)[i + Len(a)] = b[i]
  BY <1>1
<1>3. ASSUME SinRepetidos(a \o b)
      PROVE  /\ SinRepetidos(a) /\ SinRepetidos(b)
             /\ Range(a) \cap Range(b) = {}
  <2>1. SinRepetidos(a)
    BY <1>1, <1>2, <1>3, <1>a DEF SinRepetidos
  <2>2. SinRepetidos(b)
    <3> SUFFICES ASSUME NEW i \in 1 .. Len(b), NEW j \in 1 .. Len(b),
                        b[i] = b[j]
                 PROVE  i = j
      BY <1>1 DEF SinRepetidos
    <3>1. i + Len(a) = j + Len(a)
      BY <1>2, <1>3, <1>b DEF SinRepetidos
    <3> QED
      BY <1>1, <3>1
  <2>3. ASSUME NEW i \in 1 .. Len(a), NEW j \in 1 .. Len(b), a[i] = b[j]
        PROVE  FALSE
    <3>1. i = j + Len(a)
      BY <1>2, <1>3, <1>a, <1>b, <2>3 DEF SinRepetidos
    <3> QED
      BY <1>1, <3>1
  <2> QED
    BY <1>1, <2>1, <2>2, <2>3 DEF Range
<1>4. ASSUME SinRepetidos(a), SinRepetidos(b), Range(a) \cap Range(b) = {}
      PROVE  SinRepetidos(a \o b)
  <2> SUFFICES ASSUME NEW i \in 1 .. Len(a) + Len(b),
                      NEW j \in 1 .. Len(a) + Len(b),
                      (a \o b)[i] = (a \o b)[j]
               PROVE  i = j
    BY <1>2 DEF SinRepetidos
  <2>1. \A m \in 1 .. Len(a), n \in 1 .. Len(b) : a[m] # b[n]
    BY <1>1, <1>4 DEF Range
  <2>2. CASE i <= Len(a) /\ j <= Len(a)
    BY SMTT(60), <1>1, <1>4, <2>2 DEF SinRepetidos
  <2>3. CASE i > Len(a) /\ j > Len(a)
    <3>1. /\ i - Len(a) \in 1 .. Len(b) /\ j - Len(a) \in 1 .. Len(b)
          /\ b[i - Len(a)] = b[j - Len(a)]
      BY <1>1, <2>3
    <3>2. i - Len(a) = j - Len(a)
      BY <1>1, <1>4, <3>1 DEF SinRepetidos
    <3> QED
      BY <1>1, <3>2
  <2>4. CASE i <= Len(a) /\ j > Len(a)
    <3>1. j - Len(a) \in 1 .. Len(b) /\ a[i] = b[j - Len(a)]
      BY <1>1, <2>4
    <3> QED
      BY <1>1, <2>1, <2>4, <3>1
  <2>5. CASE i > Len(a) /\ j <= Len(a)
    <3>1. i - Len(a) \in 1 .. Len(b) /\ a[j] = b[i - Len(a)]
      BY <1>1, <2>5
    <3> QED
      BY <1>1, <2>1, <2>5, <3>1
  <2> QED
    BY <1>1, <2>2, <2>3, <2>4, <2>5
<1> QED
  BY <1>3, <1>4

(* Sorting with list_sort loses and repeats nobody.                        *)
LEMMA OrdenConserva ==
    ASSUME NEW l \in Seq(Hilo), NEW s \in Ordenamientos(l)
    PROVE  /\ s \in Seq(Hilo) /\ Len(s) = Len(l) /\ Range(s) = Range(l)
           /\ SinRepetidos(l) => SinRepetidos(s)
<1>1. s \in [DOMAIN l -> Range(l)]
  BY DEF Ordenamientos
<1>r. Range(s) = Range(l)
  BY DEF Ordenamientos
<1>2. s \in Seq(Hilo)
  BY OrdenTipado
<1>3. /\ Len(l) \in Nat /\ DOMAIN l = 1 .. Len(l)
      /\ Len(s) \in Nat /\ DOMAIN s = 1 .. Len(s)
  BY <1>2, LenProperties
<1>4. DOMAIN s = DOMAIN l
  BY <1>1, Zenon
<1>5. Len(s) = Len(l)
  <2>1. ASSUME NEW m \in Nat, NEW n \in Nat, 1 .. m = 1 .. n PROVE m = n
    <3>1. m # 0 => m \in 1 .. n
      BY <2>1
    <3>2. n # 0 => n \in 1 .. m
      BY <2>1
    <3> QED
      BY <3>1, <3>2
  <2>2. 1 .. Len(s) = 1 .. Len(l)
    BY <1>3, <1>4, Zenon
  <2> QED
    BY ZenonT(60), <1>3, <2>1, <2>2
<1>6. ASSUME SinRepetidos(l) PROVE SinRepetidos(s)
  <2>1. IsFiniteSet(DOMAIN l)
    BY <1>3, FS_Interval
  <2>2. l \in [DOMAIN l -> Range(l)]
    BY <1>3, LenProperties DEF Range
  <2>3. l \in Surjection(DOMAIN l, Range(l))
    BY <2>2, Zenon DEF Surjection, Range
  <2>4. l \in Injection(DOMAIN l, Range(l))
    BY <1>6, <2>2 DEF Injection, IsInjective, SinRepetidos
  <2>5. Cardinality(Range(l)) = Cardinality(DOMAIN l)
    BY <2>1, <2>3, <2>4, FS_Surjection
  <2>6. s \in Surjection(DOMAIN l, Range(l))
    BY <1>1, <1>4, <1>r DEF Surjection, Range
  <2>7. s \in Injection(DOMAIN l, Range(l))
    BY <2>1, <2>5, <2>6, FS_Surjection
  <2> QED
    BY <1>4, <2>7 DEF Injection, IsInjective, SinRepetidos
<1> QED
  BY <1>r, <1>2, <1>5, <1>6

-----------------------------------------------------------------------------
(* The queue new and the semaphore that counts it.                         *)

(* Between two rotations colaAux is empty, planificarReady has a hilo in   *)
(* hand only while it admits it, and hayNuevos counts what is left.        *)
ColasNew ==
    /\ metricas = "libre" => colaAux = <<>>
    /\ planificador = "espera" => enMano = Nadie
    /\ HayNuevosCuenta

LEMMA LenVacia == Len(<<>>) = 0
BY EmptySeq

LEMMA ColasNewInit == Init => ColasNew
BY LenVacia DEF Init, ColasNew, HayNuevosCuenta

LEMMA ColasNewIgual ==
    ASSUME ColasNew, UNCHANGED <<varsNew, varsPlanif>>
    PROVE  ColasNew'
BY DEF ColasNew, HayNuevosCuenta, varsNew, varsPlanif

LEMMA ColasNewCrear ==
    ASSUME NEW p \in Pids, NEW t \in Tids, TypeOK, ColasNew, CrearHilo(p, t)
    PROVE  ColasNew'
<1> DEFINE h == [pid |-> p, tid |-> t]
<1>1. /\ hayNuevos' = hayNuevos + 1 /\ new' = Append(new, h)
      /\ UNCHANGED <<colaAux, metricas, planificador, enMano>>
  BY DEF CrearHilo, varsPlanif
<1>2. h \in Hilo /\ new \in Seq(Hilo) /\ colaAux \in Seq(Hilo)
      /\ hayNuevos \in Nat
  BY DEF TypeOK, Hilo
<1>3. Len(new') = Len(new) + 1 /\ Len(new) \in Nat /\ Len(colaAux) \in Nat
  BY <1>1, <1>2, AppendProperties, LenProperties
<1> QED
  BY <1>1, <1>2, <1>3 DEF ColasNew, HayNuevosCuenta

LEMMA ColasNewVaciar ==
    ASSUME TypeOK, ColasNew, metricas = "libre", Vaciar, metricas' # "libre",
           UNCHANGED varsPlanif
    PROVE  ColasNew'
<1>1. new \in Seq(Hilo) /\ Len(new) \in Nat
  BY LenProperties DEF TypeOK
<1>2. /\ colaAux = <<>> /\ colaAux' = new /\ new' = <<>>
      /\ UNCHANGED <<hayNuevos, planificador, enMano>>
  BY DEF ColasNew, Vaciar, varsPlanif
<1> QED
  BY <1>1, <1>2, LenVacia DEF ColasNew, HayNuevosCuenta

LEMMA ColasNewDevolver ==
    ASSUME TypeOK, ColasNew, Devolver, UNCHANGED varsPlanif
    PROVE  ColasNew'
<1>1. /\ new \in Seq(Hilo) /\ Len(new) \in Nat
      /\ colaAux \in Seq(Hilo) /\ Len(colaAux) \in Nat
  BY LenProperties DEF TypeOK
<1>2. /\ colaAux' = <<>> /\ new' = new \o colaAux
      /\ UNCHANGED <<hayNuevos, planificador, enMano>>
  BY DEF Devolver, varsPlanif
<1>3. Len(new') = Len(new) + Len(colaAux)
  BY <1>1, <1>2, ConcatProperties
<1> QED
  BY <1>1, <1>2, <1>3, LenVacia DEF ColasNew, HayNuevosCuenta

LEMMA ColasNewTomar ==
    ASSUME TypeOK, ColasNew, TomarNuevo
    PROVE  ColasNew'
<1>1. /\ new \in Seq(Hilo) /\ Len(new) \in Nat /\ hayNuevos \in Nat
      /\ colaAux \in Seq(Hilo) /\ Len(colaAux) \in Nat
  BY LenProperties DEF TypeOK
<1>2. /\ hayNuevos' = hayNuevos - 1 /\ planificador = "espera"
      /\ planificador' = "tomado" /\ UNCHANGED <<colaAux, metricas>>
      /\ enMano = Nadie
  BY DEF TomarNuevo, ColasNew
<1>3. CASE new = <<>>
  <2>1. UNCHANGED <<new, enMano>>
    BY <1>3 DEF TomarNuevo
  <2> QED
    BY <1>1, <1>2, <2>1 DEF ColasNew, HayNuevosCuenta
<1>4. CASE new # <<>>
  <2>1. enMano' = Head(new) /\ new' = Tail(new)
    BY <1>4 DEF TomarNuevo
  <2>2. enMano' # Nadie /\ Len(new') = Len(new) - 1
    BY <1>1, <1>4, <2>1, HeadTailProperties, SUSEAssumption
  <2> QED
    BY <1>1, <1>2, <2>1, <2>2 DEF ColasNew, HayNuevosCuenta
<1> QED
  BY <1>3, <1>4

LEMMA ColasNewAdmitir ==
    ASSUME TypeOK, ColasNew, Admitir \/ PasarNuevo
    PROVE  ColasNew'
<1>1. CASE UNCHANGED <<varsNew, varsPlanif>>
  BY <1>1, ColasNewIgual
<1>2. CASE /\ planificador = "tomado" /\ enMano # Nadie
           /\ planificador' = "admitido" /\ UNCHANGED <<varsNew, enMano>>
  BY <1>2 DEF ColasNew, HayNuevosCuenta, varsNew
<1>3. CASE /\ planificador = "admitido" /\ enMano' = Nadie
           /\ planificador' = "espera" /\ UNCHANGED varsNew
  BY <1>3 DEF ColasNew, HayNuevosCuenta, varsNew
<1> QED
  BY <1>1, <1>2, <1>3 DEF Admitir, PasarNuevo, Cae

LEMMA ColasNewPaso ==
    ASSUME TypeOK, ColasNew, [Next]_vars
    PROVE  ColasNew'
<1>1. CASE PasoConexion
  <2>1. CASE MetricasClose
    <3>1. CASE Cae("programaInexistente")
      BY <3>1, ColasNewIgual DEF Cae
    <3>2. CASE Vaciar /\ metricas' = "close" /\ UNCHANGED varsPlanif
      BY <2>1, <3>2, ColasNewVaciar DEF MetricasClose
    <3> QED
      BY <2>1, <3>1, <3>2 DEF MetricasClose
  <2>2. CASE DevolverClose
    BY <2>2, ColasNewDevolver DEF DevolverClose
  <2>3. CASE ContarNew \/ Despertar \/ Desmarcar \/ Descontar
    BY <2>3, ColasNewIgual DEF ContarNew, Despertar, Desmarcar, Descontar
  <2>4. CASE SoltarExec \/ Liberar \/ LimpiarReady \/ LimpiarPrograma
    BY <2>4, ColasNewIgual
       DEF SoltarExec, Liberar, LimpiarReady, LimpiarPrograma
  <2> QED
    BY <1>1, <2>1, <2>2, <2>3, <2>4 DEF PasoConexion
<1>2. CASE PasoPlanificador
  BY <1>2, ColasNewTomar, ColasNewAdmitir DEF PasoPlanificador
<1>3. CASE MetricasTimer
  <2>1. CASE Cae("programaInexistente")
    BY <2>1, ColasNewIgual DEF Cae
  <2>2. CASE Vaciar /\ metricas' = "timer" /\ UNCHANGED varsPlanif
    BY <1>3, <2>2, ColasNewVaciar DEF MetricasTimer
  <2> QED
    BY <1>3, <2>1, <2>2 DEF MetricasTimer
<1>4. CASE DevolverTimer
  BY <1>4, ColasNewDevolver DEF DevolverTimer
<1>5. ASSUME NEW p \in Pids, PasoAgenda(p) PROVE ColasNew'
  BY <1>5, ColasNewIgual DEF PasoAgenda, Recalcular, Replanificar,
     CalcularCae, Desalojar, Continuar, DespacharSiguiente, Despachar,
     QuedarSinHilos, Marcar, TomarMutex, Retomar, Cae
<1>6. ASSUME NEW p \in Pids, Solicitud(p) PROVE ColasNew'
  <2>1. ASSUME NEW t \in Tids, CrearHilo(p, t) PROVE ColasNew'
    BY <2>1, ColasNewCrear
  <2>2. CASE CrearPrograma(p) \/ ScheduleNext(p) \/ Desconectar(p)
    BY <2>2, ColasNewIgual DEF CrearPrograma, ScheduleNext, Desconectar
  <2>3. ASSUME NEW t \in Tids, RealizarJoin(p, t) \/ RealizarClose(p, t)
        PROVE  ColasNew'
    BY <2>3, ColasNewIgual DEF RealizarJoin, RealizarClose, Cae
  <2>4. ASSUME NEW t \in Tids, NEW s \in Sems, SuseWait(p, t, s)
        PROVE  ColasNew'
    BY <2>4, ColasNewIgual DEF SuseWait, Cae
  <2>5. ASSUME NEW s \in Sems, SuseSignal(p, s) PROVE ColasNew'
    BY <2>5, ColasNewIgual DEF SuseSignal, Cae
  <2> QED
    BY <1>6, <2>1, <2>2, <2>3, <2>4, <2>5 DEF Solicitud
<1>7. ASSUME NEW p \in Pids, Recibir(p) PROVE ColasNew'
  BY <1>7, ColasNewIgual DEF Recibir
<1>8. CASE UNCHANGED vars
  BY <1>8, ColasNewIgual DEF vars
<1> QED
  BY <1>1, <1>2, <1>3, <1>4, <1>5, <1>6, <1>7, <1>8 DEF Next, PasoServidor

LEMMA ColasNewSiempre == Spec => []ColasNew
<1>1. TypeOK /\ ColasNew /\ [Next]_vars => ColasNew'
  BY ColasNewPaso
<1> QED
  BY ColasNewInit, TipoCorrecto, <1>1, PTL DEF Spec

(* hayNuevos counts the hilos that wait in new whatever the interleaving   *)
(* of the creations, of planificarReady and of the rotations that the      *)
(* metrics make of new without sem_new; the only pop that finds new empty  *)
(* is one that takes place in the middle of a rotation.                    *)
THEOREM NuevosContados == Spec => []HayNuevosCuenta
<1>1. ColasNew => HayNuevosCuenta
  BY DEF ColasNew
<1> QED
  BY ColasNewSiempre, <1>1, PTL

-----------------------------------------------------------------------------
(* The moves.                                                              *)

(* The hilo that is in exit and still in exec, if there is one.            *)
EnCierre ==
    IF conexion.paso \in {"metricas", "devolver", "soltarExec"}
    THEN conexion.hilo ELSE Nadie

Cambia(h, de, a) ==
    transicion[h] = de /\ transicion' = [transicion EXCEPT ![h] = a]

Nace(h) ==
    /\ Cambia(h, "Inexistente", "New")
    /\ socket[h.pid] = "conectado" /\ conexion = EnSelect
    /\ conexion' = [paso |-> "contarNew", pid |-> h.pid, hilo |-> h]
    /\ new' = Append(new, h)
    /\ UNCHANGED <<colaAux, enMano, ready, exec, bloqueados, cola, exit,
                   EnCierre>>

Rota ==
    /\ \/ colaAux = <<>> /\ colaAux' = new /\ new' = <<>>
       \/ colaAux' = <<>> /\ new' = new \o colaAux
    /\ UNCHANGED <<transicion, enMano, ready, exec, bloqueados, cola, exit,
                   EnCierre>>

Toma ==
    /\ new # <<>> /\ enMano = Nadie
    /\ enMano' = Head(new) /\ new' = Tail(new)
    /\ UNCHANGED <<transicion, colaAux, ready, exec, bloqueados, cola, exit,
                   EnCierre>>

(* pasarAReady of a hilo that was in the state de.                         *)
Llega(h, de) ==
    /\ h \in Hilo
    /\ listas' = listas \cup {h.pid}
    /\ \/ /\ h.pid \notin listas
          /\ exec' = [exec EXCEPT ![h.pid] = h]
          /\ Cambia(h, de, "Execute")
          /\ UNCHANGED ready
       \/ /\ h.pid \in listas
          /\ ready' = [ready EXCEPT ![h.pid] = Append(@, h)]
          /\ Cambia(h, de, "Ready")
          /\ UNCHANGED exec

Entra ==
    /\ Llega(enMano, "New") /\ enMano' = Nadie
    /\ planificador = "admitido" /\ planificador' = "espera"
    /\ UNCHANGED <<new, colaAux, bloqueados, cola, exit, EnCierre>>

Bloquea(p) ==
    /\ exec[p] \in Hilo /\ exec[p].pid = p
    /\ Cambia(exec[p], "Execute", "Blocked")
    /\ DejarExec(p)
    /\ \/ /\ \E s \in Sems : cola' = [cola EXCEPT ![s] = Append(@, exec[p])]
          /\ UNCHANGED bloqueados
       \/ /\ \E t \in Tids :
                 bloqueados' = [bloqueados EXCEPT ![p][t] = Append(@, exec[p])]
          /\ UNCHANGED cola
    /\ EnCierre = Nadie /\ EnCierre' = Nadie
    /\ UNCHANGED <<new, colaAux, enMano, ready, exit>>

Despierta(s) ==
    /\ cola[s] # <<>>
    /\ Llega(Head(cola[s]), "Blocked")
    /\ cola' = [cola EXCEPT ![s] = Tail(@)]
    /\ UNCHANGED <<new, colaAux, enMano, bloqueados, exit, EnCierre>>

Libera(p, t) ==
    /\ bloqueados[p][t] # <<>>
    /\ Cambia(Head(bloqueados[p][t]), "Blocked", "Ready")
    /\ bloqueados' = [bloqueados EXCEPT ![p][t] = Tail(@)]
    /\ ready' = [ready EXCEPT ![p] = Append(@, Head(bloqueados[p][t]))]
    /\ UNCHANGED <<new, colaAux, enMano, exec, cola, exit, EnCierre>>

Cierra(p) ==
    /\ exec[p] \in Hilo /\ exec[p].pid = p
    /\ Cambia(exec[p], "Execute", "Exit")
    /\ exit' = [exit EXCEPT ![p] = @ \cup {exec[p]}]
    /\ EnCierre = Nadie /\ EnCierre' = exec[p]
    /\ UNCHANGED <<new, colaAux, enMano, ready, exec, bloqueados, cola>>

Suelta(p) ==
    /\ EnCierre \in Hilo /\ EnCierre.pid = p /\ EnCierre' = Nadie
    /\ DejarExec(p)
    /\ UNCHANGED <<transicion, new, colaAux, enMano, ready, bloqueados, cola,
                   exit>>

LimpiaListas(p) ==
    /\ conexion.paso = "limpiarReady" /\ conexion.pid = p
    /\ ready' = [ready EXCEPT ![p] = <<>>]
    /\ exit' = [exit EXCEPT ![p] = {}]
    /\ EnCierre = Nadie /\ EnCierre' = Nadie
    /\ UNCHANGED <<transicion, new, colaAux, enMano, exec, bloqueados, cola>>

BorraListas(p) ==
    /\ conexion.paso = "limpiarPrograma" /\ conexion.pid = p
    /\ DejarExec(p)
    /\ bloqueados' = [bloqueados EXCEPT ![p] = [t \in Tids |-> <<>>]]
    /\ EnCierre = Nadie /\ EnCierre' = Nadie
    /\ UNCHANGED <<transicion, new, colaAux, enMano, ready, cola, exit>>

Ordena(p) ==
    /\ \E l \in Ordenamientos(ready[p]) : ready' = [ready EXCEPT ![p] = l]
    /\ UNCHANGED <<transicion, new, colaAux, enMano, exec, bloqueados, cola,
                   exit, EnCierre>>

Desaloja(p) ==
    /\ exec[p] \in Hilo /\ transicion[exec[p]] = "Execute" /\ exec[p].pid = p
    /\ ready[p] # <<>> /\ transicion[Head(ready[p])] = "Ready"
    /\ ready' = [ready EXCEPT ![p] = Append(Tail(@), exec[p])]
    /\ exec' = [exec EXCEPT ![p] = Head(ready[p])]
    /\ transicion' = [transicion EXCEPT ![exec[p]] = "Ready",
                                        ![Head(ready[p])] = "Execute"]
    /\ UNCHANGED <<new, colaAux, enMano, bloqueados, cola, exit, EnCierre>>

Despacha(p) ==
    /\ ready[p] # <<>>
    /\ Cambia(Head(ready[p]), "Ready", "Execute")
    /\ exec' = [exec EXCEPT ![p] = Head(ready[p])]
    /\ ready' = [ready EXCEPT ![p] = Tail(@)]
    /\ UNCHANGED <<new, colaAux, enMano, bloqueados, cola, exit, EnCierre>>

Quieto == UNCHANGED <<transicion, new, colaAux, enMano, ready, exec,
                      bloqueados, cola, exit, EnCierre>>

Mueve ==
    \/ Quieto \/ Rota \/ Toma \/ Entra
    \/ \E h \in Hilo : Nace(h)
    \/ \E s \in Sems : Despierta(s)
    \/ \E p \in Pids :
        \/ Bloquea(p) \/ Cierra(p) \/ Suelta(p)
        \/ LimpiaListas(p) \/ BorraListas(p)
        \/ Ordena(p) \/ Desaloja(p) \/ Despacha(p)
        \/ \E t \in Tids : Libera(p, t)

-----------------------------------------------------------------------------
(* The invariant: each structure holds hilos of its program and of its     *)
(* state, and none twice.  As a hilo has one state, structures of          *)
(* different states have no hilo in common.                                *)

LugarNew ==
    /\ \A h \in EsperaAdmision : transicion[h] = "New"
    /\ SinRepetidos(new) /\ SinRepetidos(colaAux)
    /\ Range(new) \cap Range(colaAux) = {}
    /\ enMano \notin Range(new) \cup Range(colaAux)

LugarReady ==
    \A p \in Pids :
        /\ \A h \in Range(ready[p]) : h.pid = p /\ transicion[h] = "Ready"
        /\ SinRepetidos(ready[p])

LugarExec ==
    \A p \in Pids : exec[p] # Nadie =>
        /\ exec[p].pid = p
        /\ \/ transicion[exec[p]] = "Execute"
           \/ transicion[exec[p]] = "Exit" /\ EnCierre = exec[p]

(* The hilos that wait for another to end, ...                             *)
LugarJoin ==
    \A p \in Pids, t \in Tids :
        /\ \A h \in Range(bloqueados[p][t]) :
               /\ h.pid = p /\ transicion[h] = "Blocked"
               /\ \A u \in Tids \ {t} : h \notin Range(bloqueados[p][u])
        /\ SinRepetidos(bloqueados[p][t])

(* ... and those that wait for a semaphore, who do not wait for anything   *)
(* else.                                                                   *)
LugarCola ==
    \A s \in Sems :
        /\ \A h \in Range(cola[s]) :
               /\ transicion[h] = "Blocked"
               /\ \A r \in Sems \ {s} : h \notin Range(cola[r])
               /\ \A p \in Pids, t \in Tids : h \notin Range(bloqueados[p][t])
        /\ SinRepetidos(cola[s])

LugarExit == \A p \in Pids : \A h \in exit[p] : h.pid = p /\ transicion[h] = "Exit"

(* While a close is under way nobody schedules the program.                *)
CierreQuieto ==
    EnCierre # Nadie =>
        /\ conexion.pid = EnCierre.pid
        /\ agenda[EnCierre.pid] = "no"
        /\ transicion[EnCierre] = "Exit"

Lugares ==
    /\ LugarNew /\ LugarReady /\ LugarExec /\ LugarJoin /\ LugarCola
    /\ LugarExit /\ CierreQuieto

(* What the invariant says of one hilo of a structure.                     *)
LEMMA EnListaReady ==
    ASSUME TypeOK, LugarReady, NEW p \in Pids, NEW h \in Range(ready[p])
    PROVE  h \in Hilo /\ h.pid = p /\ transicion[h] = "Ready"
<1>1. ready[p] \in Seq(Hilo)
  BY DEF TypeOK
<1> QED
  BY <1>1, RangoTipado DEF LugarReady

LEMMA EnListaJoin ==
    ASSUME TypeOK, LugarJoin, NEW p \in Pids, NEW t \in Tids,
           NEW h \in Range(bloqueados[p][t])
    PROVE  /\ h \in Hilo /\ h.pid = p /\ transicion[h] = "Blocked"
           /\ \A u \in Tids \ {t} : h \notin Range(bloqueados[p][u])
<1>1. bloqueados[p][t] \in Seq(Hilo)
  BY DEF TypeOK
<1>2. h \in Hilo
  BY <1>1, RangoTipado
<1> QED
  BY <1>2 DEF LugarJoin

LEMMA EnListaCola ==
    ASSUME TypeOK, LugarCola, NEW s \in Sems, NEW h \in Range(cola[s])
    PROVE  /\ h \in Hilo /\ transicion[h] = "Blocked"
           /\ \A r \in Sems \ {s} : h \notin Range(cola[r])
           /\ \A p \in Pids, t \in Tids : h \notin Range(bloqueados[p][t])
<1>1. cola[s] \in Seq(Hilo)
  BY DEF TypeOK
<1>2. h \in Hilo
  BY <1>1, RangoTipado
<1> QED
  BY <1>2 DEF LugarCola

-----------------------------------------------------------------------------
(* Every step of the server is one of the moves.                           *)

LEMMA EnCierreTipo == ASSUME TypeOK PROVE EnCierre \in HiloONadie
BY DEF EnCierre, TypeOK, ConexionEnCurso, HiloONadie

LEMMA EnSelectLibre == conexion = EnSelect => EnCierre = Nadie
BY DEF EnCierre, EnSelect

(* A process that dies, and the steps that only touch other data.          *)
LEMMA QuietoCae == ASSUME NEW m, Cae(m) PROVE Quieto
BY DEF Cae, Quieto, EnCierre, varsPrograma, varsReady, varsFin, varsNew,
   varsPlanif, varsSem

LEMMA MueveCrear ==
    ASSUME NEW p \in Pids, NEW t \in Tids, CrearHilo(p, t)
    PROVE  \E h \in Hilo : Nace(h)
<1> DEFINE h == [pid |-> p, tid |-> t]
<1>1. /\ transicion[h] = "Inexistente" /\ conexion = EnSelect
      /\ socket[h.pid] = "conectado"
      /\ transicion' = [transicion EXCEPT ![h] = "New"]
      /\ new' = Append(new, h)
      /\ conexion' = [paso |-> "contarNew", pid |-> h.pid, hilo |-> h]
      /\ UNCHANGED <<colaAux, enMano, ready, exec, bloqueados, cola, exit>>
  BY DEF CrearHilo, Solicita, EnServicio, varsPrograma, varsReady, varsFin,
         varsPlanif, varsSem
<1>2. EnCierre = Nadie /\ EnCierre' = Nadie
  BY <1>1, EnSelectLibre DEF EnCierre
<1>3. Nace(h) /\ h \in Hilo
  BY <1>1, <1>2 DEF Nace, Cambia, Hilo
<1> QED
  BY <1>3

(* The hilo in exec executes, when no close is under way.                  *)
LEMMA ExecEjecuta ==
    ASSUME NEW p \in Pids, TypeOK, Lugares, exec[p] # Nadie,
           EnCierre # exec[p]
    PROVE  exec[p] \in Hilo /\ exec[p].pid = p /\ transicion[exec[p]] = "Execute"
BY DEF TypeOK, HiloONadie, Lugares, LugarExec

LEMMA MueveWait ==
    ASSUME NEW p \in Pids, NEW t \in Tids, NEW s \in Sems,
           TypeOK, Lugares, SuseWait(p, t, s)
    PROVE  Quieto \/ Bloquea(p)
<1>1. conexion = EnSelect /\ EnCierre = Nadie
  BY EnSelectLibre DEF SuseWait, Solicita, EnServicio
<1>2. CASE Cae("waitSinExec") \/ Cae("noPidioElWait")
  BY <1>2, QuietoCae
<1>3. CASE UNCHANGED <<varsPrograma, varsReady, varsFin, transicion, varsNew,
                       varsPlanif, cola, conexion>>
  BY <1>3 DEF Quieto, EnCierre, varsPrograma, varsReady, varsFin, varsNew,
              varsPlanif
<1>4. CASE /\ exec[p] # Nadie
           /\ cola' = [cola EXCEPT ![s] = Append(@, exec[p])]
           /\ transicion' = [transicion EXCEPT ![exec[p]] = "Blocked"]
           /\ DejarExec(p)
           /\ UNCHANGED <<bloqueados, varsReady, varsFin, varsNew,
                          varsPlanif, conexion>>
  <2>1. exec[p] \in Hilo /\ exec[p].pid = p /\ transicion[exec[p]] = "Execute"
    BY <1>1, <1>4, ExecEjecuta
  <2>2. EnCierre' = Nadie
    BY <1>1, <1>4 DEF EnCierre
  <2> QED
    BY <1>1, <1>4, <2>1, <2>2 DEF Bloquea, Cambia, varsReady, varsFin,
       varsNew, varsPlanif
<1> QED
  BY <1>2, <1>3, <1>4 DEF SuseWait

LEMMA MueveJoin ==
    ASSUME NEW p \in Pids, NEW t \in Tids, TypeOK, Lugares, RealizarJoin(p, t)
    PROVE  Bloquea(p)
<1>1. conexion = EnSelect /\ EnCierre = Nadie /\ conexion' = conexion
  BY EnSelectLibre DEF RealizarJoin, Solicita, EnServicio
<1>2. /\ exec[p] # Nadie
      /\ bloqueados' = [bloqueados EXCEPT ![p][t] = Append(@, exec[p])]
      /\ transicion' = [transicion EXCEPT ![exec[p]] = "Blocked"]
      /\ DejarExec(p)
      /\ UNCHANGED <<cola, varsReady, varsFin, varsNew, varsPlanif>>
  BY DEF RealizarJoin, varsSem
<1>3. exec[p] \in Hilo /\ exec[p].pid = p /\ transicion[exec[p]] = "Execute"
  BY <1>1, <1>2, ExecEjecuta
<1>4. EnCierre' = Nadie
  BY <1>1 DEF EnCierre
<1> QED
  BY <1>1, <1>2, <1>3, <1>4 DEF Bloquea, Cambia, varsReady, varsFin,
     varsNew, varsPlanif

LEMMA MueveClose ==
    ASSUME NEW p \in Pids, NEW t \in Tids, TypeOK, Lugares, RealizarClose(p, t)
    PROVE  Quieto \/ Cierra(p)
<1>1. conexion = EnSelect /\ EnCierre = Nadie
  BY EnSelectLibre DEF RealizarClose, Solicita, EnServicio
<1>2. CASE Cae("closeSinExec")
  BY <1>2, QuietoCae
<1>3. CASE /\ exec[p] # Nadie
           /\ exit' = [exit EXCEPT ![p] = @ \cup {exec[p]}]
           /\ transicion' = [transicion EXCEPT ![exec[p]] = "Exit"]
           /\ conexion' = [paso |-> "metricas", pid |-> p, hilo |-> exec[p]]
           /\ UNCHANGED <<varsPrograma, varsReady, varsNew, varsPlanif, varsSem>>
  <2>1. exec[p] \in Hilo /\ exec[p].pid = p /\ transicion[exec[p]] = "Execute"
    BY <1>1, <1>3, ExecEjecuta
  <2>2. EnCierre' = exec[p]
    BY <1>3 DEF EnCierre
  <2> QED
    BY <1>1, <1>3, <2>1, <2>2 DEF Cierra, Cambia, varsPrograma, varsReady,
       varsNew, varsPlanif, varsSem
<1> QED
  BY <1>2, <1>3 DEF RealizarClose

(* The hilo at the head of a queue of a semaphore is blocked.              *)
LEMMA CabezaBloqueada ==
    ASSUME NEW s \in Sems, TypeOK, Lugares, cola[s] # <<>>
    PROVE  Head(cola[s]) \in Hilo /\ transicion[Head(cola[s])] = "Blocked"
<1>1. cola[s] \in Seq(Hilo)
  BY DEF TypeOK
<1> QED
  BY <1>1, RangoTail DEF Lugares, LugarCola

(* pasarAReady leaves the hilo in exec or at the end of ready.             *)
LEMMA PasarLlega ==
    ASSUME NEW h \in Hilo, transicion[h] = "Blocked", PasarAReady(h)
    PROVE  Llega(h, "Blocked")
<1>1. CASE h.pid \notin listas
  <2>1. /\ listas' = listas \cup {h.pid}
        /\ exec' = [exec EXCEPT ![h.pid] = h]
        /\ transicion' = [transicion EXCEPT ![h] = "Execute"]
        /\ ready' = ready
    BY <1>1, ZenonT(60) DEF PasarAReady
  <2> QED
    BY <1>1, <2>1, ZenonT(60) DEF Llega, Cambia
<1>2. CASE h.pid \in listas
  <2>1. /\ listas' = listas /\ exec' = exec
        /\ ready' = [ready EXCEPT ![h.pid] = Append(@, h)]
        /\ transicion' = [transicion EXCEPT ![h] = "Ready"]
    BY <1>2, ZenonT(60) DEF PasarAReady
  <2>2. listas' = listas \cup {h.pid}
    BY <1>2, <2>1
  <2> QED
    BY <1>2, <2>1, <2>2, ZenonT(60) DEF Llega, Cambia
<1> QED
  BY <1>1, <1>2

LEMMA MueveSignal ==
    ASSUME NEW p \in Pids, NEW s \in Sems, TypeOK, Lugares, SuseSignal(p, s)
    PROVE  Quieto \/ Despierta(s)
<1>1. conexion = EnSelect /\ EnCierre = Nadie
  BY EnSelectLibre DEF SuseSignal, Solicita, EnServicio
<1>2. CASE Cae("programaInexistente")
  BY <1>2, QuietoCae
<1>3. CASE UNCHANGED <<varsPrograma, varsReady, varsFin, transicion, varsNew,
                       varsPlanif, cola, conexion>>
  BY <1>3 DEF Quieto, EnCierre, varsPrograma, varsReady, varsFin, varsNew,
              varsPlanif
<1>4. CASE /\ cola[s] # <<>>
           /\ PasarAReady(Head(cola[s]))
           /\ cola' = [cola EXCEPT ![s] = Tail(@)]
           /\ conexion' = [paso |-> "despertar", pid |-> p,
                           hilo |-> Head(cola[s])]
           /\ UNCHANGED <<bloqueados, varsFin, varsNew, varsPlanif>>
  <2>1. Head(cola[s]) \in Hilo /\ transicion[Head(cola[s])] = "Blocked"
    BY SMTT(60), <1>4, CabezaBloqueada
  <2>2. PasarAReady(Head(cola[s]))
    BY <1>4, Zenon
  <2>4. Llega(Head(cola[s]), "Blocked")
    BY <2>1, <2>2, PasarLlega, Zenon
  <2>3. EnCierre' = Nadie
    BY <1>4 DEF EnCierre
  <2> QED
    BY <1>1, <1>4, <2>3, <2>4 DEF Despierta, varsFin, varsNew, varsPlanif
<1> QED
  BY <1>2, <1>3, <1>4 DEF SuseSignal

(* Nobody joins two hilos: one that leaves a list is in no other.          *)
LEMMA SoloUnoEspera ==
    ASSUME NEW p \in Pids, NEW t \in Tids, TypeOK, LugarJoin,
           bloqueados[p][t] # <<>>, QuitarPrimero(p, t),
           NEW h, h = Head(bloqueados[p][t])
    PROVE  ~BloqueadoPorAlguno(bloqueados', h)
<1>1. bloqueados[p] \in [Tids -> Seq(Hilo)] /\ bloqueados[p][t] \in Seq(Hilo)
  BY DEF TypeOK
<1>2. h \in Range(bloqueados[p][t])
  BY <1>1, RangoTail
<1>3. /\ h \in Hilo /\ h.pid = p
      /\ \A u \in Tids \ {t} : h \notin Range(bloqueados[p][u])
  BY <1>2, EnListaJoin
<1>4. /\ bloqueados'[p][t] = Tail(bloqueados[p][t])
      /\ \A u \in Tids \ {t} : bloqueados'[p][u] = bloqueados[p][u]
  BY <1>1 DEF QuitarPrimero, TypeOK
<1>5. h \notin Range(bloqueados'[p][t])
  <2>1. SinRepetidos(bloqueados[p][t])
    BY DEF LugarJoin
  <2> QED
    BY <1>1, <1>4, <2>1, NoRepiteTail
<1>6. \A u \in Tids : h \notin Range(bloqueados'[p][u])
  BY <1>3, <1>4, <1>5
<1>7. ASSUME NEW u \in Tids, NEW g \in Range(bloqueados'[p][u]) PROVE
      g \in Hilo /\ g.pid = p
  <2>1. g \in Range(bloqueados[p][u])
    <3>1. CASE u = t
      BY <1>1, <1>4, <1>7, <3>1, RangoTail
    <3>2. CASE u # t
      BY <1>4, <1>7, <3>2
    <3> QED
      BY <3>1, <3>2
  <2> QED
    BY <2>1, EnListaJoin
<1> SUFFICES ASSUME NEW u \in Tids, NEW g \in Range(bloqueados'[h.pid][u]),
                    g.tid = h.tid
             PROVE  FALSE
  BY DEF BloqueadoPorAlguno
<1>8. g \in Range(bloqueados'[p][u])
  BY <1>3
<1>9. g \in Hilo /\ g.pid = p
  BY <1>7, <1>8
<1>10. g = h
  BY <1>3, <1>9, HiloIgual, Zenon
<1> QED
  BY <1>6, <1>8, <1>10, Zenon

(* So the first in the list goes to ready, in its program.                 *)
LEMMA MueveLibera ==
    ASSUME NEW p \in Pids, NEW t \in Tids, TypeOK, Lugares, Liberar,
           p = conexion.pid, t = conexion.hilo.tid, bloqueados[p][t] # <<>>
    PROVE  Libera(p, t)
<1>1. bloqueados[p][t] \in Seq(Hilo) /\ Esperan = bloqueados[p][t]
  BY SMTT(60) DEF TypeOK, Esperan
<1>2. QuitarPrimero(p, t) /\ conexion' = conexion
  BY ZenonT(60), <1>1 DEF Liberar
<1>3. ~BloqueadoPorAlguno(bloqueados', Head(bloqueados[p][t]))
  BY <1>2, SoloUnoEspera DEF Lugares
<1>4. /\ Head(bloqueados[p][t]).pid = p
      /\ transicion[Head(bloqueados[p][t])] = "Blocked"
  <2>1. Head(bloqueados[p][t]) \in Range(bloqueados[p][t])
    BY SMTT(60), <1>1, RangoTail
  <2> QED
    BY <2>1, EnListaJoin DEF Lugares
<1>5. /\ ready' = [ready EXCEPT ![p] = Append(@, Head(bloqueados[p][t]))]
      /\ transicion' = [transicion EXCEPT ![Head(bloqueados[p][t])] = "Ready"]
  BY ZenonT(60), <1>1, <1>3, <1>4 DEF Liberar
<1>6. UNCHANGED <<new, colaAux, enMano, exec, cola, exit, EnCierre>>
  <2>1. UNCHANGED <<exec, varsFin, varsNew, varsPlanif, varsSem>>
    BY ZenonT(60) DEF Liberar
  <2> QED
    BY <1>2, <2>1, SMTT(60) DEF EnCierre, varsFin, varsNew, varsPlanif, varsSem
<1> QED
  BY <1>2, <1>4, <1>5, <1>6 DEF Libera, Cambia, QuitarPrimero

LEMMA MueveLiberar ==
    ASSUME TypeOK, Lugares, Liberar
    PROVE  Quieto \/ \E p \in Pids, t \in Tids : Libera(p, t)
<1>1. /\ conexion.pid \in Pids /\ conexion.hilo.tid \in Tids
      /\ conexion.paso = "liberar"
  BY DEF Liberar, TypeOK, ConexionEnCurso, Hilo
<1>2. CASE bloqueados[conexion.pid][conexion.hilo.tid] = <<>>
  <2>1. conexion' = EnSelect /\ UNCHANGED <<bloqueados, ready, transicion>>
    BY <1>2 DEF Liberar, Esperan
  <2>2. EnCierre = Nadie /\ EnCierre' = Nadie
    BY <1>1, <2>1 DEF EnCierre, EnSelect
  <2> QED
    BY <2>1, <2>2 DEF Liberar, Quieto, varsFin, varsNew, varsPlanif, varsSem
<1>3. CASE bloqueados[conexion.pid][conexion.hilo.tid] # <<>>
  BY <1>1, <1>3, MueveLibera
<1> QED
  BY <1>2, <1>3

LEMMA MueveRota ==
    ASSUME TypeOK, ColasNew,
           MetricasClose \/ DevolverClose \/ MetricasTimer \/ DevolverTimer
    PROVE  Quieto \/ Rota
<1>1. conexion \in Conexiones
  BY DEF TypeOK
<1>2. CASE Cae("programaInexistente")
  BY <1>2, QuietoCae
<1>3. CASE /\ MetricasClose \/ MetricasTimer
           /\ Vaciar /\ metricas = "libre"
           /\ UNCHANGED <<varsPrograma, varsReady, varsFin, transicion,
                          varsPlanif, varsSem>>
           /\ \/ /\ conexion' = [conexion EXCEPT !.paso = "devolver"]
                 /\ conexion.paso = "metricas"
              \/ conexion' = conexion
  <2>1. EnCierre' = EnCierre
    BY <1>1, <1>3 DEF EnCierre, Conexiones
  <2> QED
    BY <1>3, <2>1 DEF Rota, ColasNew, Vaciar, varsPrograma, varsReady,
       varsFin, varsPlanif, varsSem
<1>4. CASE DevolverClose
  <2>1. EnCierre' = EnCierre
    BY <1>1, <1>4 DEF DevolverClose, EnCierre, Conexiones
  <2> QED
    BY <1>4, <2>1 DEF DevolverClose, Rota, Devolver, varsPrograma, varsReady,
       varsFin, varsPlanif, varsSem
<1>5. CASE DevolverTimer
  BY <1>5 DEF DevolverTimer, Rota, Devolver, EnCierre, varsPrograma,
     varsReady, varsFin, varsPlanif, varsSem
<1> QED
  BY <1>2, <1>3, <1>4, <1>5 DEF MetricasClose, MetricasTimer

LEMMA MueveSoltar ==
    ASSUME TypeOK, Lugares, SoltarExec
    PROVE  \E p \in Pids : Suelta(p)
<1>1. /\ conexion.paso = "soltarExec" /\ conexion.hilo \in Hilo
      /\ conexion.pid \in Pids /\ conexion \in Conexiones
      /\ DejarExec(conexion.pid)
      /\ conexion' = [conexion EXCEPT !.paso = "liberar"]
      /\ UNCHANGED <<transicion, new, colaAux, enMano, ready, bloqueados,
                     cola, exit>>
  BY DEF SoltarExec, TypeOK, ConexionEnCurso, varsReady, varsFin, varsNew,
         varsPlanif, varsSem
<1>2. EnCierre = conexion.hilo /\ EnCierre # Nadie
  BY <1>1, SUSEAssumption DEF EnCierre
<1>3. EnCierre' = Nadie
  BY <1>1 DEF EnCierre, Conexiones
<1>4. EnCierre.pid = conexion.pid
  BY <1>2 DEF Lugares, CierreQuieto
<1> QED
  BY <1>1, <1>2, <1>3, <1>4 DEF Suelta

LEMMA MueveLimpiar ==
    ASSUME TypeOK, LimpiarReady \/ LimpiarPrograma
    PROVE  \E p \in Pids : LimpiaListas(p) \/ BorraListas(p)
<1>1. conexion.pid \in Pids /\ conexion \in Conexiones /\ EnCierre = Nadie
  BY DEF LimpiarReady, LimpiarPrograma, TypeOK, ConexionEnCurso, EnCierre
<1>2. CASE LimpiarReady
  <2>1. EnCierre' = Nadie
    BY <1>1, <1>2 DEF LimpiarReady, EnCierre, Conexiones
  <2>2. LimpiaListas(conexion.pid)
    BY <1>1, <1>2, <2>1 DEF LimpiarReady, LimpiaListas, varsPrograma, varsNew,
       varsPlanif, varsSem
  <2> QED
    BY <1>1, <2>2
<1>3. CASE LimpiarPrograma
  <2>1. EnCierre' = Nadie
    BY <1>3 DEF LimpiarPrograma, EnCierre, EnSelect
  <2>2. BorraListas(conexion.pid)
    BY <1>1, <1>3, <2>1 DEF LimpiarPrograma, BorraListas, varsReady, varsNew,
       varsPlanif, varsSem
  <2> QED
    BY <1>1, <2>2
<1> QED
  BY <1>2, <1>3

LEMMA MuevePlanificador ==
    ASSUME TypeOK, ColasNew, Lugares, PasoPlanificador
    PROVE  Quieto \/ Toma \/ Entra
<1>1. CASE TomarNuevo
  <2>1. CASE new = <<>>
    BY <1>1, <2>1 DEF TomarNuevo, Quieto, EnCierre, varsPrograma, varsReady,
       varsFin, varsSem
  <2>2. CASE new # <<>>
    BY <1>1, <2>2 DEF TomarNuevo, ColasNew, Toma, EnCierre, varsPrograma,
       varsReady, varsFin, varsSem
  <2> QED
    BY <2>1, <2>2
<1>2. CASE Admitir
  <2>1. ASSUME NEW m, Cae(m) PROVE Quieto
    BY <2>1, QuietoCae
  <2>2. CASE UNCHANGED <<exec, bloqueados, varsReady, varsFin, transicion,
                         varsNew, enMano, varsSem, conexion>>
    BY <2>2 DEF Quieto, EnCierre, varsReady, varsFin, varsNew, varsSem
  <2> QED
    BY <1>2, <2>1, <2>2 DEF Admitir
<1>3. CASE PasarNuevo
  <2>1. CASE Cae("programaInexistente")
    BY <2>1, QuietoCae
  <2>2. CASE /\ planificador = "admitido" /\ PasarAReady(enMano)
             /\ enMano' = Nadie /\ planificador' = "espera"
             /\ UNCHANGED <<bloqueados, varsFin, varsNew, varsSem, conexion>>
    <3>1. enMano \in Hilo /\ transicion[enMano] = "New"
      BY <2>2, SUSEAssumption DEF TypeOK, Lugares, LugarNew, EsperaAdmision
    <3>2. Llega(enMano, "New")
      BY <2>2, <3>1 DEF PasarAReady, Llega, Cambia
    <3> QED
      BY <2>2, <3>2 DEF Entra, EnCierre, varsFin, varsNew, varsSem
  <2> QED
    BY <1>3, <2>1, <2>2 DEF PasarNuevo
<1> QED
  BY <1>1, <1>2, <1>3 DEF PasoPlanificador

LEMMA MueveDespachar ==
    ASSUME NEW p \in Pids, TypeOK, Lugares, Despachar(p)
    PROVE  Despacha(p)
<1>1. ready[p] \in Seq(Hilo) /\ ready[p] # <<>>
  BY DEF Despachar, TypeOK
<1>2. Head(ready[p]) \in Range(ready[p])
  BY <1>1, RangoTail
<1>3. transicion[Head(ready[p])] = "Ready"
  BY <1>2, EnListaReady DEF Lugares
<1> QED
  BY <1>3 DEF Despachar, Despacha, Cambia, EnCierre, varsFin, varsNew,
     varsPlanif, varsSem

LEMMA MueveDesalojar ==
    ASSUME NEW p \in Pids, TypeOK, Lugares, Desalojar(p)
    PROVE  Desaloja(p)
<1>1. ready[p] \in Seq(Hilo) /\ ready[p] # <<>>
  BY DEF Desalojar, EsMasCorto, TypeOK
<1>2. Head(ready[p]) \in Range(ready[p])
  BY <1>1, RangoTail
<1>3. transicion[Head(ready[p])] = "Ready"
  BY <1>2, EnListaReady DEF Lugares
<1>4. exec[p] # Nadie /\ agenda[p] = "calcular"
  BY DEF Desalojar, Calcular
<1>5. EnCierre # exec[p]
  <2>1. exec[p].pid = p
    BY <1>4 DEF Lugares, LugarExec
  <2> QED
    BY <1>4, <2>1 DEF Lugares, CierreQuieto
<1>6. exec[p] \in Hilo /\ exec[p].pid = p /\ transicion[exec[p]] = "Execute"
  BY <1>4, <1>5, ExecEjecuta
<1> QED
  BY <1>1, <1>3, <1>6 DEF Desalojar, Desaloja, EnCierre, varsFin, varsNew,
     varsPlanif, varsSem

LEMMA MueveAgenda ==
    ASSUME NEW p \in Pids, TypeOK, Lugares, PasoAgenda(p)
    PROVE  Quieto \/ Ordena(p) \/ Desaloja(p) \/ Despacha(p)
<1>1. ASSUME NEW m, Cae(m) PROVE Quieto
  BY <1>1, QuietoCae
<1>2. CASE Recalcular(p) \/ Continuar(p) \/ QuedarSinHilos(p)
  BY <1>2 DEF Recalcular, Continuar, QuedarSinHilos, Quieto, EnCierre,
     varsPrograma, varsReady, varsFin, varsNew, varsPlanif, varsSem
<1>3. CASE Marcar(p) \/ TomarMutex(p)
  BY <1>1, <1>3 DEF Marcar, TomarMutex, Quieto, EnCierre, varsReady, varsFin,
     varsNew, varsPlanif, varsSem
<1>4. CASE Replanificar(p)
  BY <1>1, <1>4 DEF Replanificar, Ordena, EnCierre, varsPrograma, varsFin,
     varsNew, varsPlanif, varsSem
<1>5. CASE CalcularCae(p)
  BY <1>1, <1>5 DEF CalcularCae
<1>6. CASE Desalojar(p)
  BY <1>6, MueveDesalojar
<1>7. CASE DespacharSiguiente(p) \/ Retomar(p)
  BY <1>1, <1>7, MueveDespachar DEF DespacharSiguiente, Retomar
<1> QED
  BY <1>2, <1>3, <1>4, <1>5, <1>6, <1>7 DEF PasoAgenda

LEMMA Movimiento ==
    ASSUME TypeOK, ColasNew, Lugares, [Next]_vars
    PROVE  Mueve
<1>1. CASE PasoConexion
  <2>1. CASE ContarNew \/ Despertar \/ Desmarcar \/ Descontar
    <3>1. UNCHANGED <<transicion, new, colaAux, enMano, ready, exec,
                      bloqueados, cola, exit>>
      BY <2>1 DEF ContarNew, Despertar, Desmarcar, Descontar, varsReady,
         varsFin, varsNew, varsPlanif, varsSem
    <3>2. EnCierre = Nadie /\ EnCierre' = Nadie
      BY <2>1 DEF ContarNew, Despertar, Desmarcar, Descontar, EnCierre,
         EnSelect, TypeOK, Conexiones
    <3> QED
      BY <3>1, <3>2 DEF Mueve, Quieto
  <2>2. CASE MetricasClose \/ DevolverClose
    BY <2>2, MueveRota DEF Mueve
  <2>3. CASE SoltarExec
    BY <2>3, MueveSoltar DEF Mueve
  <2>4. CASE Liberar
    BY <2>4, MueveLiberar DEF Mueve
  <2>5. CASE LimpiarReady \/ LimpiarPrograma
    BY <2>5, MueveLimpiar DEF Mueve
  <2> QED
    BY <1>1, <2>1, <2>2, <2>3, <2>4, <2>5 DEF PasoConexion
<1>2. CASE PasoPlanificador
  BY <1>2, MuevePlanificador DEF Mueve
<1>3. CASE MetricasTimer \/ DevolverTimer
  BY <1>3, MueveRota DEF Mueve
<1>4. ASSUME NEW p \in Pids, PasoAgenda(p) PROVE Mueve
  BY <1>4, MueveAgenda DEF Mueve
<1>5. ASSUME NEW p \in Pids, Solicitud(p) PROVE Mueve
  <2>1. CASE CrearPrograma(p) \/ ScheduleNext(p)
    BY <2>1 DEF CrearPrograma, ScheduleNext, Mueve, Quieto, EnCierre,
       varsPrograma, varsReady, varsFin, varsNew, varsPlanif, varsSem
  <2>2. CASE Desconectar(p)
    <3>1. EnCierre = Nadie /\ EnCierre' = Nadie
      BY <2>2 DEF Desconectar, EnServicio, EnSelect, EnCierre
    <3> QED
      BY <2>2, <3>1 DEF Desconectar, Mueve, Quieto, varsPrograma, varsReady,
         varsFin, varsNew, varsPlanif, varsSem
  <2>3. ASSUME NEW t \in Tids,
               CrearHilo(p, t) \/ RealizarJoin(p, t) \/ RealizarClose(p, t)
        PROVE  Mueve
    BY <2>3, MueveCrear, MueveJoin, MueveClose DEF Mueve
  <2>4. ASSUME NEW t \in Tids, NEW s \in Sems, SuseWait(p, t, s) PROVE Mueve
    BY <2>4, MueveWait DEF Mueve
  <2>5. ASSUME NEW s \in Sems, SuseSignal(p, s) PROVE Mueve
    BY <2>5, MueveSignal DEF Mueve
  <2> QED
    BY <1>5, <2>1, <2>2, <2>3, <2>4, <2>5 DEF Solicitud
<1>6. ASSUME NEW p \in Pids, Recibir(p) PROVE Mueve
  BY <1>6 DEF Recibir, Mueve, Quieto, EnCierre, varsPrograma, varsReady,
     varsFin, varsNew, varsPlanif, varsSem
<1>7. CASE UNCHANGED vars
  BY <1>7 DEF vars, Mueve, Quieto, EnCierre, varsPrograma, varsReady,
     varsFin, varsNew, varsPlanif, varsSem
<1> QED
  BY <1>1, <1>2, <1>3, <1>4, <1>5, <1>6, <1>7 DEF Next, PasoServidor

-----------------------------------------------------------------------------
(* What a move does to the states.                                         *)

(* No hilo leaves the state e.                                             *)
Conserva(e) == \A h \in Hilo : transicion[h] = e => transicion'[h] = e

LEMMA CambiaConserva ==
    ASSUME TypeOK, NEW h \in Hilo, NEW de, NEW a, Cambia(h, de, a), NEW e, e # de
    PROVE  Conserva(e)
BY DEF Cambia, Conserva, TypeOK

LEMMA CambiaSolo ==
    ASSUME TypeOK, NEW h \in Hilo, NEW de, NEW a, Cambia(h, de, a)
    PROVE  /\ transicion[h] = de /\ transicion'[h] = a
           /\ \A g \in Hilo \ {h} : transicion'[g] = transicion[g]
BY DEF Cambia, TypeOK

LEMMA LlegaConserva ==
    ASSUME TypeOK, NEW h, NEW de, Llega(h, de), NEW e, e # de
    PROVE  Conserva(e)
BY CambiaConserva DEF Llega

LEMMA QuietoConserva ==
    ASSUME UNCHANGED transicion, NEW e PROVE Conserva(e)
BY DEF Conserva

LEMMA DesalojaConserva ==
    ASSUME TypeOK, NEW p \in Pids, Desaloja(p), NEW e, e \notin {"Ready", "Execute"}
    PROVE  Conserva(e)
BY DEF Desaloja, Conserva, TypeOK

(* The heads of the lists of a move are hilos.                             *)
LEMMA Cabezas ==
    ASSUME TypeOK
    PROVE  /\ new # <<>> => Head(new) \in Hilo
           /\ \A s \in Sems : cola[s] # <<>> => Head(cola[s]) \in Hilo
           /\ \A p \in Pids : ready[p] # <<>> => Head(ready[p]) \in Hilo
           /\ \A p \in Pids, t \in Tids :
                  bloqueados[p][t] # <<>> => Head(bloqueados[p][t]) \in Hilo
<1>1. new # <<>> => Head(new) \in Hilo
  BY Primero DEF TypeOK
<1>2. ASSUME NEW s \in Sems, cola[s] # <<>> PROVE Head(cola[s]) \in Hilo
  <2>1. cola[s] \in Seq(Hilo)
    BY DEF TypeOK
  <2> QED
    BY <1>2, <2>1, Primero
<1>3. ASSUME NEW p \in Pids, ready[p] # <<>> PROVE Head(ready[p]) \in Hilo
  <2>1. ready[p] \in Seq(Hilo)
    BY DEF TypeOK
  <2> QED
    BY <1>3, <2>1, Primero
<1>4. ASSUME NEW p \in Pids, NEW t \in Tids, bloqueados[p][t] # <<>>
      PROVE  Head(bloqueados[p][t]) \in Hilo
  <2>1. bloqueados[p][t] \in Seq(Hilo)
    BY DEF TypeOK
  <2> QED
    BY <1>4, <2>1, Primero
<1> QED
  BY <1>1, <1>2, <1>3, <1>4

(* Each state is left by few moves.                                        *)
LEMMA MueveConserva ==
    ASSUME TypeOK, Mueve
    PROVE  /\ Conserva("Exit")
           /\ ~Entra => Conserva("New")
           /\ (\A p \in Pids : ~Desaloja(p) /\ ~Despacha(p)) => Conserva("Ready")
           /\ (\A p \in Pids : ~Bloquea(p) /\ ~Cierra(p) /\ ~Desaloja(p))
                  => Conserva("Execute")
           /\ (\A p \in Pids, t \in Tids : ~Libera(p, t))
              /\ (\A s \in Sems : ~Despierta(s)) => Conserva("Blocked")
<1>1. CASE Quieto \/ Rota \/ Toma
  BY <1>1, QuietoConserva DEF Quieto, Rota, Toma
<1>2. CASE Entra
  BY <1>2, LlegaConserva DEF Entra
<1>3. ASSUME NEW h \in Hilo, Nace(h) PROVE \A e : e # "Inexistente" => Conserva(e)
  BY <1>3, CambiaConserva DEF Nace
<1>4. ASSUME NEW s \in Sems, Despierta(s)
      PROVE  \A e : e # "Blocked" => Conserva(e)
  BY <1>4, LlegaConserva DEF Despierta
<1>5. ASSUME NEW p \in Pids, Bloquea(p) \/ Cierra(p)
      PROVE  \A e : e # "Execute" => Conserva(e)
  BY <1>5, CambiaConserva DEF Bloquea, Cierra
<1>6. ASSUME NEW p \in Pids,
             Suelta(p) \/ LimpiaListas(p) \/ BorraListas(p) \/ Ordena(p)
      PROVE  \A e : Conserva(e)
  BY <1>6, QuietoConserva DEF Suelta, LimpiaListas, BorraListas, Ordena
<1>7. ASSUME NEW p \in Pids, Desaloja(p)
      PROVE  \A e : e \notin {"Ready", "Execute"} => Conserva(e)
  BY <1>7, DesalojaConserva
<1>8. ASSUME NEW p \in Pids, Despacha(p)
      PROVE  \A e : e # "Ready" => Conserva(e)
  <2>1. Head(ready[p]) \in Hilo
    BY <1>8, Cabezas DEF Despacha
  <2> QED
    BY <1>8, <2>1, CambiaConserva DEF Despacha
<1>9. ASSUME NEW p \in Pids, NEW t \in Tids, Libera(p, t)
      PROVE  \A e : e # "Blocked" => Conserva(e)
  <2>1. Head(bloqueados[p][t]) \in Hilo
    BY <1>9, Cabezas DEF Libera
  <2> QED
    BY <1>9, <2>1, CambiaConserva DEF Libera
<1> QED
  BY <1>1, <1>2, <1>3, <1>4, <1>5, <1>6, <1>7, <1>8, <1>9 DEF Mueve

-----------------------------------------------------------------------------
(* The hilos that wait to be admitted.                                     *)

LEMMA EsperanTipo == ASSUME TypeOK PROVE EsperaAdmision \subseteq Hilo
<1>1. new \in Seq(Hilo) /\ colaAux \in Seq(Hilo) /\ enMano \in HiloONadie
  BY DEF TypeOK
<1>2. Range(new) \subseteq Hilo /\ Range(colaAux) \subseteq Hilo
  BY <1>1, RangoTipado
<1> QED
  BY <1>1, <1>2 DEF EsperaAdmision, HiloONadie

LEMMA LugarNewIgual ==
    ASSUME TypeOK, LugarNew, UNCHANGED <<new, colaAux, enMano>>, Conserva("New")
    PROVE  LugarNew'
<1>1. EsperaAdmision' = EsperaAdmision
  BY DEF EsperaAdmision
<1>2. \A h \in EsperaAdmision : transicion'[h] = "New"
  BY EsperanTipo DEF LugarNew, Conserva
<1> QED
  BY <1>1, <1>2 DEF LugarNew

LEMMA LugarNewNace ==
    ASSUME TypeOK, LugarNew, NEW h \in Hilo, Nace(h)
    PROVE  LugarNew'
<1>1. new \in Seq(Hilo) /\ UNCHANGED <<colaAux, enMano>> /\ new' = Append(new, h)
  BY DEF TypeOK, Nace
<1>2. transicion[h] = "Inexistente" /\ transicion'[h] = "New"
      /\ \A g \in Hilo \ {h} : transicion'[g] = transicion[g]
  BY CambiaSolo DEF Nace
<1>3. Range(new') = Range(new) \cup {h}
  BY <1>1, RangoAppend
<1>4. h \notin EsperaAdmision
  BY <1>2 DEF LugarNew
<1>5. EsperaAdmision' = EsperaAdmision \cup {h}
  BY <1>1, <1>3 DEF EsperaAdmision
<1>6. \A g \in EsperaAdmision' : transicion'[g] = "New"
  BY <1>2, <1>5, EsperanTipo DEF LugarNew
<1>7. SinRepetidos(new')
  BY <1>1, <1>4, NoRepiteAppend DEF LugarNew, EsperaAdmision
<1>8. /\ Range(new') \cap Range(colaAux') = {}
      /\ enMano' \notin Range(new') \cup Range(colaAux')
  BY <1>1, <1>3, <1>4, SUSEAssumption DEF LugarNew, EsperaAdmision
<1> QED
  BY <1>1, <1>6, <1>7, <1>8 DEF LugarNew

LEMMA LugarNewRota ==
    ASSUME TypeOK, LugarNew, Rota
    PROVE  LugarNew'
<1>1. new \in Seq(Hilo) /\ colaAux \in Seq(Hilo) /\ UNCHANGED <<transicion, enMano>>
  BY DEF TypeOK, Rota
<1>2. CASE colaAux = <<>> /\ colaAux' = new /\ new' = <<>>
  <2>1. EsperaAdmision' = EsperaAdmision
    BY <1>1, <1>2 DEF EsperaAdmision
  <2> QED
    BY <1>1, <1>2, <2>1, RangoVacio DEF LugarNew
<1>3. CASE colaAux' = <<>> /\ new' = new \o colaAux
  <2>1. Range(new') = Range(new) \cup Range(colaAux) /\ Range(colaAux') = {}
    BY <1>1, <1>3, RangeConcatenation, RangoVacio
  <2>2. EsperaAdmision' = EsperaAdmision
    BY <1>1, <2>1 DEF EsperaAdmision
  <2>3. SinRepetidos(new')
    BY <1>1, <1>3, NoRepiteConcat DEF LugarNew
  <2> QED
    BY <1>1, <1>3, <2>1, <2>2, <2>3, NoRepiteVacio DEF LugarNew
<1> QED
  BY <1>2, <1>3 DEF Rota

LEMMA LugarNewToma ==
    ASSUME TypeOK, LugarNew, Toma
    PROVE  LugarNew'
<1>1. /\ new \in Seq(Hilo) /\ new # <<>> /\ enMano = Nadie
      /\ enMano' = Head(new) /\ new' = Tail(new)
      /\ UNCHANGED <<transicion, colaAux>>
  BY DEF TypeOK, Toma
<1>2. Range(new) = {enMano'} \cup Range(new') /\ enMano' \in Hilo
  BY <1>1, RangoTail
<1>3. SinRepetidos(new') /\ enMano' \notin Range(new')
  BY <1>1, NoRepiteTail DEF LugarNew
<1>4. EsperaAdmision' = EsperaAdmision
  BY <1>1, <1>2, SUSEAssumption DEF EsperaAdmision
<1> QED
  BY <1>1, <1>2, <1>3, <1>4 DEF LugarNew

LEMMA LugarNewEntra ==
    ASSUME TypeOK, LugarNew, Entra
    PROVE  LugarNew'
<1>1. enMano \in Hilo /\ enMano' = Nadie /\ UNCHANGED <<new, colaAux>>
  BY DEF Entra, Llega
<1>2. \A g \in Hilo \ {enMano} : transicion'[g] = transicion[g]
  BY CambiaSolo DEF Entra, Llega
<1>3. Nadie \notin Range(new) \cup Range(colaAux)
  BY EsperanTipo, SUSEAssumption DEF EsperaAdmision
<1>4. EsperaAdmision' = EsperaAdmision \ {enMano}
  BY <1>1 DEF EsperaAdmision, LugarNew
<1>5. \A g \in EsperaAdmision' : transicion'[g] = "New"
  BY <1>2, <1>4, EsperanTipo DEF LugarNew
<1> QED
  BY <1>1, <1>3, <1>5 DEF LugarNew

LEMMA LugarNewPaso ==
    ASSUME TypeOK, LugarNew, Mueve
    PROVE  LugarNew'
<1>1. CASE Rota \/ Toma \/ Entra
  BY <1>1, LugarNewRota, LugarNewToma, LugarNewEntra
<1>2. CASE \E h \in Hilo : Nace(h)
  BY <1>2, LugarNewNace
<1>3. CASE ~Entra /\ UNCHANGED <<new, colaAux, enMano>>
  <2>1. Conserva("New")
    BY SMTT(60), <1>3, MueveConserva
  <2> QED
    BY <1>3, <2>1, LugarNewIgual
<1>4. UNCHANGED <<new, colaAux, enMano>> \/ Rota \/ Toma \/ Entra
      \/ \E h \in Hilo : Nace(h)
  BY DEF Mueve, Quieto, Despierta, Bloquea, Cierra, Suelta, LimpiaListas,
     BorraListas, Ordena, Desaloja, Despacha, Libera
<1> QED
  BY <1>1, <1>2, <1>3, <1>4

-----------------------------------------------------------------------------
(* The lists of ready.                                                     *)

(* A hilo of the program that was not ready is appended to its list.       *)
LEMMA ListaAppend ==
    ASSUME NEW p \in Pids, NEW h \in Hilo, TypeOK, LugarReady, h.pid = p,
           transicion[h] # "Ready", transicion'[h] = "Ready", Conserva("Ready"),
           ready' = [ready EXCEPT ![p] = Append(@, h)]
    PROVE  LugarReady'
<1>1. \A q \in Pids : /\ ready[q] \in Seq(Hilo)
                      /\ ready'[q] = IF q = p THEN Append(ready[q], h) ELSE ready[q]
  BY DEF TypeOK
<1>2. h \notin Range(ready[p])
  BY EnListaReady
<1>3. /\ Range(ready'[p]) = Range(ready[p]) \cup {h}
      /\ SinRepetidos(ready'[p])
  BY <1>1, <1>2, RangoAppend, NoRepiteAppend DEF LugarReady
<1>4. ASSUME NEW q \in Pids, NEW g \in Range(ready'[q])
      PROVE  g.pid = q /\ transicion'[g] = "Ready"
  <2>1. CASE g \in Range(ready[q])
    BY <2>1, EnListaReady DEF Conserva
  <2>2. CASE g = h /\ q = p
    BY <2>2
  <2> QED
    BY <1>1, <1>3, <1>4, <2>1, <2>2
<1>5. ASSUME NEW q \in Pids PROVE SinRepetidos(ready'[q])
  BY <1>1, <1>3 DEF LugarReady
<1> QED
  BY <1>4, <1>5 DEF LugarReady

LEMMA LugarReadyIgual ==
    ASSUME TypeOK, LugarReady, Conserva("Ready"), UNCHANGED ready
    PROVE  LugarReady'
<1>1. ASSUME NEW p \in Pids, NEW h \in Range(ready[p])
      PROVE  h.pid = p /\ transicion'[h] = "Ready"
  BY <1>1, EnListaReady DEF Conserva
<1> QED
  BY <1>1 DEF LugarReady

LEMMA LugarReadyLlega ==
    ASSUME TypeOK, LugarReady, NEW h, NEW de, Llega(h, de), de # "Ready"
    PROVE  LugarReady'
<1>1. Conserva("Ready") /\ h \in Hilo /\ h.pid \in Pids
  BY LlegaConserva DEF Llega, Hilo
<1>2. CASE UNCHANGED ready
  BY <1>1, <1>2, LugarReadyIgual
<1>3. CASE /\ ready' = [ready EXCEPT ![h.pid] = Append(@, h)]
           /\ Cambia(h, de, "Ready")
  <2>1. transicion[h] # "Ready" /\ transicion'[h] = "Ready"
    BY <1>1, <1>3, CambiaSolo
  <2> QED
    BY <1>1, <1>3, <2>1, ListaAppend
<1> QED
  BY <1>2, <1>3 DEF Llega

LEMMA LugarReadyLibera ==
    ASSUME TypeOK, LugarReady, LugarJoin, NEW p \in Pids, NEW t \in Tids,
           Libera(p, t)
    PROVE  LugarReady'
<1> DEFINE h == Head(bloqueados[p][t])
<1>1. bloqueados[p][t] \in Seq(Hilo) /\ bloqueados[p][t] # <<>>
  BY DEF TypeOK, Libera
<1>2. h \in Range(bloqueados[p][t]) /\ h \in Hilo
  BY <1>1, RangoTail
<1>3. h.pid = p
  BY <1>2, EnListaJoin
<1>4. /\ transicion[h] = "Blocked" /\ transicion'[h] = "Ready"
      /\ Conserva("Ready")
  BY <1>2, CambiaSolo, CambiaConserva DEF Libera
<1>5. ready' = [ready EXCEPT ![p] = Append(@, h)]
  BY DEF Libera
<1> HIDE DEF h
<1> QED
  BY <1>2, <1>3, <1>4, <1>5, ListaAppend

LEMMA LugarReadyLimpia ==
    ASSUME TypeOK, LugarReady, NEW p \in Pids, LimpiaListas(p)
    PROVE  LugarReady'
<1>1. /\ transicion' = transicion
      /\ \A q \in Pids : ready'[q] = IF q = p THEN <<>> ELSE ready[q]
  BY DEF LimpiaListas, TypeOK
<1> QED
  BY <1>1, RangoVacio, NoRepiteVacio DEF LugarReady

LEMMA LugarReadyOrdena ==
    ASSUME TypeOK, LugarReady, NEW p \in Pids, Ordena(p)
    PROVE  LugarReady'
<1>1. PICK l \in Ordenamientos(ready[p]) : ready' = [ready EXCEPT ![p] = l]
  BY DEF Ordena
<1>2. ready[p] \in Seq(Hilo)
  BY DEF TypeOK
<1>3. Range(l) = Range(ready[p]) /\ SinRepetidos(l)
  BY <1>2, OrdenConserva DEF LugarReady
<1>4. /\ transicion' = transicion
      /\ \A q \in Pids : ready'[q] = IF q = p THEN l ELSE ready[q]
  BY <1>1 DEF Ordena, TypeOK
<1> QED
  BY <1>3, <1>4 DEF LugarReady

LEMMA LugarReadyDespacha ==
    ASSUME TypeOK, LugarReady, NEW p \in Pids, Despacha(p)
    PROVE  LugarReady'
<1> DEFINE h == Head(ready[p])
<1>1. ready[p] \in Seq(Hilo) /\ ready[p] # <<>>
  BY DEF TypeOK, Despacha
<1>2. /\ Range(ready[p]) = {h} \cup Range(Tail(ready[p])) /\ h \in Hilo
      /\ SinRepetidos(Tail(ready[p])) /\ h \notin Range(Tail(ready[p]))
  BY <1>1, RangoTail, NoRepiteTail DEF LugarReady
<1>3. \A g \in Hilo \ {h} : transicion'[g] = transicion[g]
  BY <1>2, CambiaSolo DEF Despacha
<1>4. \A q \in Pids : ready'[q] = IF q = p THEN Tail(ready[p]) ELSE ready[q]
  BY DEF Despacha, TypeOK
<1>5. h.pid = p
  BY <1>2, EnListaReady
<1> HIDE DEF h
<1>6. ASSUME NEW q \in Pids, NEW g \in Range(ready'[q])
      PROVE  g.pid = q /\ transicion'[g] = "Ready"
  <2>1. g \in Range(ready[q])
    BY <1>2, <1>4, <1>6
  <2>2. g \in Hilo /\ g.pid = q /\ transicion[g] = "Ready"
    BY <2>1, EnListaReady
  <2>3. g # h
    BY <1>2, <1>4, <1>5, <1>6, <2>2
  <2> QED
    BY <1>3, <2>2, <2>3
<1>7. \A q \in Pids : SinRepetidos(ready'[q])
  BY <1>2, <1>4 DEF LugarReady
<1> QED
  BY <1>6, <1>7 DEF LugarReady

LEMMA LugarReadyDesaloja ==
    ASSUME TypeOK, LugarReady, NEW p \in Pids, Desaloja(p)
    PROVE  LugarReady'
<1> DEFINE h == Head(ready[p])
           g == exec[p]
           l == Tail(ready[p])
<1>1. ready[p] \in Seq(Hilo) /\ ready[p] # <<>>
  BY DEF TypeOK, Desaloja
<1>2. /\ Range(ready[p]) = {h} \cup Range(l) /\ h \in Hilo /\ l \in Seq(Hilo)
      /\ SinRepetidos(l) /\ h \notin Range(l)
  BY <1>1, RangoTail, NoRepiteTail DEF LugarReady
<1>3. /\ g \in Hilo /\ g.pid = p /\ transicion[g] = "Execute"
      /\ transicion[h] = "Ready" /\ g # h
  BY DEF Desaloja
<1>4. /\ transicion' = [transicion EXCEPT ![g] = "Ready", ![h] = "Execute"]
      /\ \A q \in Pids : ready'[q] = IF q = p THEN Append(l, g) ELSE ready[q]
  BY DEF Desaloja, TypeOK
<1>5. h.pid = p
  BY <1>2, EnListaReady
<1>6. g \notin Range(ready[p])
  BY <1>3, EnListaReady
<1> HIDE DEF h, g, l
<1>7. /\ transicion'[g] = "Ready"
      /\ \A f \in Hilo \ {g, h} : transicion'[f] = transicion[f]
  BY <1>2, <1>3, <1>4 DEF TypeOK
<1>8. /\ Range(Append(l, g)) = Range(l) \cup {g}
      /\ SinRepetidos(Append(l, g))
  BY <1>2, <1>3, <1>6, RangoAppend, NoRepiteAppend
<1>9. ASSUME NEW q \in Pids, NEW f \in Range(ready'[q])
      PROVE  f.pid = q /\ transicion'[f] = "Ready"
  <2>1. CASE q = p /\ f = g
    BY <1>3, <1>7, <2>1
  <2>2. CASE q = p /\ f \in Range(l)
    <3>1. f \in Hilo /\ f.pid = p /\ transicion[f] = "Ready"
      BY <1>2, <2>2, EnListaReady
    <3>2. f # h /\ f # g
      BY <1>2, <1>6, <2>2
    <3> QED
      BY <1>7, <2>2, <3>1, <3>2
  <2>3. CASE q # p
    <3>1. f \in Range(ready[q])
      BY <1>4, <1>9, <2>3
    <3>2. f \in Hilo /\ f.pid = q /\ transicion[f] = "Ready"
      BY <3>1, EnListaReady
    <3> QED
      BY <1>3, <1>5, <1>7, <2>3, <3>2
  <2> QED
    BY <1>4, <1>8, <1>9, <2>1, <2>2, <2>3
<1>10. \A q \in Pids : SinRepetidos(ready'[q])
  BY <1>4, <1>8 DEF LugarReady
<1> QED
  BY <1>9, <1>10 DEF LugarReady

LEMMA LugarReadyPaso ==
    ASSUME TypeOK, LugarReady, LugarJoin, Mueve
    PROVE  LugarReady'
<1>1. CASE Entra
  BY <1>1, LugarReadyLlega DEF Entra
<1>2. ASSUME NEW s \in Sems, Despierta(s) PROVE LugarReady'
  BY <1>2, LugarReadyLlega DEF Despierta
<1>3. ASSUME NEW p \in Pids, LimpiaListas(p) \/ Ordena(p) \/ Desaloja(p)
                             \/ Despacha(p)
      PROVE  LugarReady'
  BY <1>3, LugarReadyLimpia, LugarReadyOrdena, LugarReadyDesaloja,
     LugarReadyDespacha
<1>4. ASSUME NEW p \in Pids, NEW t \in Tids, Libera(p, t) PROVE LugarReady'
  BY <1>4, LugarReadyLibera
<1>5. CASE /\ \A p \in Pids : ~Desaloja(p) /\ ~Despacha(p)
           /\ UNCHANGED ready
  <2>1. Conserva("Ready")
    BY <1>5, MueveConserva
  <2> QED
    BY <1>5, <2>1, LugarReadyIgual
<1>6. \/ UNCHANGED ready
      \/ Entra \/ \E s \in Sems : Despierta(s)
      \/ \E p \in Pids : \/ LimpiaListas(p) \/ Ordena(p)
                         \/ \E t \in Tids : Libera(p, t)
      \/ \E p \in Pids : Desaloja(p) \/ Despacha(p)
  BY DEF Mueve, Quieto, Rota, Toma, Nace, Bloquea, Cierra, Suelta, BorraListas
<1> QED
  BY <1>1, <1>2, <1>3, <1>4, <1>5, <1>6

-----------------------------------------------------------------------------
(* The hilos in exec.                                                      *)

LEMMA EnExec ==
    ASSUME TypeOK, LugarExec, NEW p \in Pids, exec[p] # Nadie
    PROVE  /\ exec[p] \in Hilo /\ exec[p].pid = p
           /\ transicion[exec[p]] \in {"Execute", "Exit"}
           /\ EnCierre # exec[p] => transicion[exec[p]] = "Execute"
BY DEF TypeOK, HiloONadie, LugarExec

LEMMA LugarExecIgual ==
    ASSUME TypeOK, LugarExec, UNCHANGED <<exec, EnCierre>>,
           Conserva("Execute"), Conserva("Exit")
    PROVE  LugarExec'
<1> SUFFICES ASSUME NEW p \in Pids, exec[p] # Nadie
             PROVE  /\ exec[p].pid = p
                    /\ \/ transicion'[exec[p]] = "Execute"
                       \/ transicion'[exec[p]] = "Exit" /\ EnCierre = exec[p]
  BY DEF LugarExec
<1> QED
  BY EnExec DEF Conserva

(* A hilo of p that was not in exec takes its place.                       *)
LEMMA LugarExecToma ==
    ASSUME TypeOK, LugarExec, NEW p \in Pids, NEW h \in Hilo, h.pid = p,
           exec' = [exec EXCEPT ![p] = h], transicion'[h] = "Execute",
           UNCHANGED EnCierre,
           \A q \in Pids \ {p} :
               exec[q] # Nadie => transicion'[exec[q]] = transicion[exec[q]]
    PROVE  LugarExec'
<1> SUFFICES ASSUME NEW q \in Pids, exec'[q] # Nadie
             PROVE  /\ exec'[q].pid = q
                    /\ \/ transicion'[exec'[q]] = "Execute"
                       \/ transicion'[exec'[q]] = "Exit" /\ EnCierre = exec'[q]
  BY DEF LugarExec
<1>1. exec'[q] = IF q = p THEN h ELSE exec[q]
  BY DEF TypeOK
<1>2. CASE q = p
  BY <1>1, <1>2
<1>3. CASE q # p
  BY <1>1, <1>3, EnExec
<1> QED
  BY <1>2, <1>3

LEMMA LugarExecLlega ==
    ASSUME TypeOK, LugarExec, NEW h, NEW de, Llega(h, de),
           de \notin {"Execute", "Exit"}, UNCHANGED EnCierre
    PROVE  LugarExec'
<1>1. h \in Hilo /\ h.pid \in Pids
  BY DEF Llega, Hilo
<1>2. Conserva("Execute") /\ Conserva("Exit")
  BY LlegaConserva
<1>3. CASE UNCHANGED exec
  BY <1>2, <1>3, LugarExecIgual
<1>4. CASE /\ exec' = [exec EXCEPT ![h.pid] = h]
           /\ Cambia(h, de, "Execute")
  <2>1. /\ transicion'[h] = "Execute"
        /\ \A g \in Hilo \ {h} : transicion'[g] = transicion[g]
        /\ transicion[h] = de
    BY <1>1, <1>4, CambiaSolo
  <2>2. \A q \in Pids \ {h.pid} :
            exec[q] # Nadie => transicion'[exec[q]] = transicion[exec[q]]
    BY <2>1, EnExec
  <2> QED
    BY <1>1, <1>4, <2>1, <2>2, LugarExecToma
<1> QED
  BY <1>3, <1>4 DEF Llega

(* Nobody is in exec any more, where no other hilo changed its state.      *)
LEMMA LugarExecDeja ==
    ASSUME TypeOK, LugarExec, NEW p \in Pids, DejarExec(p),
           EnCierre' = Nadie,
           \A q \in Pids \ {p} : exec[q] # Nadie =>
               transicion[exec[q]] = "Execute" /\ transicion'[exec[q]] = "Execute"
    PROVE  LugarExec'
<1>1. \A q \in Pids : exec'[q] = IF q = p THEN Nadie ELSE exec[q]
  BY DEF DejarExec, TypeOK
<1> QED
  BY <1>1 DEF LugarExec

LEMMA LugarExecBloquea ==
    ASSUME TypeOK, LugarExec, NEW p \in Pids, Bloquea(p)
    PROVE  LugarExec'
<1>1. /\ exec[p] \in Hilo /\ exec[p].pid = p /\ DejarExec(p)
      /\ EnCierre = Nadie /\ EnCierre' = Nadie
  BY DEF Bloquea
<1>2. \A g \in Hilo \ {exec[p]} : transicion'[g] = transicion[g]
  BY <1>1, CambiaSolo DEF Bloquea
<1>3. ASSUME NEW q \in Pids \ {p}, exec[q] # Nadie
      PROVE  transicion[exec[q]] = "Execute" /\ transicion'[exec[q]] = "Execute"
  BY <1>1, <1>2, <1>3, EnExec
<1> QED
  BY <1>1, <1>3, LugarExecDeja

LEMMA LugarExecCierra ==
    ASSUME TypeOK, LugarExec, NEW p \in Pids, Cierra(p)
    PROVE  LugarExec'
<1>1. /\ exec[p] \in Hilo /\ exec[p].pid = p /\ exec' = exec
      /\ EnCierre = Nadie /\ EnCierre' = exec[p]
  BY DEF Cierra
<1>2. /\ transicion'[exec[p]] = "Exit"
      /\ \A g \in Hilo \ {exec[p]} : transicion'[g] = transicion[g]
  BY <1>1, CambiaSolo DEF Cierra
<1>3. ASSUME NEW q \in Pids \ {p}, exec[q] # Nadie
      PROVE  exec[q].pid = q /\ transicion'[exec[q]] = "Execute"
  BY <1>1, <1>2, <1>3, EnExec
<1> QED
  BY <1>1, <1>2, <1>3 DEF LugarExec

LEMMA LugarExecSuelta ==
    ASSUME TypeOK, LugarExec, NEW p \in Pids, Suelta(p)
    PROVE  LugarExec'
<1>1. /\ EnCierre \in Hilo /\ EnCierre.pid = p /\ EnCierre' = Nadie
      /\ DejarExec(p) /\ transicion' = transicion
  BY DEF Suelta
<1>2. ASSUME NEW q \in Pids \ {p}, exec[q] # Nadie
      PROVE  transicion[exec[q]] = "Execute" /\ transicion'[exec[q]] = "Execute"
  BY <1>1, <1>2, EnExec
<1> QED
  BY <1>1, <1>2, LugarExecDeja

LEMMA LugarExecBorra ==
    ASSUME TypeOK, LugarExec, NEW p \in Pids, LimpiaListas(p) \/ BorraListas(p)
    PROVE  LugarExec'
<1>1. EnCierre = Nadie /\ EnCierre' = Nadie /\ transicion' = transicion
  BY DEF LimpiaListas, BorraListas
<1>2. ASSUME NEW q \in Pids, exec[q] # Nadie
      PROVE  transicion[exec[q]] = "Execute"
  BY <1>1, <1>2, EnExec
<1>3. CASE LimpiaListas(p)
  BY <1>1, <1>3, QuietoConserva, LugarExecIgual DEF LimpiaListas
<1>4. CASE BorraListas(p)
  <2>1. DejarExec(p)
    BY <1>4 DEF BorraListas
  <2> QED
    BY <1>1, <1>2, <2>1, LugarExecDeja
<1> QED
  BY <1>3, <1>4

LEMMA LugarExecAgenda ==
    ASSUME TypeOK, LugarExec, LugarReady, NEW p \in Pids,
           Desaloja(p) \/ Despacha(p)
    PROVE  LugarExec'
<1> DEFINE h == Head(ready[p])
<1>1. ready[p] \in Seq(Hilo) /\ ready[p] # <<>> /\ UNCHANGED EnCierre
  BY DEF TypeOK, Desaloja, Despacha
<1>2. h \in Range(ready[p]) /\ h \in Hilo
  BY <1>1, RangoTail
<1>3. h.pid = p /\ transicion[h] = "Ready"
  BY <1>2, EnListaReady
<1>4. exec' = [exec EXCEPT ![p] = h]
  BY DEF Desaloja, Despacha
<1> HIDE DEF h
<1>5. CASE Desaloja(p)
  <2>1. /\ exec[p] \in Hilo /\ exec[p].pid = p
        /\ transicion' = [transicion EXCEPT ![exec[p]] = "Ready",
                                            ![h] = "Execute"]
    BY <1>5 DEF Desaloja, h
  <2>2. /\ transicion'[h] = "Execute"
        /\ \A g \in Hilo \ {exec[p], h} : transicion'[g] = transicion[g]
    BY <1>2, <2>1 DEF TypeOK
  <2>3. \A q \in Pids \ {p} : exec[q] # Nadie =>
            transicion'[exec[q]] = transicion[exec[q]]
    BY ZenonT(60), <1>3, <2>1, <2>2, EnExec
  <2> QED
    BY <1>1, <1>2, <1>3, <1>4, <2>2, <2>3, LugarExecToma
<1>6. CASE Despacha(p)
  <2>1. /\ transicion'[h] = "Execute"
        /\ \A g \in Hilo \ {h} : transicion'[g] = transicion[g]
    BY <1>2, <1>6, CambiaSolo DEF Despacha, h
  <2>2. \A q \in Pids \ {p} : exec[q] # Nadie =>
            transicion'[exec[q]] = transicion[exec[q]]
    BY <1>3, <2>1, EnExec
  <2> QED
    BY <1>1, <1>2, <1>3, <1>4, <2>1, <2>2, LugarExecToma
<1> QED
  BY <1>5, <1>6

LEMMA LugarExecPaso ==
    ASSUME TypeOK, LugarExec, LugarReady, Mueve
    PROVE  LugarExec'
<1>1. CASE Entra
  BY <1>1, LugarExecLlega DEF Entra
<1>2. ASSUME NEW s \in Sems, Despierta(s) PROVE LugarExec'
  BY <1>2, LugarExecLlega DEF Despierta
<1>3. ASSUME NEW p \in Pids, Bloquea(p) \/ Cierra(p) \/ Suelta(p)
      PROVE  LugarExec'
  BY <1>3, LugarExecBloquea, LugarExecCierra, LugarExecSuelta
<1>4. ASSUME NEW p \in Pids, LimpiaListas(p) \/ BorraListas(p)
      PROVE  LugarExec'
  BY <1>4, LugarExecBorra
<1>5. ASSUME NEW p \in Pids, Desaloja(p) \/ Despacha(p) PROVE LugarExec'
  BY <1>5, LugarExecAgenda
<1>6. CASE /\ \A p \in Pids : ~Bloquea(p) /\ ~Cierra(p) /\ ~Desaloja(p)
           /\ UNCHANGED <<exec, EnCierre>>
  <2>1. Conserva("Execute") /\ Conserva("Exit")
    BY <1>6, MueveConserva
  <2> QED
    BY <1>6, <2>1, LugarExecIgual
<1>7. \/ UNCHANGED <<exec, EnCierre>>
      \/ Entra \/ \E s \in Sems : Despierta(s)
      \/ \E p \in Pids : \/ Bloquea(p) \/ Cierra(p) \/ Suelta(p)
                         \/ LimpiaListas(p) \/ BorraListas(p)
                         \/ Desaloja(p) \/ Despacha(p)
  BY DEF Mueve, Quieto, Rota, Toma, Nace, Ordena, Libera
<1> QED
  BY <1>1, <1>2, <1>3, <1>4, <1>5, <1>6, <1>7

-----------------------------------------------------------------------------
(* The hilos that wait for another to end.                                 *)

LEMMA LugarJoinIgual ==
    ASSUME LugarJoin, UNCHANGED bloqueados,
           \A p \in Pids, t \in Tids : \A h \in Range(bloqueados[p][t]) :
               transicion'[h] = "Blocked"
    PROVE  LugarJoin'
BY DEF LugarJoin

LEMMA LugarJoinBloquea ==
    ASSUME TypeOK, LugarJoin, NEW p \in Pids, Bloquea(p)
    PROVE  LugarJoin'
<1> DEFINE h == exec[p]
<1>1. /\ h \in Hilo /\ h.pid = p /\ transicion[h] = "Execute"
      /\ transicion'[h] = "Blocked" /\ Conserva("Blocked")
  BY CambiaSolo, CambiaConserva DEF Bloquea
<1>2. UNCHANGED bloqueados
      \/ \E t \in Tids :
             bloqueados' = [bloqueados EXCEPT ![p][t] = Append(@, h)]
  BY DEF Bloquea
<1> HIDE DEF h
<1>3. ASSUME NEW q \in Pids, NEW u \in Tids, NEW g \in Range(bloqueados[q][u])
      PROVE  transicion'[g] = "Blocked" /\ g # h
  BY <1>1, EnListaJoin DEF Conserva
<1>4. CASE UNCHANGED bloqueados
  BY <1>3, <1>4, LugarJoinIgual
<1>5. ASSUME NEW t \in Tids,
             bloqueados' = [bloqueados EXCEPT ![p][t] = Append(@, h)]
      PROVE  LugarJoin'
  <2>1. \A q \in Pids, u \in Tids :
            bloqueados'[q][u] = IF q = p /\ u = t
                                THEN Append(bloqueados[q][u], h)
                                ELSE bloqueados[q][u]
    BY <1>5 DEF TypeOK
  <2>2. bloqueados[p][t] \in Seq(Hilo) /\ h \notin Range(bloqueados[p][t])
    BY <1>3 DEF TypeOK
  <2>3. /\ Range(bloqueados'[p][t]) = Range(bloqueados[p][t]) \cup {h}
        /\ SinRepetidos(bloqueados'[p][t])
    BY <1>1, <2>1, <2>2, RangoAppend, NoRepiteAppend DEF LugarJoin
  <2>4. ASSUME NEW q \in Pids, NEW u \in Tids,
               NEW g \in Range(bloqueados'[q][u])
        PROVE  \/ g \in Range(bloqueados[q][u])
               \/ g = h /\ q = p /\ u = t
    BY <2>1, <2>3, <2>4
  <2>5. ASSUME NEW q \in Pids, NEW u \in Tids,
               NEW g \in Range(bloqueados'[q][u])
        PROVE  /\ g.pid = q /\ transicion'[g] = "Blocked"
               /\ \A v \in Tids \ {u} : g \notin Range(bloqueados'[q][v])
    <3>1. CASE g \in Range(bloqueados[q][u])
      <4>1. g.pid = q /\ \A v \in Tids \ {u} : g \notin Range(bloqueados[q][v])
        BY <3>1, EnListaJoin
      <4>2. transicion'[g] = "Blocked" /\ g # h
        BY <1>3, <3>1
      <4> QED
        BY <2>4, <4>1, <4>2
    <3>2. CASE g = h /\ q = p /\ u = t
      <4>1. \A v \in Tids \ {u} : g \notin Range(bloqueados[q][v])
        BY <1>3, <3>2
      <4> QED
        BY <1>1, <2>1, <3>2, <4>1
    <3> QED
      BY <2>4, <2>5, <3>1, <3>2
  <2>6. ASSUME NEW q \in Pids, NEW u \in Tids
        PROVE  SinRepetidos(bloqueados'[q][u])
    BY <2>1, <2>3 DEF LugarJoin
  <2> QED
    BY <2>5, <2>6 DEF LugarJoin
<1> QED
  BY <1>2, <1>4, <1>5

LEMMA LugarJoinLibera ==
    ASSUME TypeOK, LugarJoin, NEW p \in Pids, NEW t \in Tids, Libera(p, t)
    PROVE  LugarJoin'
<1> DEFINE h == Head(bloqueados[p][t])
           l == Tail(bloqueados[p][t])
<1>1. bloqueados[p][t] \in Seq(Hilo) /\ bloqueados[p][t] # <<>>
  BY DEF TypeOK, Libera
<1>2. /\ Range(bloqueados[p][t]) = {h} \cup Range(l) /\ h \in Hilo
      /\ SinRepetidos(l) /\ h \notin Range(l)
  BY <1>1, RangoTail, NoRepiteTail DEF LugarJoin
<1>3. \A g \in Hilo \ {h} : transicion'[g] = transicion[g]
  BY <1>2, CambiaSolo DEF Libera
<1>4. \A q \in Pids, u \in Tids :
          bloqueados'[q][u] = IF q = p /\ u = t THEN l ELSE bloqueados[q][u]
  BY DEF Libera, TypeOK
<1>5. h.pid = p /\ \A u \in Tids \ {t} : h \notin Range(bloqueados[p][u])
  BY <1>2, EnListaJoin
<1> HIDE DEF h, l
<1>6. ASSUME NEW q \in Pids, NEW u \in Tids, NEW g \in Range(bloqueados'[q][u])
      PROVE  g \in Range(bloqueados[q][u])
  BY <1>2, <1>4, <1>6
<1>7. ASSUME NEW q \in Pids, NEW u \in Tids, NEW g \in Range(bloqueados'[q][u])
      PROVE  /\ g.pid = q /\ transicion'[g] = "Blocked"
             /\ \A v \in Tids \ {u} : g \notin Range(bloqueados'[q][v])
  <2>1. g \in Range(bloqueados[q][u])
    BY <1>6, <1>7
  <2>2. /\ g \in Hilo /\ g.pid = q /\ transicion[g] = "Blocked"
        /\ \A v \in Tids \ {u} : g \notin Range(bloqueados[q][v])
    BY <2>1, EnListaJoin
  <2>3. g # h
    BY <1>2, <1>4, <1>5, <1>7, <2>1, <2>2
  <2> QED
    BY <1>3, <1>6, <2>2, <2>3
<1>8. ASSUME NEW q \in Pids, NEW u \in Tids
      PROVE  SinRepetidos(bloqueados'[q][u])
  BY <1>2, <1>4 DEF LugarJoin
<1> QED
  BY <1>7, <1>8 DEF LugarJoin

LEMMA LugarJoinBorra ==
    ASSUME TypeOK, LugarJoin, NEW p \in Pids, BorraListas(p)
    PROVE  LugarJoin'
<1>1. /\ transicion' = transicion
      /\ \A q \in Pids, t \in Tids :
             bloqueados'[q][t] = IF q = p THEN <<>> ELSE bloqueados[q][t]
  BY DEF BorraListas, TypeOK
<1> QED
  BY <1>1, RangoVacio, NoRepiteVacio DEF LugarJoin

LEMMA LugarJoinDespierta ==
    ASSUME TypeOK, LugarJoin, LugarCola, NEW s \in Sems, Despierta(s)
    PROVE  LugarJoin'
<1> DEFINE h == Head(cola[s])
<1>1. cola[s] \in Seq(Hilo) /\ cola[s] # <<>>
  BY DEF TypeOK, Despierta
<1>2. h \in Hilo /\ h \in Range(cola[s])
  BY <1>1, RangoTail
<1>3. \A p \in Pids, t \in Tids : h \notin Range(bloqueados[p][t])
  BY SMTT(60), <1>2, EnListaCola
<1>4. \A g \in Hilo \ {h} : transicion'[g] = transicion[g]
  BY <1>2, CambiaSolo DEF Despierta, Llega
<1> HIDE DEF h
<1>5. ASSUME NEW p \in Pids, NEW t \in Tids, NEW g \in Range(bloqueados[p][t])
      PROVE  transicion'[g] = "Blocked"
  BY <1>3, <1>4, EnListaJoin
<1> QED
  BY <1>5, LugarJoinIgual DEF Despierta

LEMMA LugarJoinPaso ==
    ASSUME TypeOK, LugarJoin, LugarCola, Mueve
    PROVE  LugarJoin'
<1>1. ASSUME NEW p \in Pids, Bloquea(p) \/ BorraListas(p) PROVE LugarJoin'
  BY <1>1, LugarJoinBloquea, LugarJoinBorra
<1>2. ASSUME NEW p \in Pids, NEW t \in Tids, Libera(p, t) PROVE LugarJoin'
  BY <1>2, LugarJoinLibera
<1>3. ASSUME NEW s \in Sems, Despierta(s) PROVE LugarJoin'
  BY <1>3, LugarJoinDespierta
<1>4. CASE /\ \A p \in Pids, t \in Tids : ~Libera(p, t)
           /\ \A s \in Sems : ~Despierta(s)
           /\ UNCHANGED bloqueados
  <2>1. Conserva("Blocked")
    BY <1>4, MueveConserva
  <2>2. ASSUME NEW p \in Pids, NEW t \in Tids, NEW h \in Range(bloqueados[p][t])
        PROVE  transicion'[h] = "Blocked"
    BY <2>1, EnListaJoin DEF Conserva
  <2> QED
    BY <1>4, <2>2, LugarJoinIgual
<1>5. \/ UNCHANGED bloqueados
      \/ \E p \in Pids : \/ Bloquea(p) \/ BorraListas(p)
                         \/ \E t \in Tids : Libera(p, t)
      \/ \E s \in Sems : Despierta(s)
  BY DEF Mueve, Quieto, Rota, Toma, Entra, Nace, Cierra, Suelta, LimpiaListas,
     Ordena, Desaloja, Despacha
<1> QED
  BY <1>1, <1>2, <1>3, <1>4, <1>5

-----------------------------------------------------------------------------
(* The hilos that wait for a semaphore.                                    *)

LEMMA LugarColaIgual ==
    ASSUME TypeOK, LugarCola, UNCHANGED cola,
           \A p \in Pids, t \in Tids :
               Range(bloqueados'[p][t]) \subseteq Range(bloqueados[p][t]),
           \A s \in Sems : \A h \in Range(cola[s]) : transicion'[h] = "Blocked"
    PROVE  LugarCola'
<1>1. ASSUME NEW s \in Sems, NEW h \in Range(cola[s])
      PROVE  /\ \A r \in Sems \ {s} : h \notin Range(cola[r])
             /\ \A p \in Pids, t \in Tids : h \notin Range(bloqueados'[p][t])
  BY EnListaCola
<1>2. \A s \in Sems : SinRepetidos(cola[s])
  BY DEF LugarCola
<1> QED
  BY <1>1, <1>2 DEF LugarCola

(* A hilo that executed blocks: no list had it.                            *)
LEMMA LugarColaJoin ==
    ASSUME TypeOK, LugarCola, NEW p \in Pids, NEW t \in Tids, NEW h \in Hilo,
           transicion[h] = "Execute", Conserva("Blocked"), UNCHANGED cola,
           bloqueados' = [bloqueados EXCEPT ![p][t] = Append(@, h)]
    PROVE  LugarCola'
<1>1. \A q \in Pids, u \in Tids :
          bloqueados'[q][u] = IF q = p /\ u = t THEN Append(bloqueados[q][u], h)
                              ELSE bloqueados[q][u]
  BY DEF TypeOK
<1>2. bloqueados[p][t] \in Seq(Hilo)
  BY DEF TypeOK
<1>3. Range(bloqueados'[p][t]) = Range(bloqueados[p][t]) \cup {h}
  BY <1>1, <1>2, RangoAppend
<1>4. ASSUME NEW s \in Sems, NEW g \in Range(cola[s])
      PROVE  /\ transicion'[g] = "Blocked"
             /\ \A r \in Sems \ {s} : g \notin Range(cola[r])
             /\ \A q \in Pids, u \in Tids : g \notin Range(bloqueados'[q][u])
  <2>1. /\ g \in Hilo /\ transicion[g] = "Blocked"
        /\ \A r \in Sems \ {s} : g \notin Range(cola[r])
        /\ \A q \in Pids, u \in Tids : g \notin Range(bloqueados[q][u])
    BY EnListaCola
  <2> QED
    BY <1>1, <1>3, <2>1 DEF Conserva
<1>5. \A s \in Sems : SinRepetidos(cola[s])
  BY DEF LugarCola
<1> QED
  BY <1>4, <1>5 DEF LugarCola

LEMMA LugarColaWait ==
    ASSUME TypeOK, LugarCola, LugarJoin, NEW s \in Sems, NEW h \in Hilo,
           transicion[h] = "Execute", transicion'[h] = "Blocked",
           Conserva("Blocked"), UNCHANGED bloqueados,
           cola' = [cola EXCEPT ![s] = Append(@, h)]
    PROVE  LugarCola'
<1>1. \A r \in Sems :
          cola'[r] = IF r = s THEN Append(cola[r], h) ELSE cola[r]
  BY DEF TypeOK
<1>2. cola[s] \in Seq(Hilo)
  BY DEF TypeOK
<1>3. \A r \in Sems : h \notin Range(cola[r])
  BY EnListaCola
<1>4. \A p \in Pids, t \in Tids : h \notin Range(bloqueados[p][t])
  BY EnListaJoin
<1>5. /\ Range(cola'[s]) = Range(cola[s]) \cup {h}
      /\ SinRepetidos(cola'[s])
  BY <1>1, <1>2, <1>3, RangoAppend, NoRepiteAppend DEF LugarCola
<1>6. ASSUME NEW r \in Sems, NEW g \in Range(cola'[r])
      PROVE  /\ transicion'[g] = "Blocked"
             /\ \A q \in Sems \ {r} : g \notin Range(cola'[q])
             /\ \A p \in Pids, t \in Tids : g \notin Range(bloqueados[p][t])
  <2>1. CASE g \in Range(cola[r])
    <3>1. /\ g \in Hilo /\ transicion[g] = "Blocked"
          /\ \A q \in Sems \ {r} : g \notin Range(cola[q])
          /\ \A p \in Pids, t \in Tids : g \notin Range(bloqueados[p][t])
      BY <2>1, EnListaCola
    <3>2. g # h
      BY <3>1
    <3> QED
      BY <1>1, <1>5, <3>1, <3>2 DEF Conserva
  <2>2. CASE g = h /\ r = s
    BY <1>1, <1>3, <1>4, <2>2
  <2> QED
    BY <1>1, <1>5, <1>6, <2>1, <2>2
<1>7. \A r \in Sems : SinRepetidos(cola'[r])
  BY <1>1, <1>5 DEF LugarCola
<1> QED
  BY <1>6, <1>7 DEF LugarCola

LEMMA LugarColaBloquea ==
    ASSUME TypeOK, LugarCola, LugarJoin, NEW p \in Pids, Bloquea(p)
    PROVE  LugarCola'
<1>1. /\ exec[p] \in Hilo /\ transicion[exec[p]] = "Execute"
      /\ transicion'[exec[p]] = "Blocked" /\ Conserva("Blocked")
  BY CambiaSolo, CambiaConserva DEF Bloquea
<1>2. ASSUME NEW s \in Sems, UNCHANGED bloqueados,
             cola' = [cola EXCEPT ![s] = Append(@, exec[p])]
      PROVE  LugarCola'
  BY <1>1, <1>2, LugarColaWait
<1>3. ASSUME NEW t \in Tids, UNCHANGED cola,
             bloqueados' = [bloqueados EXCEPT ![p][t] = Append(@, exec[p])]
      PROVE  LugarCola'
  BY <1>1, <1>3, LugarColaJoin
<1> QED
  BY <1>2, <1>3 DEF Bloquea

LEMMA LugarColaDespierta ==
    ASSUME TypeOK, LugarCola, NEW s \in Sems, Despierta(s)
    PROVE  LugarCola'
<1> DEFINE h == Head(cola[s])
           l == Tail(cola[s])
<1>1. cola[s] \in Seq(Hilo) /\ cola[s] # <<>>
  BY DEF TypeOK, Despierta
<1>2. /\ Range(cola[s]) = {h} \cup Range(l) /\ h \in Hilo
      /\ SinRepetidos(l) /\ h \notin Range(l)
  BY SMTT(60), <1>1, RangoTail, NoRepiteTail DEF LugarCola
<1>3. \A g \in Hilo \ {h} : transicion'[g] = transicion[g]
  BY <1>2, CambiaSolo DEF Despierta, Llega
<1>4. /\ \A r \in Sems : cola'[r] = IF r = s THEN l ELSE cola[r]
      /\ UNCHANGED bloqueados
  BY DEF Despierta, TypeOK
<1>5. \A r \in Sems \ {s} : h \notin Range(cola[r])
  BY <1>2, EnListaCola
<1> HIDE DEF h, l
<1>6. ASSUME NEW r \in Sems, NEW g \in Range(cola'[r])
      PROVE  g \in Range(cola[r]) /\ g # h
  BY <1>2, <1>4, <1>5, <1>6
<1>7. ASSUME NEW r \in Sems, NEW g \in Range(cola'[r])
      PROVE  /\ transicion'[g] = "Blocked"
             /\ \A q \in Sems \ {r} : g \notin Range(cola'[q])
             /\ \A p \in Pids, t \in Tids : g \notin Range(bloqueados[p][t])
  <2>1. g \in Range(cola[r]) /\ g # h
    BY <1>6, <1>7
  <2>2. /\ g \in Hilo /\ transicion[g] = "Blocked"
        /\ \A q \in Sems \ {r} : g \notin Range(cola[q])
        /\ \A p \in Pids, t \in Tids : g \notin Range(bloqueados[p][t])
    BY <2>1, EnListaCola
  <2> QED
    BY <1>3, <1>6, <2>1, <2>2
<1>8. \A r \in Sems : SinRepetidos(cola'[r])
  BY <1>2, <1>4 DEF LugarCola
<1> QED
  BY <1>4, <1>7, <1>8 DEF LugarCola

(* The hilo that a close frees was in no queue of a semaphore.             *)
LEMMA LugarColaLibera ==
    ASSUME TypeOK, LugarCola, NEW p \in Pids, NEW t \in Tids, Libera(p, t)
    PROVE  LugarCola'
<1> DEFINE h == Head(bloqueados[p][t])
           l == Tail(bloqueados[p][t])
<1>1. bloqueados[p][t] \in Seq(Hilo) /\ bloqueados[p][t] # <<>>
  BY DEF TypeOK, Libera
<1>2. Range(bloqueados[p][t]) = {h} \cup Range(l) /\ h \in Hilo
  BY <1>1, RangoTail
<1>3. \A g \in Hilo \ {h} : transicion'[g] = transicion[g]
  BY <1>2, CambiaSolo DEF Libera
<1>4. /\ \A q \in Pids, u \in Tids :
             bloqueados'[q][u] = IF q = p /\ u = t THEN l ELSE bloqueados[q][u]
      /\ UNCHANGED cola
  BY DEF Libera, TypeOK
<1> HIDE DEF h, l
<1>5. \A q \in Pids, u \in Tids :
          Range(bloqueados'[q][u]) \subseteq Range(bloqueados[q][u])
  BY <1>2, <1>4
<1>6. ASSUME NEW s \in Sems, NEW g \in Range(cola[s])
      PROVE  transicion'[g] = "Blocked"
  <2>1. g \in Hilo /\ transicion[g] = "Blocked" /\ g # h
    BY <1>2, EnListaCola
  <2> QED
    BY <1>3, <2>1
<1> QED
  BY <1>4, <1>5, <1>6, LugarColaIgual

LEMMA LugarColaPaso ==
    ASSUME TypeOK, LugarCola, LugarJoin, Mueve
    PROVE  LugarCola'
<1>1. ASSUME NEW p \in Pids, Bloquea(p) PROVE LugarCola'
  BY <1>1, LugarColaBloquea
<1>2. ASSUME NEW p \in Pids, NEW t \in Tids, Libera(p, t) PROVE LugarCola'
  BY <1>2, LugarColaLibera
<1>3. ASSUME NEW s \in Sems, Despierta(s) PROVE LugarCola'
  BY <1>3, LugarColaDespierta
<1>4. CASE /\ \A p \in Pids, t \in Tids : ~Libera(p, t)
           /\ \A s \in Sems : ~Despierta(s)
           /\ UNCHANGED cola
           /\ UNCHANGED bloqueados \/ \E p \in Pids : BorraListas(p)
  <2>1. Conserva("Blocked")
    BY <1>4, MueveConserva
  <2>2. ASSUME NEW s \in Sems, NEW h \in Range(cola[s])
        PROVE  transicion'[h] = "Blocked"
    BY <2>1, EnListaCola DEF Conserva
  <2>3. ASSUME NEW q \in Pids, NEW u \in Tids
        PROVE  bloqueados'[q][u] \in {bloqueados[q][u], <<>>}
    <3>1. CASE UNCHANGED bloqueados
      BY <3>1, Zenon
    <3>2. ASSUME NEW p \in Pids, BorraListas(p)
          PROVE  bloqueados'[q][u] \in {bloqueados[q][u], <<>>}
      BY <3>2 DEF BorraListas, TypeOK
    <3> QED
      BY <1>4, <3>1, <3>2, Zenon
  <2>4. \A q \in Pids, u \in Tids :
            Range(bloqueados'[q][u]) \subseteq Range(bloqueados[q][u])
    BY <2>3, RangoVacio
  <2> QED
    BY <1>4, <2>2, <2>4, LugarColaIgual
<1>5. \/ UNCHANGED cola /\ (UNCHANGED bloqueados \/ \E p \in Pids : BorraListas(p))
      \/ \E p \in Pids : \/ Bloquea(p)
                         \/ \E t \in Tids : Libera(p, t)
      \/ \E s \in Sems : Despierta(s)
  BY DEF Mueve, Quieto, Rota, Toma, Entra, Nace, Cierra, Suelta, LimpiaListas,
     BorraListas, Ordena, Desaloja, Despacha
<1> QED
  BY <1>1, <1>2, <1>3, <1>4, <1>5

-----------------------------------------------------------------------------
(* The hilos that ended.                                                   *)

LEMMA LugarExitPaso ==
    ASSUME TypeOK, LugarExit, Mueve
    PROVE  LugarExit'
<1>1. Conserva("Exit")
  BY MueveConserva
<1>2. ASSUME NEW p \in Pids, NEW h \in exit[p]
      PROVE  h.pid = p /\ transicion'[h] = "Exit"
  BY <1>1 DEF LugarExit, Conserva, TypeOK
<1>3. CASE UNCHANGED exit
  BY <1>2, <1>3 DEF LugarExit
<1>4. ASSUME NEW p \in Pids, Cierra(p) PROVE LugarExit'
  <2>1. exec[p] \in Hilo /\ exec[p].pid = p /\ transicion'[exec[p]] = "Exit"
    BY <1>4, CambiaSolo DEF Cierra
  <2>2. \A q \in Pids :
            exit'[q] = IF q = p THEN exit[q] \cup {exec[p]} ELSE exit[q]
    BY <1>4 DEF Cierra, TypeOK
  <2>3. ASSUME NEW q \in Pids, NEW h \in exit'[q]
        PROVE  h.pid = q /\ transicion'[h] = "Exit"
    <3>1. CASE h \in exit[q]
      BY <1>2, <3>1
    <3>2. CASE h = exec[p] /\ q = p
      BY <2>1, <3>2
    <3> QED
      BY <2>2, <2>3, <3>1, <3>2
  <2> QED
    BY <2>3 DEF LugarExit
<1>5. ASSUME NEW p \in Pids, LimpiaListas(p) PROVE LugarExit'
  <2>1. \A q \in Pids : exit'[q] = IF q = p THEN {} ELSE exit[q]
    BY SMTT(60), <1>5 DEF LimpiaListas, TypeOK
  <2> QED
    BY <1>2, <2>1 DEF LugarExit
<1>6. UNCHANGED exit \/ \E p \in Pids : Cierra(p) \/ LimpiaListas(p)
  BY DEF Mueve, Quieto, Rota, Toma, Entra, Nace, Despierta, Bloquea, Suelta,
     BorraListas, Ordena, Desaloja, Despacha, Libera
<1> QED
  BY <1>3, <1>4, <1>5, <1>6

-----------------------------------------------------------------------------
(* A close under way.                                                      *)

(* It goes on, and neither the connection nor its program does anything    *)
(* else meanwhile.                                                         *)
LEMMA CierreSigue ==
    ASSUME TypeOK, CierreQuieto, EnCierre # Nadie, EnCierre' # Nadie,
           [Next]_vars
    PROVE  /\ EnCierre' = EnCierre /\ conexion'.pid = conexion.pid
           /\ agenda'[EnCierre.pid] = "no"
<1>1. /\ conexion.paso \in {"metricas", "devolver", "soltarExec"}
      /\ EnCierre = conexion.hilo /\ conexion # EnSelect
  BY DEF EnCierre, EnSelect
<1>2. CASE UNCHANGED <<conexion, agenda>>
  BY <1>2 DEF EnCierre, CierreQuieto
<1>3. CASE PasoConexion
  <2>1. CASE MetricasClose \/ DevolverClose
    <3>1. CASE Cae("programaInexistente")
      BY <1>2, <3>1 DEF Cae
    <3>2. CASE /\ UNCHANGED agenda
               /\ \/ conexion' = [conexion EXCEPT !.paso = "devolver"]
                  \/ conexion' = [conexion EXCEPT !.paso = "soltarExec"]
      BY <1>1, <3>2 DEF EnCierre, CierreQuieto, TypeOK, Conexiones
    <3> QED
      BY <2>1, <3>1, <3>2 DEF MetricasClose, DevolverClose
  <2>2. CASE SoltarExec
    BY <2>2 DEF SoltarExec, EnCierre, TypeOK, Conexiones
  <2>3. ~ContarNew /\ ~Despertar /\ ~Desmarcar /\ ~Descontar
    BY <1>1 DEF ContarNew, Despertar, Desmarcar, Descontar
  <2>4. ~Liberar /\ ~LimpiarReady /\ ~LimpiarPrograma
    BY <1>1 DEF Liberar, LimpiarReady, LimpiarPrograma
  <2> QED
    BY <1>3, <2>1, <2>2, <2>3, <2>4 DEF PasoConexion
<1>4. CASE PasoPlanificador
  BY <1>2, <1>4 DEF PasoPlanificador, TomarNuevo, Admitir, PasarNuevo, Cae
<1>5. CASE MetricasTimer \/ DevolverTimer
  BY <1>2, <1>5 DEF MetricasTimer, DevolverTimer, Cae
<1>6. ASSUME NEW p \in Pids, PasoAgenda(p)
      PROVE  /\ EnCierre' = EnCierre /\ conexion'.pid = conexion.pid
             /\ agenda'[EnCierre.pid] = "no"
  <2>1. /\ conexion' = conexion /\ agenda[p] # "no"
        /\ UNCHANGED agenda \/ \E a : agenda' = [agenda EXCEPT ![p] = a]
    BY <1>6 DEF PasoAgenda, Recalcular, Replanificar, CalcularCae, Desalojar,
       Continuar, DespacharSiguiente, Despachar, QuedarSinHilos, Marcar,
       TomarMutex, Retomar, Calcular, Cae
  <2>2. agenda[EnCierre.pid] = "no" /\ EnCierre.pid \in Pids
    BY EnCierreTipo DEF CierreQuieto, HiloONadie, Hilo
  <2>3. agenda'[EnCierre.pid] = "no"
    BY SMTT(60), <2>1, <2>2 DEF TypeOK
  <2> QED
    BY <2>1, <2>3 DEF EnCierre
<1>7. ASSUME NEW p \in Pids, Solicitud(p) PROVE FALSE
  BY <1>1, <1>7 DEF Solicitud, CrearPrograma, ScheduleNext, Desconectar,
     CrearHilo, RealizarJoin, RealizarClose, SuseWait, SuseSignal, Solicita,
     EnServicio
<1>8. ASSUME NEW p \in Pids, Recibir(p) PROVE UNCHANGED <<conexion, agenda>>
  BY <1>8 DEF Recibir
<1>9. CASE UNCHANGED vars
  BY <1>2, <1>9 DEF vars
<1> QED
  BY <1>2, <1>3, <1>4, <1>5, <1>6, <1>7, <1>8, <1>9 DEF Next, PasoServidor

(* It starts with a request, so its program was not in a schedule_next.    *)
LEMMA CierreEmpieza ==
    ASSUME TypeOK, EnCierre = Nadie, EnCierre' # Nadie, [Next]_vars
    PROVE  \E p \in Pids, t \in Tids :
               /\ RealizarClose(p, t) /\ exec[p] # Nadie
               /\ conexion' = [paso |-> "metricas", pid |-> p, hilo |-> exec[p]]
<1>1. conexion.paso \notin {"metricas", "devolver", "soltarExec"}
  BY SUSEAssumption DEF EnCierre, TypeOK, ConexionEnCurso
<1>2. conexion' # conexion
  BY DEF EnCierre
<1>3. conexion'.paso \in {"metricas", "devolver", "soltarExec"}
  BY DEF EnCierre
<1>4. CASE PasoConexion
  <2>1. ~MetricasClose /\ ~DevolverClose /\ ~SoltarExec
    BY <1>1 DEF MetricasClose, DevolverClose, SoltarExec
  <2>2. ~ContarNew /\ ~Liberar /\ ~LimpiarPrograma /\ ~Descontar
    BY <1>2, <1>3 DEF ContarNew, Liberar, LimpiarPrograma, Descontar, EnSelect
  <2>3. ~Despertar /\ ~Desmarcar /\ ~LimpiarReady
    BY <1>3 DEF Despertar, Desmarcar, LimpiarReady, TypeOK, Conexiones
  <2> QED
    BY <1>4, <2>1, <2>2, <2>3 DEF PasoConexion
<1>5. ~PasoPlanificador /\ ~MetricasTimer /\ ~DevolverTimer
  BY <1>2 DEF PasoPlanificador, TomarNuevo, Admitir, PasarNuevo, Cae,
     MetricasTimer, DevolverTimer
<1>6. ASSUME NEW p \in Pids, PasoAgenda(p) \/ Recibir(p) PROVE FALSE
  BY <1>2, <1>6 DEF PasoAgenda, Recalcular, Replanificar, CalcularCae,
     Desalojar, Continuar, DespacharSiguiente, Despachar, QuedarSinHilos,
     Marcar, TomarMutex, Retomar, Cae, Recibir
<1>7. ASSUME NEW p \in Pids, Solicitud(p)
      PROVE  \E t \in Tids :
               /\ RealizarClose(p, t) /\ exec[p] # Nadie
               /\ conexion' = [paso |-> "metricas", pid |-> p, hilo |-> exec[p]]
  <2>1. ASSUME NEW t \in Tids, RealizarClose(p, t)
        PROVE  /\ exec[p] # Nadie
               /\ conexion' = [paso |-> "metricas", pid |-> p, hilo |-> exec[p]]
    BY <1>2, <2>1 DEF RealizarClose, Cae
  <2>2. ~CrearPrograma(p) /\ ~ScheduleNext(p) /\ ~Desconectar(p)
    BY <1>2, <1>3 DEF CrearPrograma, ScheduleNext, Desconectar
  <2>3. \A t \in Tids : ~CrearHilo(p, t) /\ ~RealizarJoin(p, t)
    BY <1>2, <1>3 DEF CrearHilo, RealizarJoin
  <2>4. \A t \in Tids, s \in Sems : ~SuseWait(p, t, s)
    BY <1>2 DEF SuseWait, Cae
  <2>5. \A s \in Sems : ~SuseSignal(p, s)
    BY <1>2, <1>3 DEF SuseSignal, Cae
  <2> QED
    BY <1>7, <2>1, <2>2, <2>3, <2>4, <2>5 DEF Solicitud
<1>8. ~UNCHANGED vars
  BY <1>2 DEF vars
<1> QED
  BY <1>4, <1>5, <1>6, <1>7, <1>8 DEF Next, PasoServidor

LEMMA CierreQuietoPaso ==
    ASSUME TypeOK, LugarExec, CierreQuieto, Mueve, [Next]_vars
    PROVE  CierreQuieto'
<1> SUFFICES ASSUME EnCierre' # Nadie
             PROVE  /\ conexion'.pid = EnCierre'.pid
                    /\ agenda'[EnCierre'.pid] = "no"
                    /\ transicion'[EnCierre'] = "Exit"
  BY DEF CierreQuieto
<1>1. CASE EnCierre # Nadie
  <2>1. /\ EnCierre' = EnCierre /\ conexion'.pid = conexion.pid
        /\ agenda'[EnCierre.pid] = "no"
    BY <1>1, CierreSigue
  <2>2. transicion'[EnCierre] = "Exit"
    BY <1>1, EnCierreTipo, MueveConserva DEF CierreQuieto, Conserva, HiloONadie
  <2> QED
    BY <1>1, <2>1, <2>2 DEF CierreQuieto
<1>2. CASE EnCierre = Nadie
  <2>1. PICK p \in Pids, t \in Tids :
               /\ RealizarClose(p, t) /\ exec[p] # Nadie
               /\ conexion' = [paso |-> "metricas", pid |-> p, hilo |-> exec[p]]
    BY <1>2, CierreEmpieza
  <2>2. EnCierre' = exec[p] /\ conexion'.pid = p
    BY <2>1 DEF EnCierre
  <2>3. exec[p] \in Hilo /\ exec[p].pid = p
    BY <2>1, EnExec
  <2>4. agenda'[p] = "no" /\ transicion'[exec[p]] = "Exit"
    BY <2>1, <2>3 DEF RealizarClose, Solicita, TypeOK
  <2> QED
    BY <2>2, <2>3, <2>4
<1> QED
  BY <1>1, <1>2

-----------------------------------------------------------------------------
(* The invariant.                                                          *)

LEMMA LugaresInit == Init => Lugares
<1> SUFFICES ASSUME Init PROVE Lugares
  OBVIOUS
<1>1. LugarNew
  BY RangoVacio, NoRepiteVacio DEF Init, LugarNew, EsperaAdmision
<1>2. LugarReady /\ LugarExec /\ LugarExit
  BY RangoVacio, NoRepiteVacio DEF Init, LugarReady, LugarExec, LugarExit
<1>3. LugarJoin /\ LugarCola
  BY RangoVacio, NoRepiteVacio DEF Init, LugarJoin, LugarCola
<1>4. CierreQuieto
  BY EnSelectLibre DEF Init, CierreQuieto
<1> QED
  BY <1>1, <1>2, <1>3, <1>4 DEF Lugares

LEMMA LugaresPaso ==
    ASSUME TypeOK, ColasNew, Lugares, [Next]_vars
    PROVE  Lugares'
<1>1. Mueve
  BY Movimiento
<1>2. LugarNew' /\ LugarReady' /\ LugarExec'
  BY <1>1, LugarNewPaso, LugarReadyPaso, LugarExecPaso DEF Lugares
<1>3. LugarJoin' /\ LugarCola' /\ LugarExit'
  BY <1>1, LugarJoinPaso, LugarColaPaso, LugarExitPaso DEF Lugares
<1>4. CierreQuieto'
  BY <1>1, CierreQuietoPaso DEF Lugares
<1> QED
  BY <1>2, <1>3, <1>4 DEF Lugares

LEMMA LugaresSiempre == Spec => []Lugares
<1>1. TypeOK /\ ColasNew /\ Lugares /\ [Next]_vars => Lugares'
  BY LugaresPaso
<1> QED
  BY LugaresInit, TipoCorrecto, ColasNewSiempre, <1>1, PTL DEF Spec

-----------------------------------------------------------------------------
(* What it implies.                                                        *)

LEMMA BitacoraDeLugares ==
    ASSUME TypeOK, Lugares PROVE Bitacora
<1>1. \A p \in Pids : exec[p] # Nadie =>
          /\ exec[p].pid = p
          /\ \/ transicion[exec[p]] = "Execute"
             \/ transicion[exec[p]] = "Exit" /\ Cerrando(exec[p])
  BY DEF Lugares, LugarExec, EnCierre, Cerrando
<1>2. \A p \in Pids, t \in Tids : \A h \in Range(bloqueados[p][t]) :
          h.pid = p /\ transicion[h] = "Blocked"
  BY EnListaJoin DEF Lugares
<1>3. \A s \in Sems : \A h \in Range(cola[s]) : transicion[h] = "Blocked"
  BY EnListaCola DEF Lugares
<1>4. \A p \in Pids : \A h \in Range(ready[p]) :
          h.pid = p /\ transicion[h] = "Ready"
  BY EnListaReady DEF Lugares
<1>5. /\ \A h \in EsperaAdmision : transicion[h] = "New"
      /\ \A p \in Pids : \A h \in exit[p] : h.pid = p /\ transicion[h] = "Exit"
  BY DEF Lugares, LugarNew, LugarExit
<1> QED
  BY <1>1, <1>2, <1>3, <1>4, <1>5 DEF Bitacora

(* loguearTransicion tells the truth in every state the server reaches:    *)
(* whatever the interleaving of its threads, the last line it wrote about  *)
(* a hilo is the state whose structure holds it, and a structure of a      *)
(* program holds hilos of that program only.                               *)
THEOREM BitacoraSiempre == Spec => []Bitacora
<1>1. TypeOK /\ Lugares => Bitacora
  BY BitacoraDeLugares
<1> QED
  BY TipoCorrecto, LugaresSiempre, <1>1, PTL

LEMMA EsperaDeLugares ==
    ASSUME TypeOK, Lugares PROVE UnaSolaEspera
<1>1. /\ SinRepetidos(new \o colaAux)
      /\ enMano \notin Range(new) \cup Range(colaAux)
  BY NoRepiteConcat DEF TypeOK, Lugares, LugarNew
<1>2. /\ \A p \in Pids : SinRepetidos(ready[p])
      /\ \A p \in Pids, t \in Tids : SinRepetidos(bloqueados[p][t])
      /\ \A s \in Sems : SinRepetidos(cola[s])
  BY DEF Lugares, LugarReady, LugarJoin, LugarCola
<1>3. ASSUME NEW p \in Pids, NEW t \in Tids, NEW h \in Range(bloqueados[p][t])
      PROVE  \A u \in Tids \ {t} : h \notin Range(bloqueados[p][u])
  BY EnListaJoin DEF Lugares
<1>4. ASSUME NEW s \in Sems, NEW h \in Range(cola[s])
      PROVE  /\ \A r \in Sems \ {s} : h \notin Range(cola[r])
             /\ \A p \in Pids, t \in Tids : h \notin Range(bloqueados[p][t])
  BY EnListaCola DEF Lugares
<1>5. ASSUME NEW p \in Pids, NEW t \in Tids
      PROVE  /\ \A u \in Tids \ {t} :
                    Range(bloqueados[p][t]) \cap Range(bloqueados[p][u]) = {}
             /\ \A s \in Sems :
                    Range(bloqueados[p][t]) \cap Range(cola[s]) = {}
  BY <1>3, <1>4
<1>6. ASSUME NEW s \in Sems
      PROVE  \A r \in Sems \ {s} : Range(cola[s]) \cap Range(cola[r]) = {}
  BY <1>4
<1> QED
  BY <1>1, <1>2, <1>5, <1>6 DEF UnaSolaEspera

(* No hilo waits twice: no queue or list of the server ever repeats one,   *)
(* and one that waits for another to end waits neither for a third nor for *)
(* a semaphore, so a close and a signal never put the same hilo in ready.  *)
THEOREM EsperaUnica == Spec => []UnaSolaEspera
<1>1. TypeOK /\ Lugares => UnaSolaEspera
  BY EsperaDeLugares
<1> QED
  BY TipoCorrecto, LugaresSiempre, <1>1, PTL
=============================================================================
