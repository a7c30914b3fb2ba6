----------------------------- MODULE SUSESeguro -----------------------------
(***************************************************************************)
(* Safety of the scheduling server beyond types, proved for any number of  *)
(* programs, hilos and semaphores, and its transport to the programs of    *)
(* module Linuse: every behaviour of the composed system is a behaviour of *)
(* the server, so what is proved of Spec holds of SpecLinuse.              *)
(***************************************************************************)
EXTENDS Linuse, SUSEVida

-----------------------------------------------------------------------------
(* Semaphores.                                                             *)

LEMMA SemaforoInit == Init => SemaforoCorrecto
BY SUSEAssumption DEF Init, SemaforoCorrecto

LEMMA SemaforoIgual ==
    ASSUME SemaforoCorrecto, UNCHANGED varsSem
    PROVE  SemaforoCorrecto'
BY DEF SemaforoCorrecto, varsSem

LEMMA SemaforoWait ==
    ASSUME NEW p \in Pids, NEW t \in Tids, NEW s \in Sems,
           TypeOK, SemaforoCorrecto, SuseWait(p, t, s)
    PROVE  SemaforoCorrecto'
<1>1. CASE UNCHANGED varsSem
  BY <1>1, SemaforoIgual
<1>2. CASE /\ semaforo[s] > 0
           /\ semaforo' = [semaforo EXCEPT ![s] = @ - 1]
           /\ cola' = cola
  <2> SUFFICES ASSUME NEW r \in Sems
               PROVE  /\ semaforo'[r] \in 0 .. SemMax[r]
                      /\ semaforo'[r] > 0 => cola'[r] = <<>>
    BY DEF SemaforoCorrecto
  <2>1. /\ semaforo[r] \in 0 .. SemMax[r] /\ semaforo[r] \in Nat
        /\ SemMax[r] \in Nat /\ (semaforo[r] > 0 => cola[r] = <<>>)
    BY SUSEAssumption DEF TypeOK, SemaforoCorrecto
  <2>2. semaforo'[r] = IF r = s THEN semaforo[r] - 1 ELSE semaforo[r]
    BY <1>2 DEF TypeOK
  <2> QED
    BY <1>2, <2>1, <2>2
<1>3. CASE /\ semaforo[s] <= 0
           /\ cola' = [cola EXCEPT ![s] = Append(@, exec[p])]
           /\ semaforo' = semaforo
  <2> SUFFICES ASSUME NEW r \in Sems
               PROVE  /\ semaforo'[r] \in 0 .. SemMax[r]
                      /\ semaforo'[r] > 0 => cola'[r] = <<>>
    BY DEF SemaforoCorrecto
  <2>1. /\ semaforo[r] \in 0 .. SemMax[r] /\ semaforo[r] \in Nat
        /\ (semaforo[r] > 0 => cola[r] = <<>>)
    BY DEF TypeOK, SemaforoCorrecto
  <2>2. r # s => cola'[r] = cola[r]
    BY <1>3 DEF TypeOK
  <2> QED
    BY <1>3, <2>1, <2>2
<1> QED
  BY <1>1, <1>2, <1>3 DEF SuseWait, Cae, varsSem

LEMMA SemaforoSignal ==
    ASSUME NEW p \in Pids, NEW s \in Sems,
           TypeOK, SemaforoCorrecto, SuseSignal(p, s)
    PROVE  SemaforoCorrecto'
<1>1. CASE UNCHANGED varsSem
  BY <1>1, SemaforoIgual
<1>2. CASE /\ cola[s] = <<>>
           /\ semaforo' = [semaforo EXCEPT ![s] = @ + 1]
           /\ cola' = cola
  <2> SUFFICES ASSUME NEW r \in Sems
               PROVE  /\ semaforo'[r] \in 0 .. SemMax[r]
                      /\ semaforo'[r] > 0 => cola'[r] = <<>>
    BY DEF SemaforoCorrecto
  <2>1. /\ semaforo[r] \in 0 .. SemMax[r] /\ semaforo[r] \in Nat
        /\ SemMax[r] \in Nat /\ (semaforo[r] > 0 => cola[r] = <<>>)
    BY SUSEAssumption DEF TypeOK, SemaforoCorrecto
  <2>2. semaforo'[r] = IF r = s THEN semaforo[r] + 1 ELSE semaforo[r]
    BY <1>2 DEF TypeOK
  <2>3. semaforo[s] + 1 <= SemMax[s]
    BY DEF SuseSignal, CabeSignal
  <2> QED
    BY <1>2, <2>1, <2>2, <2>3
<1>3. CASE /\ cola[s] # <<>>
           /\ cola' = [cola EXCEPT ![s] = Tail(@)]
           /\ semaforo' = semaforo
  <2> SUFFICES ASSUME NEW r \in Sems
               PROVE  /\ semaforo'[r] \in 0 .. SemMax[r]
                      /\ semaforo'[r] > 0 => cola'[r] = <<>>
    BY DEF SemaforoCorrecto
  <2>1. /\ semaforo[r] \in 0 .. SemMax[r] /\ semaforo[r] \in Nat
        /\ (semaforo[r] > 0 => cola[r] = <<>>)
    BY DEF TypeOK, SemaforoCorrecto
  <2>2. r # s => cola'[r] = cola[r]
    BY <1>3 DEF TypeOK
  <2> QED
    BY <1>3, <2>1, <2>2
<1> QED
  BY <1>1, <1>2, <1>3 DEF SuseSignal, Cae, varsSem

LEMMA SemaforoPaso ==
    ASSUME TypeOK, SemaforoCorrecto, [Next]_vars
    PROVE  SemaforoCorrecto'
<1>1. CASE PasoConexion
  BY <1>1, SemaforoIgual DEF PasoConexion, ContarNew, Despertar, Desmarcar,
     Descontar, MetricasClose, DevolverClose, SoltarExec, Liberar,
     LimpiarReady, LimpiarPrograma, Cae
<1>2. CASE PasoPlanificador
  BY <1>2, SemaforoIgual DEF PasoPlanificador, TomarNuevo, Admitir,
     PasarNuevo, Cae
<1>3. CASE MetricasTimer \/ DevolverTimer
  BY <1>3, SemaforoIgual DEF MetricasTimer, DevolverTimer, Cae
<1>4. ASSUME NEW p \in Pids, PasoAgenda(p) PROVE SemaforoCorrecto'
  BY <1>4, SemaforoIgual DEF PasoAgenda, Recalcular, Replanificar,
     CalcularCae, Desalojar, Continuar, DespacharSiguiente, Despachar,
     QuedarSinHilos, Marcar, TomarMutex, Retomar, Cae
<1>5. ASSUME NEW p \in Pids, Solicitud(p) PROVE SemaforoCorrecto'
  <2>1. ASSUME NEW t \in Tids, NEW s \in Sems, SuseWait(p, t, s)
        PROVE  SemaforoCorrecto'
    BY <2>1, SemaforoWait
  <2>2. ASSUME NEW s \in Sems, SuseSignal(p, s) PROVE SemaforoCorrecto'
    BY <2>2, SemaforoSignal
  <2>3. CASE CrearPrograma(p) \/ ScheduleNext(p) \/ Desconectar(p)
    BY <2>3, SemaforoIgual DEF CrearPrograma, ScheduleNext, Desconectar
  <2>4. ASSUME NEW t \in Tids,
               CrearHilo(p, t) \/ RealizarJoin(p, t) \/ RealizarClose(p, t)
        PROVE  SemaforoCorrecto'
    BY <2>4, SemaforoIgual DEF CrearHilo, RealizarJoin, RealizarClose, Cae
  <2> QED
    BY <1>5, <2>1, <2>2, <2>3, <2>4 DEF Solicitud
<1>6. ASSUME NEW p \in Pids, Recibir(p) PROVE SemaforoCorrecto'
  BY <1>6, SemaforoIgual DEF Recibir
<1>7. CASE UNCHANGED vars
  BY <1>7, SemaforoIgual DEF vars
<1> QED
  BY <1>1, <1>2, <1>3, <1>4, <1>5, <1>6, <1>7 DEF Next, PasoServidor

(* sem_suse_wait and sem_suse_signal keep every semaphore between zero and *)
(* its SEM_MAX, and no hilo is left waiting for one that has resources,    *)
(* whatever the programs call and however the server's threads interleave. *)
THEOREM SemaforoSiempre == Spec => []SemaforoCorrecto
<1>1. TypeOK /\ SemaforoCorrecto /\ [Next]_vars => SemaforoCorrecto'
  BY SemaforoPaso
<1> QED
  BY SemaforoInit, TipoCorrecto, <1>1, PTL DEF Spec

-----------------------------------------------------------------------------
(* The programs add no behaviour to the server.                            *)

(* The hilo a program runs has a tid that the server knows.                *)
ActualTipado == actual \in [Pids -> Tids]

LEMMA ActualInit == Inicio => ActualTipado
BY LinuseAssumption DEF Inicio, H!HilolayInit, ActualTipado

LEMMA ActualPaso ==
    ASSUME ActualTipado, [Siguiente]_varsLinuse
    PROVE  ActualTipado'
<1>1. CASE UNCHANGED actual
  BY <1>1 DEF ActualTipado
<1>2. ASSUME NEW p \in Pids, Programa(p) PROVE ActualTipado'
  <2>1. CASE SwapContext(p)
    <3>1. PICK t \in Tids : H!Cambia(p, t)
      BY <2>1 DEF SwapContext
    <3> QED
      BY <3>1 DEF H!Cambia, ActualTipado
  <2>2. CASE ~SwapContext(p)
    BY <1>1, <1>2, <2>2 DEF Programa, Conectar, SuseCreate, HilolayWait,
       HilolaySignal, HilolayJoin, SuseClose, HilolayYield, Terminar, Matar,
       H!Conecta, H!CreaMain, H!Crea, H!UsaSemaforo, H!Espera, H!Retorna,
       H!RetornaMain, H!Cede, H!Cierra, H!Muere, H!Va
  <2> QED
    BY <2>1, <2>2
<1>3. CASE Sistema \/ UNCHANGED varsLinuse
  BY <1>1, <1>3 DEF Sistema, varsLinuse
<1> QED
  BY <1>2, <1>3 DEF Siguiente

LEMMA ProgramaEsSolicitud ==
    ASSUME ActualTipado, NEW p \in Pids, Programa(p)
    PROVE  Solicitud(p) \/ Recibir(p) \/ UNCHANGED vars
<1>0. actual[p] \in Tids /\ 0 \in Tids
  BY LinuseAssumption DEF ActualTipado
<1>1. CASE Conectar(p) \/ HilolayYield(p) \/ Terminar(p) \/ Matar(p)
  BY <1>1 DEF Conectar, HilolayYield, Terminar, Matar, Solicitud
<1>2. CASE SuseCreate(p)
  BY <1>0, <1>2 DEF SuseCreate, Solicitud
<1>3. CASE HilolayWait(p)
  BY <1>0, <1>3 DEF HilolayWait, Solicitud
<1>4. CASE HilolaySignal(p)
  BY <1>4 DEF HilolaySignal, Solicitud
<1>5. CASE HilolayJoin(p)
  BY <1>5 DEF HilolayJoin, Solicitud
<1>6. CASE SuseClose(p)
  BY <1>0, <1>6 DEF SuseClose, Solicitud
<1>7. CASE SwapContext(p)
  BY <1>7 DEF SwapContext
<1> QED
  BY <1>1, <1>2, <1>3, <1>4, <1>5, <1>6, <1>7 DEF Programa

LEMMA SiguienteEsNext ==
    ASSUME ActualTipado, [Siguiente]_varsLinuse
    PROVE  [Next]_vars
BY ProgramaEsSolicitud DEF Siguiente, Sistema, Next, varsLinuse

(* Programs that use the library only make the server do what module SUSE  *)
(* says it does: the composition is a refinement of the server.            *)
THEOREM LinuseEsSUSE == SpecLinuse => Spec
<1>1. Inicio => Init /\ ActualTipado
  BY ActualInit DEF Inicio
<1>2. ActualTipado /\ [Siguiente]_varsLinuse => ActualTipado' /\ [Next]_vars
  BY ActualPaso, SiguienteEsNext
<1> QED
  BY <1>1, <1>2, PTL DEF SpecLinuse, Spec

(* The semaphores of the server are correct under any programs that use    *)
(* the library, however many of them, of hilos and of semaphores.          *)
THEOREM LinuseSeguro == SpecLinuse => [](TypeOK /\ SemaforoCorrecto)
BY LinuseEsSUSE, TipoCorrecto, SemaforoSiempre, PTL

-----------------------------------------------------------------------------
(* Programs and server together.                                           *)

(* Where a program is, and what the server has of it.  A program that      *)
(* runs was not overtaken: the hilo it runs is the one in exec, or it is   *)
(* main and was not admitted yet (or another hilo was admitted before it). *)
Coherente(p) ==
    /\ fase[p] = "fuera" <=> socket[p] = "libre"
    /\ fase[p] = "cerro" <=> socket[p] = "cerrado"
    /\ fase[p] \notin {"espera", "cerro"} => agenda[p] = "no" /\ respuesta[p] = Ninguna
    /\ fase[p] \in {"fuera", "conectado"} =>
           /\ actual[p] = 0
           /\ \A t \in Tids : transicion[[pid |-> p, tid |-> t]] = "Inexistente"
    /\ EnCierre # Nadie /\ EnCierre.pid = p => fase[p] \in {"cede", "sale"}
    /\ respuesta[p] # Ninguna =>
           /\ fase[p] = "espera" /\ agenda[p] = "no"
           /\ exec[p] = [pid |-> p, tid |-> respuesta[p]]
    /\ fase[p] = "corre" =>
           exec[p] = Actual(p) \/ transicion[Actual(p)] \in {"New", "Ready"}

Coherentes == \A p \in Pids : Coherente(p)

(* What the threads of the server leave alone of a program p ...           *)
LEMMA SitioServidor ==
    ASSUME TypeOK, NEW p \in Pids, PasoServidor, ~PasoAgenda(p)
    PROVE  /\ UNCHANGED <<socket, agenda[p], respuesta[p]>>
           /\ EnCierre' \in {EnCierre, Nadie}
           /\ conexion'.paso = "contarNew" => conexion' = conexion
<1>1. ASSUME NEW m, Cae(m)
      PROVE  UNCHANGED <<socket, agenda, respuesta, conexion>>
  BY <1>1 DEF Cae
<1>2. ASSUME UNCHANGED <<socket, agenda, respuesta, conexion>>
      PROVE  /\ UNCHANGED <<socket, agenda[p], respuesta[p]>>
             /\ EnCierre' \in {EnCierre, Nadie}
             /\ conexion'.paso = "contarNew" => conexion' = conexion
  BY <1>2 DEF EnCierre
<1>3. ASSUME UNCHANGED <<socket, agenda, respuesta>>,
             \/ conexion' = EnSelect
             \/ conexion'.paso \in {"desmarcar", "descontar", "liberar", "limpiarPrograma"}
             \/ /\ conexion.paso \in {"metricas", "devolver"}
                /\ conexion'.paso \in {"devolver", "soltarExec"}
                /\ conexion'.hilo = conexion.hilo
      PROVE  /\ UNCHANGED <<socket, agenda[p], respuesta[p]>>
             /\ EnCierre' \in {EnCierre, Nadie}
             /\ conexion'.paso = "contarNew" => conexion' = conexion
  BY <1>3 DEF EnCierre, EnSelect
<1>4. conexion \in [paso : Pasos, pid : Pids \cup {Nadie}, hilo : HiloONadie]
  BY DEF TypeOK, Conexiones
<1>5. CASE PasoConexion
  <2>1. CASE ContarNew \/ Descontar
    BY <1>3, <2>1 DEF ContarNew, Descontar
  <2>2. CASE Despertar
    BY <1>3, <1>4, <2>2 DEF Despertar
  <2>3. CASE Desmarcar
    BY <1>3, <1>4, <2>3 DEF Desmarcar
  <2>4. CASE MetricasClose
    <3>1. CASE UNCHANGED <<socket, agenda, respuesta, conexion>>
      BY <1>2, <3>1
    <3>2. CASE conexion' = [conexion EXCEPT !.paso = "devolver"]
      <4>1. UNCHANGED <<socket, agenda, respuesta>> /\ conexion.paso = "metricas"
        BY <1>1, <2>4 DEF MetricasClose
      <4>2. conexion'.paso = "devolver" /\ conexion'.hilo = conexion.hilo
        BY <1>4, <3>2
      <4> QED
        BY <1>3, <4>1, <4>2
    <3> QED
      BY <1>1, <2>4, <3>1, <3>2 DEF MetricasClose
  <2>5. CASE DevolverClose
    <3>1. conexion'.paso = "soltarExec" /\ conexion'.hilo = conexion.hilo
      BY <1>4, <2>5 DEF DevolverClose
    <3> QED
      BY <1>3, <2>5, <3>1 DEF DevolverClose
  <2>6. CASE SoltarExec
    BY <1>3, <1>4, <2>6 DEF SoltarExec
  <2>7. CASE Liberar
    BY <1>2, <1>3, <2>7 DEF Liberar
  <2>8. CASE LimpiarReady
    BY <1>3, <1>4, <2>8 DEF LimpiarReady
  <2>9. CASE LimpiarPrograma
    BY <1>3, <2>9 DEF LimpiarPrograma
  <2> QED
    BY <1>5, <2>1, <2>2, <2>3, <2>4, <2>5, <2>6, <2>7, <2>8, <2>9 DEF PasoConexion
<1>6. CASE PasoPlanificador \/ MetricasTimer \/ DevolverTimer
  BY <1>1, <1>2, <1>6 DEF PasoPlanificador, TomarNuevo, Admitir, PasarNuevo,
     MetricasTimer, DevolverTimer
<1>7. ASSUME NEW q \in Pids, PasoAgenda(q)
      PROVE  /\ UNCHANGED <<socket, agenda[p], respuesta[p]>>
             /\ EnCierre' \in {EnCierre, Nadie}
             /\ conexion'.paso = "contarNew" => conexion' = conexion
  <2>1. q # p
    BY SMTT(60), <1>7
  <2>2. UNCHANGED <<socket, conexion>>
    BY SMTT(60), <1>1, <1>7 DEF PasoAgenda, Recalcular, Replanificar, CalcularCae,
       Desalojar, Continuar, DespacharSiguiente, Despachar, QuedarSinHilos,
       Marcar, TomarMutex, Retomar
  <2>3. agenda'[p] = agenda[p]
    BY SMTT(60), <1>1, <1>7, <2>1 DEF PasoAgenda, Recalcular, Replanificar, CalcularCae,
       Desalojar, Continuar, DespacharSiguiente, Despachar, QuedarSinHilos,
       Marcar, TomarMutex, Retomar, TypeOK
  <2>4. respuesta'[p] = respuesta[p]
    BY SMTT(60), <1>1, <1>7, <2>1 DEF PasoAgenda, Recalcular, Replanificar, CalcularCae,
       Desalojar, Continuar, DespacharSiguiente, Despachar, QuedarSinHilos,
       Marcar, TomarMutex, Retomar, TypeOK, Responder
  <2> QED
    BY <2>2, <2>3, <2>4 DEF EnCierre
<1> QED
  BY <1>5, <1>6, <1>7 DEF PasoServidor

(* ... and what a request of another program does.                         *)
LEMMA SitioAjeno ==
    ASSUME TypeOK, NEW p \in Pids, NEW q \in Pids \ {p},
           Solicitud(q) \/ Recibir(q)
    PROVE  /\ UNCHANGED <<socket[p], agenda[p], respuesta[p]>>
           /\ conexion' = conexion \/ conexion'.pid = q
<1>1. ASSUME NEW m, Cae(m)
      PROVE  UNCHANGED <<socket, agenda, respuesta, conexion>>
  BY <1>1 DEF Cae
<1>2. CASE CrearPrograma(q) \/ ScheduleNext(q)
  BY <1>2 DEF CrearPrograma, ScheduleNext, TypeOK
<1>3. CASE Desconectar(q) \/ Recibir(q)
  BY <1>3 DEF Desconectar, Recibir, TypeOK
<1>4. ASSUME NEW t \in Tids, CrearHilo(q, t) \/ RealizarJoin(q, t) \/ RealizarClose(q, t)
      PROVE  /\ UNCHANGED <<socket, agenda, respuesta>>
             /\ conexion' = conexion \/ conexion'.pid = q
  BY <1>1, <1>4 DEF CrearHilo, RealizarJoin, RealizarClose
<1>5. ASSUME NEW s \in Sems, SuseSignal(q, s)
      PROVE  /\ UNCHANGED <<socket, agenda, respuesta>>
             /\ conexion' = conexion \/ conexion'.pid = q
  BY <1>1, <1>5 DEF SuseSignal
<1>6. ASSUME NEW t \in Tids, NEW s \in Sems, SuseWait(q, t, s)
      PROVE  UNCHANGED <<socket, agenda, respuesta, conexion>>
  BY <1>1, <1>6 DEF SuseWait
<1> QED
  BY <1>2, <1>3, <1>4, <1>5, <1>6 DEF Solicitud

(* Only its schedule_next, its first hilo and its close write the exec of  *)
(* a program that is alive; ...                                            *)
LEMMA ExecServidor ==
    ASSUME TypeOK, Lugares, Vida, NEW p \in Pids, Vivo(p),
           PasoServidor, ~PasoAgenda(p)
    PROVE  \/ exec'[p] = exec[p]
           \/ /\ PasarNuevo /\ enMano \in Hilo /\ enMano.pid = p
              /\ p \notin listas /\ exec'[p] = enMano
           \/ EnCierre # Nadie /\ EnCierre.pid = p /\ exec'[p] = Nadie
<1>1. ASSUME NEW m, Cae(m) PROVE exec' = exec
  BY <1>1 DEF Cae, varsPrograma
<1>2. CASE PasoConexion
  <2>1. CASE ContarNew \/ Despertar \/ Desmarcar \/ Descontar
    BY <2>1 DEF ContarNew, Despertar, Desmarcar, Descontar
  <2>2. CASE MetricasClose \/ DevolverClose \/ Liberar \/ LimpiarReady
    BY <1>1, <2>2 DEF MetricasClose, DevolverClose, Liberar, LimpiarReady,
       varsPrograma
  <2>3. CASE SoltarExec
    <3>1. CASE conexion.pid = p
      <4>1. EnCierre = conexion.hilo /\ conexion.hilo \in Hilo
        BY <2>3 DEF SoltarExec, EnCierre, TypeOK, ConexionEnCurso
      <4>2. EnCierre # Nadie /\ EnCierre.pid = p
        BY <3>1, <4>1, SUSEAssumption DEF Lugares, CierreQuieto
      <4> QED
        BY <2>3, <3>1, <4>2 DEF SoltarExec, DejarExec, TypeOK
    <3>2. CASE conexion.pid # p
      BY <2>3, <3>2 DEF SoltarExec, DejarExec, TypeOK
    <3> QED
      BY <3>1, <3>2
  <2>4. CASE LimpiarPrograma
    <3>1. conexion.pid # p
      BY <2>4 DEF LimpiarPrograma, Vida, LimpiezaAlFinal
    <3> QED
      BY <2>4, <3>1 DEF LimpiarPrograma, DejarExec, TypeOK
  <2> QED
    BY <1>2, <2>1, <2>2, <2>3, <2>4 DEF PasoConexion
<1>3. CASE PasoPlanificador
  <2>1. CASE TomarNuevo \/ Admitir
    BY <1>1, <2>1 DEF TomarNuevo, Admitir, varsPrograma
  <2>2. CASE PasarNuevo
    <3>1. enMano \in Hilo
      BY <2>2 DEF PasarNuevo, TypeOK
    <3>2. CASE PasarAReady(enMano)
      BY <2>2, <3>1, <3>2, PasarExec
    <3> QED
      BY <1>1, <2>2, <3>2 DEF PasarNuevo
  <2> QED
    BY <1>3, <2>1, <2>2 DEF PasoPlanificador
<1>4. CASE MetricasTimer \/ DevolverTimer
  BY SMTT(60), <1>1, <1>4 DEF MetricasTimer, DevolverTimer, varsPrograma
<1>5. ASSUME NEW q \in Pids, PasoAgenda(q) PROVE exec'[p] = exec[p]
  <2>1. q # p
    BY <1>5
  <2> QED
    BY <1>1, <1>5, <2>1 DEF PasoAgenda, Recalcular, Replanificar, CalcularCae,
       Desalojar, Continuar, DespacharSiguiente, Despachar, QuedarSinHilos,
       Marcar, TomarMutex, Retomar, TypeOK, varsPrograma
<1> QED
  BY <1>2, <1>3, <1>4, <1>5 DEF PasoServidor

(* ... no other program does.                                              *)
LEMMA ExecAjeno ==
    ASSUME TypeOK, Lugares, Vida, NEW p \in Pids, Vivo(p),
           NEW q \in Pids \ {p}, Solicitud(q) \/ Recibir(q)
    PROVE  exec'[p] = exec[p]
<1>1. ASSUME NEW m, Cae(m) PROVE exec' = exec
  BY <1>1 DEF Cae, varsPrograma
<1>2. CASE CrearPrograma(q) \/ ScheduleNext(q) \/ Desconectar(q) \/ Recibir(q)
  BY <1>2 DEF CrearPrograma, ScheduleNext, Desconectar, Recibir, varsPrograma
<1>3. ASSUME NEW t \in Tids, CrearHilo(q, t) \/ RealizarJoin(q, t) \/ RealizarClose(q, t)
      PROVE  exec'[p] = exec[p]
  BY <1>1, <1>3 DEF CrearHilo, RealizarJoin, RealizarClose, DejarExec, TypeOK,
     varsPrograma
<1>4. ASSUME NEW t \in Tids, NEW s \in Sems, SuseWait(q, t, s)
      PROVE  exec'[p] = exec[p]
  <2>1. CASE exec' = exec
    BY <2>1
  <2>2. CASE DejarExec(q)
    BY <2>2 DEF DejarExec, TypeOK
  <2> QED
    BY <1>1, <1>4, <2>1, <2>2 DEF SuseWait, varsPrograma
<1>5. ASSUME NEW s \in Sems, SuseSignal(q, s) PROVE exec'[p] = exec[p]
  <2>1. CASE exec' = exec
    BY <2>1
  <2>2. CASE cola[s] # <<>> /\ PasarAReady(Head(cola[s]))
    <3>1. Head(cola[s]) \in Hilo /\ transicion[Head(cola[s])] = "Blocked"
      BY <2>2, CabezaBloqueada
    <3>2. p = Head(cola[s]).pid => p \in listas
      BY <3>1 DEF Vida, ListaDeVivos
    <3> QED
      BY <2>2, <3>1, <3>2, PasarExec
  <2> QED
    BY <1>1, <1>5, <2>1, <2>2 DEF SuseSignal, varsPrograma
<1> QED
  BY <1>2, <1>3, <1>4, <1>5 DEF Solicitud

(* A hilo that was admitted, or is about to be, waits for its turn as long *)
(* as exec does not change.                                                *)
LEMMA EsperaSuTurno ==
    ASSUME TypeOK, Lugares, Mueve, NEW h \in Hilo,
           transicion[h] \in {"New", "Ready"}, exec'[h.pid] = exec[h.pid]
    PROVE  transicion'[h] \in {"New", "Ready"}
<1> SUFFICES ASSUME transicion'[h] # transicion[h]
             PROVE  transicion'[h] \in {"New", "Ready"}
  OBVIOUS
<1>1. h.pid \in Pids /\ exec[h.pid] # h
  <2>1. h.pid \in Pids
    BY DEF Hilo
  <2>2. exec[h.pid] # Nadie => transicion[exec[h.pid]] \in {"Execute", "Exit"}
    BY <2>1 DEF Lugares, LugarExec
  <2> QED
    BY <2>1, <2>2, SUSEAssumption
<1>2. CASE Entra /\ h = enMano
  <2>1. Llega(h, "New")
    BY <1>2 DEF Entra
  <2>2. CASE exec' = [exec EXCEPT ![h.pid] = h]
    BY <1>1, <2>2 DEF TypeOK
  <2>3. CASE Cambia(h, "New", "Ready")
    BY <2>3, CambiaSolo
  <2> QED
    BY <2>1, <2>2, <2>3 DEF Llega
<1>3. ~Nace(h)
  BY DEF Nace, Cambia
<1>4. ASSUME NEW s \in Sems PROVE ~(Despierta(s) /\ h = Head(cola[s]))
  BY DEF Despierta, Llega, Cambia
<1>5. ASSUME NEW p \in Pids PROVE ~((Bloquea(p) \/ Cierra(p)) /\ h = exec[p])
  BY DEF Bloquea, Cierra, Cambia
<1>6. ASSUME NEW p \in Pids, NEW t \in Tids
      PROVE  ~(Libera(p, t) /\ h = Head(bloqueados[p][t]))
  BY DEF Libera, Cambia
<1>7. ASSUME NEW p \in Pids, ready[p] # <<>>, h = Head(ready[p])
      PROVE  p = h.pid
  <2>1. ready[p] \in Seq(Hilo)
    BY DEF TypeOK
  <2>2. h \in Range(ready[p])
    BY <1>7, <2>1, RangoTail
  <2> QED
    BY <2>2 DEF Lugares, LugarReady
<1>8. ASSUME NEW p \in Pids PROVE ~(Desaloja(p) /\ h \in {exec[p], Head(ready[p])})
  <2>1. CASE Desaloja(p) /\ h = exec[p]
    BY <2>1 DEF Desaloja
  <2>2. CASE Desaloja(p) /\ h = Head(ready[p])
    BY <1>1, <1>7, <2>2 DEF Desaloja, TypeOK
  <2> QED
    BY <2>1, <2>2
<1>9. ASSUME NEW p \in Pids PROVE ~(Despacha(p) /\ h = Head(ready[p]))
  BY <1>1, <1>7 DEF Despacha, TypeOK
<1> QED
  BY <1>2, <1>3, <1>4, <1>5, <1>6, <1>8, <1>9, QuienCambia

LEMMA SoloNace ==
    ASSUME TypeOK, Mueve, NEW h \in Hilo, transicion[h] = "Inexistente",
           transicion'[h] # "Inexistente"
    PROVE  Nace(h)
<1>1. ~Entra \/ h # enMano
  BY SMTT(60) DEF Entra, Llega, Cambia
<1>2. ASSUME NEW s \in Sems, Despierta(s) PROVE h # Head(cola[s])
  BY <1>2 DEF Despierta, Llega, Cambia
<1>3. ASSUME NEW p \in Pids
      PROVE  /\ Bloquea(p) \/ Cierra(p) => h # exec[p]
             /\ Desaloja(p) => h \notin {exec[p], Head(ready[p])}
             /\ Despacha(p) => h # Head(ready[p])
             /\ \A t \in Tids : Libera(p, t) => h # Head(bloqueados[p][t])
  BY DEF Bloquea, Cierra, Desaloja, Despacha, Libera, Cambia
<1> QED
  BY <1>1, <1>2, <1>3, QuienCambia

LEMMA CoherenteIgual ==
    ASSUME NEW p \in Pids, Coherente(p), UNCHANGED vars,
           fase'[p] = fase[p], actual'[p] = actual[p]
    PROVE  Coherente(p)'
BY DEF Coherente, Actual, vars, EnCierre, varsPrograma

LEMMA ExecConLista ==
    ASSUME TypeOK, Lugares, Vida, NEW p \in Pids, Vivo(p), exec[p] # Nadie
    PROVE  p \in listas
<1>1. /\ exec[p].pid = p /\ exec[p] \in Hilo
      /\ transicion[exec[p]] \in {"Execute", "Exit"}
  BY DEF Lugares, LugarExec, TypeOK, HiloONadie
<1> QED
  BY <1>1 DEF Vida, ListaDeVivos

(* The hilo in exec of a program that is alive stays there while the       *)
(* program does nothing, unless it is being closed.                        *)
LEMMA ExecQuieto ==
    ASSUME TypeOK, Lugares, Vida, NEW p \in Pids, Vivo(p),
           EnCierre # Nadie => EnCierre.pid # p,
           \/ PasoServidor /\ ~PasoAgenda(p)
           \/ \E q \in Pids \ {p} : Solicitud(q) \/ Recibir(q)
    PROVE  \/ exec'[p] = exec[p]
           \/ /\ PasarNuevo /\ enMano \in Hilo /\ enMano.pid = p
              /\ p \notin listas /\ exec[p] = Nadie /\ exec'[p] = enMano
<1>1. p \notin listas => exec[p] = Nadie
  BY ExecConLista
<1>2. CASE PasoServidor /\ ~PasoAgenda(p)
  BY <1>1, <1>2, ExecServidor
<1>3. CASE \E q \in Pids \ {p} : Solicitud(q) \/ Recibir(q)
  BY <1>3, ExecAjeno
<1> QED
  BY <1>2, <1>3

LEMMA CoherenteAjeno ==
    ASSUME TypeOK, Lugares, Lugares', Vida, Mueve, ActualTipado,
           NEW p \in Pids, Coherente(p),
           fase'[p] = fase[p], actual'[p] = actual[p],
           \/ PasoServidor /\ ~PasoAgenda(p)
           \/ \E q \in Pids \ {p} : Solicitud(q) \/ Recibir(q)
    PROVE  Coherente(p)'
<1>1. UNCHANGED <<socket[p], agenda[p], respuesta[p]>>
  BY SitioServidor, SitioAjeno
<1>2. conexion'.paso = "contarNew" /\ conexion'.pid = p => conexion' = conexion
  BY SitioServidor, SitioAjeno
<1>3. EnCierre' # Nadie /\ EnCierre'.pid = p => EnCierre' = EnCierre
  <2>1. CASE PasoServidor /\ ~PasoAgenda(p)
    BY <2>1, SitioServidor
  <2>2. CASE conexion' = conexion
    BY <2>2 DEF EnCierre
  <2>3. EnCierre' # Nadie => conexion'.pid = EnCierre'.pid
    BY DEF Lugares, CierreQuieto
  <2> QED
    BY <2>1, <2>2, <2>3, SitioAjeno
<1>4. ASSUME NEW t \in Tids, transicion[[pid |-> p, tid |-> t]] = "Inexistente"
      PROVE  transicion'[[pid |-> p, tid |-> t]] = "Inexistente"
  <2>1. [pid |-> p, tid |-> t] \in Hilo
    BY DEF Hilo
  <2>2. ~Nace([pid |-> p, tid |-> t])
    BY <1>2 DEF Nace, EnSelect
  <2> QED
    BY <1>4, <2>1, <2>2, SoloNace
<1>5. CASE fase[p] \notin {"corre", "espera"}
  BY <1>1, <1>3, <1>4, <1>5 DEF Coherente
<1>6. CASE fase[p] \in {"corre", "espera"}
  <2>1. Vivo(p) /\ (EnCierre # Nadie => EnCierre.pid # p)
    BY <1>6 DEF Coherente, Vivo
  <2>2. exec[p] # Nadie => exec'[p] = exec[p]
    BY <2>1, ExecQuieto
  <2>3. respuesta'[p] # Ninguna =>
            /\ fase'[p] = "espera" /\ agenda'[p] = "no"
            /\ exec'[p] = [pid |-> p, tid |-> respuesta'[p]]
    <3>1. respuesta[p] # Ninguna => exec[p] \in Hilo
      BY DEF Coherente, Hilo, TypeOK
    <3> QED
      BY <1>1, <2>2, <3>1, SUSEAssumption DEF Coherente
  <2>4. ASSUME fase[p] = "corre"
        PROVE  exec'[p] = Actual(p)' \/ transicion'[Actual(p)'] \in {"New", "Ready"}
    <3>1. Actual(p)' = Actual(p) /\ Actual(p) \in Hilo /\ Actual(p).pid = p
      BY DEF Actual, Hilo, ActualTipado
    <3>2. CASE exec[p] = Actual(p)
      BY <2>2, <3>1, <3>2, SUSEAssumption
    <3>3. CASE transicion[Actual(p)] \in {"New", "Ready"}
      <4>1. CASE exec'[p] = exec[p]
        BY <3>1, <3>3, <4>1, EsperaSuTurno
      <4>2. CASE PasarNuevo /\ enMano \in Hilo /\ exec'[p] = enMano
        <5>1. transicion' = transicion \/ PasarAReady(enMano)
          BY <4>2 DEF PasarNuevo, Cae
        <5>2. enMano # Actual(p) => transicion'[Actual(p)] = transicion[Actual(p)]
          BY <3>1, <4>2, <5>1 DEF PasarAReady, TypeOK
        <5> QED
          BY <3>1, <3>3, <4>2, <5>2
      <4> QED
        BY <2>1, <4>1, <4>2, ExecQuieto
    <3> QED
      BY <2>4, <3>2, <3>3 DEF Coherente
  <2>5. EnCierre' # Nadie /\ EnCierre'.pid = p => fase'[p] \in {"cede", "sale"}
    BY <1>3 DEF Coherente
  <2> QED
    BY <1>1, <1>6, <2>3, <2>4, <2>5 DEF Coherente
<1> QED
  BY <1>5, <1>6

(* The schedule_next of p runs only while p waits for its answer.          *)
LEMMA CoherenteAgenda ==
    ASSUME TypeOK, Lugares, NEW p \in Pids, Coherente(p),
           fase'[p] = fase[p], actual'[p] = actual[p], PasoAgenda(p)
    PROVE  Coherente(p)'
<1>1. ASSUME NEW m, Cae(m)
      PROVE  UNCHANGED <<socket, conexion, agenda, respuesta, exec>>
  BY <1>1 DEF Cae, varsPrograma
<1>2. UNCHANGED <<socket, conexion>> /\ agenda[p] # "no"
  BY <1>1 DEF PasoAgenda, Recalcular, Replanificar, CalcularCae, Calcular,
     Desalojar, Continuar, DespacharSiguiente, Despachar, QuedarSinHilos,
     Marcar, TomarMutex, Retomar
<1>3. fase[p] \in {"espera", "cerro"} /\ respuesta[p] = Ninguna
  BY <1>2 DEF Coherente
<1>4. EnCierre' = EnCierre
  BY <1>2 DEF EnCierre
<1>5. ASSUME respuesta'[p] # respuesta[p]
      PROVE  /\ socket[p] = "conectado" /\ agenda'[p] = "no"
             /\ exec'[p] = [pid |-> p, tid |-> respuesta'[p]]
  <2>1. ASSUME NEW h \in Hilo, h.pid = p, Responder(p, h), exec'[p] = h,
               agenda' = [agenda EXCEPT ![p] = "no"]
        PROVE  /\ socket[p] = "conectado" /\ agenda'[p] = "no"
               /\ exec'[p] = [pid |-> p, tid |-> respuesta'[p]]
    <3>1. socket[p] = "conectado" /\ respuesta'[p] = h.tid /\ agenda'[p] = "no"
      BY <1>5, <2>1 DEF Responder, TypeOK
    <3> QED
      BY <2>1, <3>1, HiloIgual DEF Hilo
  <2>2. ready[p] # <<>> => Head(ready[p]) \in Hilo /\ Head(ready[p]).pid = p
    <3>1. ready[p] \in Seq(Hilo)
      BY DEF TypeOK
    <3> QED
      BY <3>1, RangoTail DEF Lugares, LugarReady
  <2>3. CASE Desalojar(p)
    BY <2>1, <2>2, <2>3 DEF Desalojar, EsMasCorto, TypeOK
  <2>4. CASE Continuar(p)
    <3>1. exec[p] \in Hilo /\ exec[p].pid = p
      BY <2>4 DEF Continuar, Lugares, LugarExec, TypeOK, HiloONadie
    <3> QED
      BY <2>1, <2>4, <3>1 DEF Continuar, varsPrograma
  <2>5. CASE Despachar(p)
    BY <2>1, <2>2, <2>5 DEF Despachar, TypeOK
  <2> QED
    BY <1>1, <1>5, <2>3, <2>4, <2>5 DEF PasoAgenda, Recalcular, Replanificar,
       CalcularCae, DespacharSiguiente, QuedarSinHilos, Marcar, TomarMutex,
       Retomar
<1>6. fase'[p] = "espera" \/ respuesta'[p] = Ninguna
  BY <1>3, <1>5 DEF Coherente
<1> QED
  BY <1>2, <1>3, <1>4, <1>5, <1>6 DEF Coherente

(* The steps of p itself.  A call that implies a yield ...                 *)
LEMMA CoherenteCede ==
    ASSUME NEW p \in Pids, Coherente(p), fase[p] = "corre",
           fase'[p] \in {"cede", "sale"},
           UNCHANGED <<socket, agenda, respuesta>>
    PROVE  Coherente(p)'
BY DEF Coherente

(* ... and the others.                                                     *)
LEMMA CoherentePrograma ==
    ASSUME TypeOK, ActualTipado, fase \in [Pids -> H!Fases],
           NEW p \in Pids, Coherente(p), Programa(p)
    PROVE  Coherente(p)'
<1>1. ASSUME NEW m, Cae(m) PROVE UNCHANGED <<socket, agenda, respuesta>>
  BY <1>1 DEF Cae
<1>2. CASE Conectar(p)
  <2>1. /\ fase[p] = "fuera" /\ fase'[p] = "conectado" /\ actual'[p] = actual[p]
        /\ socket'[p] = "conectado" /\ EnCierre' = Nadie
        /\ UNCHANGED <<agenda, respuesta, transicion>>
    BY <1>2 DEF Conectar, H!Conecta, H!Va, CrearPrograma, TypeOK, EnCierre,
       EnSelect
  <2> QED
    BY <2>1 DEF Coherente
<1>3. CASE SuseCreate(p)
  <2>1. PICK t \in Tids : CrearHilo(p, t)
    BY <1>3, LinuseAssumption DEF SuseCreate
  <2>2. /\ UNCHANGED <<socket, agenda, respuesta, exec, actual>>
        /\ EnCierre' = Nadie /\ fase'[p] = "corre"
        /\ fase[p] \in {"conectado", "corre"}
    BY <1>3, <2>1 DEF SuseCreate, CrearHilo, varsPrograma, EnCierre,
       H!CreaMain, H!Crea, H!Va
  <2>3. Actual(p)' = Actual(p) /\ Actual(p) \in Hilo
    BY <2>2 DEF Actual, Hilo, ActualTipado
  <2>4. CASE H!CreaMain(p) /\ CrearHilo(p, 0)
    <3>1. fase[p] = "conectado"
      BY <2>4 DEF H!CreaMain, H!Va
    <3>2. Actual(p) = [pid |-> p, tid |-> 0]
      BY <3>1 DEF Actual, Coherente
    <3>3. transicion'[Actual(p)] = "New"
      BY <2>3, <2>4, <3>2 DEF CrearHilo, TypeOK
    <3> QED
      BY <2>2, <2>3, <3>1, <3>3 DEF Coherente
  <2>5. CASE fase[p] = "corre"
    <3>1. transicion[Actual(p)] # "Inexistente" =>
              transicion'[Actual(p)] = transicion[Actual(p)]
      BY <2>1, <2>3 DEF CrearHilo, TypeOK
    <3>2. exec'[p] = Actual(p)' \/ transicion'[Actual(p)'] \in {"New", "Ready"}
      BY <2>2, <2>3, <2>5, <3>1 DEF Coherente
    <3>3. agenda[p] = "no" /\ respuesta[p] = Ninguna
      BY <2>5 DEF Coherente
    <3> QED
      BY <2>2, <2>5, <3>2, <3>3 DEF Coherente
  <2> QED
    BY <1>3, <2>4, <2>5 DEF SuseCreate, H!Crea
<1>4. CASE HilolayWait(p)
  <2>1. PICK s \in Sems : H!UsaSemaforo(p, actual[p]) /\ SuseWait(p, actual[p], s)
    BY <1>4 DEF HilolayWait
  <2>2. UNCHANGED <<socket, agenda, respuesta>>
    BY <1>1, <2>1 DEF SuseWait
  <2> QED
    BY <2>1, <2>2, CoherenteCede DEF H!UsaSemaforo, H!Va, H!Fases
<1>5. CASE HilolaySignal(p)
  <2>1. UNCHANGED <<socket, agenda, respuesta>>
    BY <1>1, <1>5 DEF HilolaySignal, SuseSignal, vars
  <2> QED
    BY <1>5, <2>1, CoherenteCede DEF HilolaySignal, H!UsaSemaforo, H!Va
<1>6. CASE HilolayJoin(p)
  <2>1. UNCHANGED <<socket, agenda, respuesta>>
    BY <1>1, <1>6 DEF HilolayJoin, RealizarJoin, vars
  <2> QED
    BY <1>6, <2>1, CoherenteCede DEF HilolayJoin, H!Espera, H!Va
<1>7. CASE SuseClose(p)
  <2>1. UNCHANGED <<socket, agenda, respuesta>>
    BY <1>1, <1>7 DEF SuseClose, RealizarClose, vars
  <2> QED
    BY <1>7, <2>1, CoherenteCede DEF SuseClose, H!Retorna, H!RetornaMain, H!Va
<1>8. CASE HilolayYield(p)
  <2>1. /\ fase[p] \in {"corre", "cede"} /\ fase'[p] = "espera"
        /\ UNCHANGED <<socket, respuesta>> /\ EnCierre' = Nadie
    BY <1>8 DEF HilolayYield, H!Cede, ScheduleNext, Solicita, EnServicio,
       EnCierre, EnSelect
  <2> QED
    BY <2>1 DEF Coherente
<1>9. CASE SwapContext(p)
  <2>1. PICK t \in Tids : respuesta[p] = t /\ H!Cambia(p, t) /\ Recibir(p)
    BY <1>9 DEF SwapContext
  <2>2. /\ fase[p] = "espera" /\ agenda[p] = "no"
        /\ exec[p] = [pid |-> p, tid |-> t]
    BY <2>1 DEF Recibir, Coherente
  <2>3. /\ UNCHANGED <<socket, agenda, exec>> /\ respuesta'[p] = Ninguna
        /\ EnCierre' = EnCierre
    BY <2>1 DEF Recibir, TypeOK, varsPrograma, EnCierre
  <2>4. \/ fase'[p] = "corre" /\ actual'[p] = t
        \/ fase'[p] = "sale"
    BY <2>1 DEF H!Cambia, ActualTipado
  <2>5. fase'[p] = "corre" => exec'[p] = Actual(p)'
    BY <2>2, <2>3, <2>4 DEF Actual
  <2> QED
    BY <2>2, <2>3, <2>4, <2>5 DEF Coherente
<1>10. CASE Terminar(p) \/ Matar(p)
  <2>1. Desconectar(p) /\ fase'[p] = "cerro"
    BY <1>10 DEF Terminar, Matar, H!Cierra, H!Muere, H!Va
  <2>2. socket'[p] = "cerrado" /\ respuesta'[p] = Ninguna /\ EnCierre' = Nadie
    BY <2>1 DEF Desconectar, TypeOK, EnCierre
  <2> QED
    BY <2>1, <2>2 DEF Coherente
<1> QED
  BY <1>2, <1>3, <1>4, <1>5, <1>6, <1>7, <1>8, <1>9, <1>10 DEF Programa

(* A program only writes its own variables of the library.                 *)
TipoFase == fase \in [Pids -> H!Fases]

LEMMA FasePropia ==
    ASSUME TipoFase, ActualTipado, NEW q \in Pids, Programa(q)
    PROVE  /\ TipoFase'
           /\ \A p \in Pids \ {q} : fase'[p] = fase[p] /\ actual'[p] = actual[p]
<1>1. \/ UNCHANGED fase
      \/ \E f \in H!Fases : fase' = [fase EXCEPT ![q] = f]
  BY DEF Programa, Conectar, SuseCreate, HilolayWait, HilolaySignal,
     HilolayJoin, SuseClose, HilolayYield, SwapContext, Terminar, Matar,
     H!Conecta, H!CreaMain, H!Crea, H!UsaSemaforo, H!Espera, H!Retorna,
     H!RetornaMain, H!Cede, H!Cambia, H!Cierra, H!Muere, H!Va, H!Fases
<1>2. UNCHANGED actual \/ \E t \in Tids : actual' = [actual EXCEPT ![q] = t]
  BY DEF Programa, Conectar, SuseCreate, HilolayWait, HilolaySignal,
     HilolayJoin, SuseClose, HilolayYield, SwapContext, Terminar, Matar,
     H!Conecta, H!CreaMain, H!Crea, H!UsaSemaforo, H!Espera, H!Retorna,
     H!RetornaMain, H!Cede, H!Cambia, H!Cierra, H!Muere, H!Va
<1> QED
  BY <1>1, <1>2 DEF TipoFase, ActualTipado

(* All that a program may rely on of the server and the library.           *)
Base == TypeOK /\ ColasNew /\ Lugares /\ Vida /\ ActualTipado /\ TipoFase

LEMMA CoherentesPaso ==
    ASSUME Base, Base', Coherentes, [Siguiente]_varsLinuse
    PROVE  Coherentes'
<1> SUFFICES ASSUME NEW p \in Pids PROVE Coherente(p)'
  BY DEF Coherentes
<1> USE DEF Base
<1>1. Coherente(p) /\ Mueve
  BY SiguienteEsNext, Movimiento DEF Coherentes
<1>2. CASE Sistema
  <2>1. fase'[p] = fase[p] /\ actual'[p] = actual[p]
    BY <1>2 DEF Sistema
  <2>2. CASE PasoAgenda(p)
    BY <1>1, <2>1, <2>2, CoherenteAgenda
  <2>3. CASE ~PasoAgenda(p)
    BY <1>1, <1>2, <2>1, <2>3, CoherenteAjeno DEF Sistema
  <2> QED
    BY <2>2, <2>3
<1>3. ASSUME NEW q \in Pids, Programa(q) PROVE Coherente(p)'
  <2>1. CASE q = p
    BY <1>1, <1>3, <2>1, CoherentePrograma DEF TipoFase
  <2>2. CASE q # p
    <3>1. fase'[p] = fase[p] /\ actual'[p] = actual[p]
      BY <1>3, <2>2, FasePropia
    <3>2. CASE UNCHANGED vars
      BY <1>1, <3>1, <3>2, CoherenteIgual
    <3>3. CASE Solicitud(q) \/ Recibir(q)
      BY <1>1, <2>2, <3>1, <3>3, CoherenteAjeno
    <3> QED
      BY <1>3, <3>2, <3>3, ProgramaEsSolicitud
  <2> QED
    BY <2>1, <2>2
<1>4. CASE UNCHANGED varsLinuse
  BY <1>1, <1>4, CoherenteIgual DEF varsLinuse
<1> QED
  BY <1>2, <1>3, <1>4 DEF Siguiente

LEMMA CoherentesInit == Inicio => Coherentes
<1> SUFFICES ASSUME Inicio, NEW p \in Pids PROVE Coherente(p)
  BY DEF Coherentes
<1>1. /\ socket[p] = "libre" /\ fase[p] = "fuera" /\ actual[p] = 0
      /\ agenda[p] = "no" /\ respuesta[p] = Ninguna /\ EnCierre = Nadie
      /\ \A h \in Hilo : transicion[h] = "Inexistente"
  BY DEF Inicio, Init, H!HilolayInit, EnCierre, EnSelect
<1> QED
  BY <1>1 DEF Coherente, Hilo

(* The invariants of the server hold under programs that use the library.  *)
LEMMA BaseSiempre == SpecLinuse => []Base
<1>1. Inicio => ActualTipado /\ TipoFase
  BY ActualInit DEF Inicio, H!HilolayInit, TipoFase, H!Fases
<1>2. ActualTipado /\ TipoFase /\ [Siguiente]_varsLinuse
      => ActualTipado' /\ TipoFase'
  BY ActualPaso, FasePropia DEF Siguiente, Sistema, varsLinuse, TipoFase
<1>3. SpecLinuse => [](ActualTipado /\ TipoFase)
  BY <1>1, <1>2, PTL DEF SpecLinuse
<1> QED
  BY <1>3, LinuseEsSUSE, TipoCorrecto, ColasNewSiempre, LugaresSiempre,
     VidaSiempre, PTL DEF Base

LEMMA CoherentesSiempre == SpecLinuse => []Coherentes
<1>1. Base /\ Base' /\ Coherentes /\ [Siguiente]_varsLinuse => Coherentes'
  BY CoherentesPaso
<1> QED
  BY <1>1, CoherentesInit, BaseSiempre, PTL DEF SpecLinuse

(* A hilo that the server blocked, or that ended, is not the one its       *)
(* program runs: for any programs that use the library, any of which may   *)
(* be killed at any time, and with the metrics timer on or off.            *)
THEOREM NoCorreBloqueado == SpecLinuse => []BloqueadoNoCorre
<1>1. Base /\ Coherentes => BloqueadoNoCorre
  <2> SUFFICES ASSUME Base, Coherentes, NEW p \in Pids, fase[p] = "corre"
               PROVE  transicion[Actual(p)] \notin {"Blocked", "Exit"}
    BY DEF BloqueadoNoCorre
  <2>1. Coherente(p)
    BY DEF Coherentes
  <2>2. Actual(p) \in Hilo /\ Actual(p).pid = p
    BY DEF Actual, Hilo, Base, ActualTipado
  <2>3. CASE exec[p] = Actual(p)
    <3>1. EnCierre # Actual(p)
      BY <2>1, <2>2, SUSEAssumption DEF Coherente
    <3>2. exec[p] # Nadie
      BY <2>2, <2>3, SUSEAssumption
    <3> QED
      BY <2>3, <3>1, <3>2 DEF Base, Lugares, LugarExec
  <2> QED
    BY <2>1, <2>3 DEF Coherente
<1> QED
  BY <1>1, BaseSiempre, CoherentesSiempre, PTL

-----------------------------------------------------------------------------
(* The program runs the hilo in exec.                                      *)

Principal(p) == [pid |-> p, tid |-> 0]

(* Main is before the other hilos of its program.                          *)
Encabeza(l, p) ==
    \E i \in DOMAIN l : /\ l[i] = Principal(p)
                        /\ \A j \in 1 .. i - 1 : l[j].pid # p

(* Without the timer the queue new is rotated by a close only, while       *)
(* nobody creates hilos, ...                                               *)
SoloCloseRota == metricas # "libre" => conexion.paso = "devolver" /\ new = <<>>

(* ... so the first hilo of a program to be admitted is its main.          *)
Arranco(p) == fase[p] \notin {"fuera", "conectado", "cerro"}

MainPrimero(p) ==
    Arranco(p) /\ p \notin listas =>
        \/ enMano = Principal(p)
        \/ /\ enMano = Nadie \/ enMano.pid # p
           /\ Encabeza(new, p) \/ Encabeza(colaAux, p)

CorreEnExec(p) ==
    /\ fase[p] \in {"fuera", "conectado"} => p \notin listas
    /\ fase[p] = "corre" => exec[p] = Actual(p) \/ (p \notin listas /\ actual[p] = 0)

EnOrden == SoloCloseRota /\ \A p \in Pids : MainPrimero(p) /\ CorreEnExec(p)

LEMMA EnSolicitud ==
    ASSUME NEW p \in Pids, Solicitud(p)
    PROVE  conexion = EnSelect
<1>1. CASE CrearPrograma(p) \/ ScheduleNext(p) \/ Desconectar(p)
  BY <1>1 DEF CrearPrograma, ScheduleNext, Desconectar, Solicita, EnServicio
<1>2. ASSUME NEW t \in Tids,
             CrearHilo(p, t) \/ RealizarJoin(p, t) \/ RealizarClose(p, t)
      PROVE  conexion = EnSelect
  BY <1>2 DEF CrearHilo, RealizarJoin, RealizarClose, Solicita, EnServicio
<1>3. ASSUME NEW s \in Sems,
             SuseSignal(p, s) \/ \E t \in Tids : SuseWait(p, t, s)
      PROVE  conexion = EnSelect
  BY <1>3 DEF SuseSignal, SuseWait, Solicita, EnServicio
<1> QED
  BY <1>1, <1>2, <1>3 DEF Solicitud

LEMMA SoloCloseRotaPaso ==
    ASSUME TimerMetricas = FALSE, SoloCloseRota, [Next]_vars
    PROVE  SoloCloseRota'
<1>1. ASSUME NEW m, Cae(m) PROVE UNCHANGED <<new, metricas, conexion>>
  BY <1>1 DEF Cae, varsNew
<1>2. CASE UNCHANGED <<new, metricas, conexion>>
  BY <1>2 DEF SoloCloseRota
<1>3. CASE metricas = "libre" /\ UNCHANGED metricas
  BY <1>3 DEF SoloCloseRota
<1>4. CASE PasoConexion
  <2>1. CASE ContarNew \/ Despertar \/ Desmarcar \/ Descontar \/ SoltarExec
    BY <2>1, <1>3 DEF ContarNew, Despertar, Desmarcar, Descontar, SoltarExec,
       SoloCloseRota, varsNew
  <2>2. CASE Liberar \/ LimpiarReady \/ LimpiarPrograma
    BY <2>2, <1>3 DEF Liberar, LimpiarReady, LimpiarPrograma, SoloCloseRota,
       varsNew
  <2>3. CASE MetricasClose
    <3>1. CASE conexion' = [conexion EXCEPT !.paso = "devolver"] /\ Vaciar
      BY <3>1 DEF Vaciar, SoloCloseRota
    <3> QED
      BY <1>1, <1>2, <2>3, <3>1 DEF MetricasClose
  <2>4. CASE DevolverClose
    BY <2>4 DEF DevolverClose, Devolver, SoloCloseRota
  <2> QED
    BY <1>4, <2>1, <2>2, <2>3, <2>4 DEF PasoConexion
<1>5. CASE PasoPlanificador
  BY <1>1, <1>2, <1>5 DEF PasoPlanificador, TomarNuevo, Admitir, PasarNuevo,
     SoloCloseRota, varsNew
<1>6. CASE MetricasTimer \/ DevolverTimer
  BY <1>6 DEF MetricasTimer, DevolverTimer, Devolver, SoloCloseRota
<1>7. ASSUME NEW p \in Pids, PasoAgenda(p)
      PROVE  UNCHANGED <<new, metricas, conexion>>
  BY <1>1, <1>7 DEF PasoAgenda, Recalcular, Replanificar, CalcularCae,
     Desalojar, Continuar, DespacharSiguiente, Despachar, QuedarSinHilos,
     Marcar, TomarMutex, Retomar, varsNew
<1>8. ASSUME NEW p \in Pids, Solicitud(p) PROVE UNCHANGED metricas
  <2>1. CASE CrearPrograma(p) \/ ScheduleNext(p) \/ Desconectar(p)
    BY <2>1 DEF CrearPrograma, ScheduleNext, Desconectar, varsNew
  <2>2. ASSUME NEW t \in Tids,
               CrearHilo(p, t) \/ RealizarJoin(p, t) \/ RealizarClose(p, t)
        PROVE  UNCHANGED metricas
    BY <1>1, <2>2 DEF CrearHilo, RealizarJoin, RealizarClose, varsNew
  <2>3. ASSUME NEW t \in Tids, NEW s \in Sems, SuseWait(p, t, s)
        PROVE  UNCHANGED metricas
    BY <1>1, <2>3 DEF SuseWait, varsNew
  <2>4. ASSUME NEW s \in Sems, SuseSignal(p, s) PROVE UNCHANGED metricas
    BY <1>1, <2>4 DEF SuseSignal, varsNew
  <2> QED
    BY <1>8, <2>1, <2>2, <2>3, <2>4 DEF Solicitud
<1>9. ASSUME NEW p \in Pids, Solicitud(p) PROVE metricas = "libre"
  <2>1. conexion = EnSelect
    BY <1>9, EnSolicitud
  <2> QED
    BY <2>1 DEF EnSelect, SoloCloseRota
<1>10. CASE (\E p \in Pids : Recibir(p)) \/ UNCHANGED vars
  BY <1>2, <1>10 DEF Recibir, vars, varsNew
<1> QED
  BY <1>2, <1>3, <1>4, <1>5, <1>6, <1>7, <1>8, <1>9, <1>10 DEF Next, PasoServidor

LEMMA EncabezaAppend ==
    ASSUME NEW l \in Seq(Hilo), NEW h \in Hilo, NEW p, Encabeza(l, p)
    PROVE  Encabeza(Append(l, h), p)
<1>1. PICK i \in DOMAIN l : /\ l[i] = Principal(p)
                            /\ \A j \in 1 .. i - 1 : l[j].pid # p
  BY DEF Encabeza
<1>2. /\ Len(l) \in Nat /\ DOMAIN l = 1 .. Len(l)
      /\ DOMAIN Append(l, h) = 1 .. Len(l) + 1
      /\ \A j \in 1 .. Len(l) : Append(l, h)[j] = l[j]
  BY LenProperties, AppendProperties
<1>3. i \in DOMAIN Append(l, h) /\ \A j \in 1 .. i : Append(l, h)[j] = l[j]
  BY <1>1, <1>2
<1>4. Append(l, h)[i] = Principal(p) /\ \A j \in 1 .. i - 1 : Append(l, h)[j].pid # p
  BY <1>1, <1>2, <1>3
<1> QED
  BY <1>3, <1>4 DEF Encabeza

LEMMA EncabezaTail ==
    ASSUME NEW l \in Seq(Hilo), l # <<>>, NEW p, Encabeza(l, p)
    PROVE  Head(l) = Principal(p) \/ (Head(l).pid # p /\ Encabeza(Tail(l), p))
<1>1. PICK i \in DOMAIN l : /\ l[i] = Principal(p)
                            /\ \A j \in 1 .. i - 1 : l[j].pid # p
  BY DEF Encabeza
<1>2. /\ Len(l) \in Nat \ {0} /\ DOMAIN l = 1 .. Len(l) /\ Head(l) = l[1]
      /\ DOMAIN Tail(l) = 1 .. Len(l) - 1
      /\ \A j \in 1 .. Len(l) - 1 : Tail(l)[j] = l[j + 1]
  BY LenProperties, HeadTailProperties, EmptySeq
<1>3. CASE i = 1
  BY <1>1, <1>2, <1>3
<1>4. CASE i # 1
  <2>1. Head(l).pid # p
    BY <1>1, <1>2, <1>4
  <2>2. i - 1 \in DOMAIN Tail(l) /\ Tail(l)[i - 1] = Principal(p)
    BY <1>1, <1>2, <1>4
  <2>3. \A j \in 1 .. (i - 1) - 1 : Tail(l)[j].pid # p
    <3> TAKE j \in 1 .. (i - 1) - 1
    <3>1. j + 1 \in 1 .. i - 1 /\ j \in 1 .. Len(l) - 1
      BY <1>1, <1>2
    <3> QED
      BY <1>1, <1>2, <3>1
  <2> QED
    BY <2>1, <2>2, <2>3 DEF Encabeza
<1> QED
  BY <1>3, <1>4

LEMMA EncabezaNuevo ==
    ASSUME NEW l \in Seq(Hilo), NEW p \in Pids,
           \A h \in Range(l) : h.pid # p
    PROVE  Encabeza(Append(l, Principal(p)), p)
<1>1. Principal(p) \in Hilo
  BY LinuseAssumption DEF Principal, Hilo
<1>2. /\ Len(l) \in Nat /\ DOMAIN l = 1 .. Len(l)
      /\ DOMAIN Append(l, Principal(p)) = 1 .. Len(l) + 1
      /\ Append(l, Principal(p))[Len(l) + 1] = Principal(p)
      /\ \A j \in 1 .. Len(l) : Append(l, Principal(p))[j] = l[j]
  BY <1>1, LenProperties, AppendProperties
<1>3. \A j \in 1 .. Len(l) : Append(l, Principal(p))[j].pid # p
  BY <1>2 DEF Range
<1>4. (Len(l) + 1) - 1 = Len(l) /\ Len(l) + 1 \in 1 .. Len(l) + 1
  BY <1>2
<1> QED
  BY <1>2, <1>3, <1>4 DEF Encabeza

(* hilolay_init creates main.                                              *)
LEMMA ArrancaConMain ==
    ASSUME TipoFase, ActualTipado, [Siguiente]_varsLinuse, NEW p \in Pids,
           Arranco(p)'
    PROVE  \/ Arranco(p)
           \/ fase[p] = "conectado" /\ CrearHilo(p, 0)
<1>1. ASSUME NEW q \in Pids, Programa(q), q # p PROVE Arranco(p)
  BY <1>1, FasePropia DEF Arranco
<1>2. CASE Programa(p)
  BY <1>2 DEF Programa, Conectar, SuseCreate, HilolayWait, HilolaySignal,
     HilolayJoin, SuseClose, HilolayYield, SwapContext, Terminar, Matar,
     H!Conecta, H!CreaMain, H!Crea, H!UsaSemaforo, H!Espera, H!Retorna,
     H!RetornaMain, H!Cede, H!Cambia, H!Cierra, H!Muere, H!Va, TipoFase,
     Arranco
<1>3. CASE Sistema \/ UNCHANGED varsLinuse
  BY <1>3 DEF Sistema, varsLinuse, Arranco
<1> QED
  BY <1>1, <1>2, <1>3 DEF Siguiente

LEMMA MainPrimeroPaso ==
    ASSUME Base, Base', Coherentes, Coherentes', SoloCloseRota,
           [Siguiente]_varsLinuse, NEW p \in Pids, MainPrimero(p)
    PROVE  MainPrimero(p)'
<1> SUFFICES ASSUME Arranco(p)', p \notin listas'
             PROVE  \/ enMano' = Principal(p)
                    \/ /\ enMano' = Nadie \/ enMano'.pid # p
                       /\ Encabeza(new', p) \/ Encabeza(colaAux', p)
  BY DEF MainPrimero, Encabeza, Principal
<1> USE DEF Base
<1>1. Coherente(p) /\ Coherente(p)' /\ Mueve /\ [Next]_vars
  BY SiguienteEsNext, Movimiento DEF Coherentes
<1>2. p \notin listas
  <2>1. Vivo(p)'
    BY <1>1 DEF Coherente, Vivo, Arranco
  <2> QED
    BY <1>1, <2>1, ListasSiguen DEF Vida
<1>t. new \in Seq(Hilo) /\ colaAux \in Seq(Hilo) /\ enMano \in HiloONadie
  BY DEF TypeOK
<1>3. CASE fase[p] = "conectado" /\ CrearHilo(p, 0)
  <2>1. new' = Append(new, Principal(p)) /\ enMano' = enMano
    BY <1>3 DEF CrearHilo, Principal, varsPlanif
  <2>2. ASSUME NEW h \in Hilo, h.pid = p PROVE transicion[h] = "Inexistente"
    BY <1>1, <1>3, <2>2 DEF Coherente, Hilo
  <2>3. \A h \in Range(new) : h.pid # p
    <3>1. Range(new) \subseteq Hilo
      BY EsperanTipo DEF EsperaAdmision
    <3> QED
      BY <2>2, <3>1 DEF Lugares, LugarNew, EsperaAdmision
  <2>4. enMano = Nadie \/ enMano.pid # p
    BY SMTT(60), <1>t, <2>2 DEF Lugares, LugarNew, EsperaAdmision, HiloONadie
  <2> QED
    BY <1>t, <2>1, <2>3, <2>4, EncabezaNuevo
<1>4. CASE Arranco(p)
  <2>1. \/ enMano = Principal(p)
        \/ /\ enMano = Nadie \/ enMano.pid # p
           /\ Encabeza(new, p) \/ Encabeza(colaAux, p)
    BY <1>2, <1>4 DEF MainPrimero
  <2>2. CASE UNCHANGED <<new, colaAux, enMano>>
    BY <2>1, <2>2
  <2>3. ASSUME NEW h \in Hilo, Nace(h)
        PROVE  \/ enMano' = Principal(p)
               \/ /\ enMano' = Nadie \/ enMano'.pid # p
                  /\ Encabeza(new', p) \/ Encabeza(colaAux', p)
    BY <1>t, <2>1, <2>3, EncabezaAppend DEF Nace
  <2>4. CASE Rota
    <3>1. enMano' = enMano
      BY <2>4 DEF Rota
    <3>2. colaAux = <<>> \/ new = <<>>
      BY DEF ColasNew, SoloCloseRota
    <3>3. \A l \in Seq(Hilo) : l \o <<>> = l /\ <<>> \o l = l
      OBVIOUS
    <3>4. \/ new' = new /\ colaAux = <<>>
          \/ new' = colaAux /\ new = <<>>
          \/ colaAux' = new /\ colaAux = <<>>
      BY <1>t, <2>4, <3>2, <3>3 DEF Rota
    <3>5. ~Encabeza(<<>>, p)
      BY DEF Encabeza
    <3>6. Encabeza(new, p) \/ Encabeza(colaAux, p)
          => Encabeza(new', p) \/ Encabeza(colaAux', p)
      BY <3>4, <3>5, Zenon
    <3> QED
      BY <2>1, <3>1, <3>6
  <2>5. CASE Toma
    <3>1. new # <<>> /\ enMano = Nadie /\ enMano' = Head(new) /\ new' = Tail(new)
      BY <2>5 DEF Toma
    <3>2. Principal(p) # Nadie
      BY SUSEAssumption, LinuseAssumption DEF Principal, Hilo
    <3>3. colaAux = <<>>
      BY <3>1 DEF ColasNew, SoloCloseRota
    <3>4. Encabeza(new, p)
      BY <2>1, <3>1, <3>2, <3>3 DEF Encabeza
    <3> QED
      BY <1>t, <3>1, <3>4, EncabezaTail
  <2>6. CASE Entra
    <3>1. Llega(enMano, "New") /\ enMano' = Nadie /\ UNCHANGED <<new, colaAux>>
      BY <2>6 DEF Entra
    <3>2. enMano.pid # p
      BY <3>1 DEF Llega
    <3> QED
      BY <2>1, <3>1, <3>2 DEF Principal
  <2> QED
    BY <1>1, <2>2, <2>3, <2>4, <2>5, <2>6 DEF Mueve, Quieto, Despierta, Libera,
       Bloquea, Cierra, Suelta, LimpiaListas, BorraListas, Ordena, Desaloja,
       Despacha
<1> QED
  BY <1>3, <1>4, ArrancaConMain

(* Only planificarReady makes the list of a program that is alive.         *)
LEMMA ListasGana ==
    ASSUME Base, [Next]_vars, NEW p \in Pids, Vivo(p),
           p \notin listas, p \in listas'
    PROVE  Entra /\ enMano \in Hilo /\ enMano.pid = p /\ exec'[p] = enMano
<1> USE DEF Base
<1>1. Mueve
  BY Movimiento
<1>2. PICK h \in Hilo : PasarAReady(h)
  BY ExecCambiaPaso DEF ExecCambia, SoltarExec, LimpiarReady, LimpiarPrograma,
     Desalojar, Despachar, varsReady
<1>3. h.pid = p /\ transicion'[h] = "Execute" /\ exec'[p] = h
  BY <1>2 DEF PasarAReady, TypeOK
<1>4. transicion[h] \in {"Inexistente", "New"}
  BY <1>3 DEF Vida, ListaDeVivos
<1> QED
  BY <1>1, <1>3, <1>4, SaleDeNew

(* How a program comes to run, or goes on.                                 *)
LEMMA ComoCorre ==
    ASSUME Base, Coherentes, [Siguiente]_varsLinuse, NEW p \in Pids
    PROVE  /\ fase'[p] \in {"fuera", "conectado"} =>
                  fase[p] \in {"fuera", "conectado"}
           /\ fase'[p] = "corre" =>
                  \/ exec'[p] = Actual(p)'
                  \/ /\ fase[p] = "conectado" /\ actual'[p] = 0
                     /\ UNCHANGED listas
                  \/ /\ fase[p] = "corre" /\ actual'[p] = actual[p]
                     /\ \/ UNCHANGED <<exec, listas>>
                        \/ PasoServidor /\ ~PasoAgenda(p)
                        \/ \E q \in Pids \ {p} : Solicitud(q) \/ Recibir(q)
<1> USE DEF Base
<1>1. Coherente(p)
  BY DEF Coherentes
<1>2. CASE Sistema
  <2>1. fase'[p] = fase[p] /\ actual'[p] = actual[p] /\ PasoServidor
    BY <1>2 DEF Sistema
  <2>2. PasoAgenda(p) => agenda[p] # "no"
    BY DEF PasoAgenda, Recalcular, Replanificar, CalcularCae, Calcular,
       Desalojar, Continuar, DespacharSiguiente, Despachar, QuedarSinHilos,
       Marcar, TomarMutex, Retomar
  <2> QED
    BY <1>1, <2>1, <2>2 DEF Coherente
<1>3. ASSUME NEW q \in Pids \ {p}, Programa(q)
      PROVE  /\ fase'[p] = fase[p] /\ actual'[p] = actual[p]
             /\ \/ UNCHANGED <<exec, listas>>
                \/ Solicitud(q) \/ Recibir(q)
  <2>1. fase'[p] = fase[p] /\ actual'[p] = actual[p]
    BY <1>3, FasePropia
  <2> QED
    BY <1>3, <2>1, ProgramaEsSolicitud DEF vars, varsPrograma, varsReady
<1>4. CASE Programa(p)
  <2>1. CASE SuseCreate(p)
    <3>1. UNCHANGED <<exec, listas, actual>> /\ fase'[p] = "corre"
          /\ fase[p] \in {"conectado", "corre"}
      BY <2>1 DEF SuseCreate, CrearHilo, varsPrograma, varsReady, H!CreaMain,
         H!Crea, H!Va, TipoFase
    <3> QED
      BY <1>1, <3>1 DEF Coherente
  <2>2. CASE SwapContext(p)
    <3>1. PICK t \in Tids : respuesta[p] = t /\ H!Cambia(p, t) /\ Recibir(p)
      BY <2>2 DEF SwapContext
    <3>2. fase[p] = "espera" /\ exec'[p] = [pid |-> p, tid |-> t]
      BY <1>1, <3>1 DEF Recibir, Coherente, varsPrograma
    <3>3. \/ fase'[p] = "corre" /\ actual'[p] = t
          \/ fase'[p] = "sale"
      BY <3>1 DEF H!Cambia, ActualTipado, TipoFase
    <3> QED
      BY <3>2, <3>3 DEF Actual
  <2>3. CASE ~SuseCreate(p) /\ ~SwapContext(p)
    <3>1. /\ fase'[p] # "corre"
          /\ fase'[p] \in {"fuera", "conectado"} => fase[p] = "fuera"
      BY <1>4, <2>3 DEF Programa, Conectar, HilolayWait, HilolaySignal,
         HilolayJoin, SuseClose, HilolayYield, Terminar, Matar, H!Conecta,
         H!UsaSemaforo, H!Espera, H!Retorna, H!RetornaMain, H!Cede, H!Cierra,
         H!Muere, H!Va, TipoFase
    <3> QED
      BY <3>1
  <2> QED
    BY <2>1, <2>2, <2>3
<1>5. CASE UNCHANGED varsLinuse
  BY <1>5 DEF varsLinuse, vars, varsPrograma, varsReady
<1> QED
  BY <1>2, <1>3, <1>4, <1>5 DEF Siguiente

LEMMA CorreEnExecPaso ==
    ASSUME Base, Coherentes, [Siguiente]_varsLinuse, NEW p \in Pids,
           MainPrimero(p), CorreEnExec(p)
    PROVE  CorreEnExec(p)'
<1> USE DEF Base
<1>1. Coherente(p) /\ [Next]_vars
  BY SiguienteEsNext DEF Coherentes
<1>2. ASSUME fase[p] # "cerro", p \notin listas, p \in listas'
      PROVE  /\ transicion[enMano] = "New" /\ enMano \in Hilo /\ enMano.pid = p
             /\ exec'[p] = enMano
  <2>1. Vivo(p)
    BY <1>1, <1>2 DEF Coherente, Vivo
  <2> QED
    BY <1>1, <1>2, <2>1, ListasGana DEF Entra, Llega, Cambia
<1>3. ASSUME fase'[p] \in {"fuera", "conectado"} PROVE p \notin listas'
  <2>1. fase[p] \in {"fuera", "conectado"} /\ p \notin listas
    BY <1>3, ComoCorre DEF CorreEnExec
  <2>2. \A h \in Hilo : h.pid = p => transicion[h] = "Inexistente"
    BY <1>1, <2>1 DEF Coherente, Hilo
  <2> QED
    BY <1>2, <2>1, <2>2
<1>4. ASSUME fase'[p] = "corre"
      PROVE  exec'[p] = Actual(p)' \/ (p \notin listas' /\ actual'[p] = 0)
  <2>1. CASE exec'[p] = Actual(p)'
    BY <2>1
  <2>2. CASE fase[p] = "conectado" /\ actual'[p] = 0 /\ UNCHANGED listas
    BY <2>2 DEF CorreEnExec
  <2>3. CASE /\ fase[p] = "corre" /\ actual'[p] = actual[p]
             /\ \/ UNCHANGED <<exec, listas>>
                \/ PasoServidor /\ ~PasoAgenda(p)
                \/ \E q \in Pids \ {p} : Solicitud(q) \/ Recibir(q)
    <3>1. Actual(p)' = Actual(p) /\ Actual(p) \in Hilo
      BY <2>3 DEF Actual, Hilo, ActualTipado
    <3>2. exec[p] = Actual(p) \/ (p \notin listas /\ actual[p] = 0)
      BY <2>3 DEF CorreEnExec
    <3>3. CASE UNCHANGED <<exec, listas>>
      BY <2>3, <3>1, <3>2, <3>3
    <3>4. CASE ~UNCHANGED <<exec, listas>>
      <4>1. Vivo(p) /\ (EnCierre # Nadie => EnCierre.pid # p)
        BY <1>1, <2>3 DEF Coherente, Vivo
      <4>2. \/ exec'[p] = exec[p]
            \/ /\ enMano \in Hilo /\ enMano.pid = p /\ exec'[p] = enMano
               /\ p \notin listas /\ exec[p] = Nadie
        BY <2>3, <3>4, <4>1, ExecQuieto
      <4>3. ASSUME enMano \in Hilo, enMano.pid = p, exec'[p] = enMano,
                   p \notin listas, actual[p] = 0
            PROVE  exec'[p] = Actual(p)
        <5>1. enMano = Principal(p)
          BY <2>3, <4>3, SUSEAssumption DEF MainPrimero, Arranco
        <5> QED
          BY <4>3, <5>1 DEF Principal, Actual
      <4>4. Actual(p) # Nadie
        BY <3>1, SUSEAssumption
      <4>5. CASE exec[p] = Actual(p)
        BY <3>1, <4>2, <4>4, <4>5
      <4>6. CASE p \notin listas /\ actual[p] = 0
        <5>1. CASE p \in listas'
          BY <1>2, <2>3, <3>1, <4>3, <4>6, <5>1
        <5>2. CASE p \notin listas'
          BY <2>3, <4>6, <5>2
        <5> QED
          BY <5>1, <5>2
      <4> QED
        BY <3>2, <4>5, <4>6
    <3> QED
      BY <3>3, <3>4
  <2> QED
    BY <1>4, <2>1, <2>2, <2>3, ComoCorre
<1> QED
  BY <1>3, <1>4 DEF CorreEnExec

LEMMA EnOrdenSiempre == TimerMetricas = FALSE /\ SpecLinuse => []EnOrden
<1>1. Inicio => EnOrden
  BY DEF Inicio, Init, H!HilolayInit, EnOrden, SoloCloseRota, MainPrimero,
     CorreEnExec, Arranco
<1>2. TimerMetricas = FALSE /\ Base /\ Base' /\ Coherentes /\ Coherentes'
      /\ EnOrden /\ [Siguiente]_varsLinuse => EnOrden'
  <2> SUFFICES ASSUME TimerMetricas = FALSE, Base, Base', Coherentes,
                      Coherentes', EnOrden, [Siguiente]_varsLinuse
               PROVE  EnOrden'
    OBVIOUS
  <2>1. SoloCloseRota'
    BY SoloCloseRotaPaso, SiguienteEsNext DEF EnOrden, Base
  <2>2. ASSUME NEW p \in Pids PROVE MainPrimero(p)' /\ CorreEnExec(p)'
    BY MainPrimeroPaso, CorreEnExecPaso DEF EnOrden
  <2> QED
    BY <2>1, <2>2 DEF EnOrden
<1>3. CASE TimerMetricas = FALSE
  <2>1. Base /\ Base' /\ Coherentes /\ Coherentes'
        /\ EnOrden /\ [Siguiente]_varsLinuse => EnOrden'
    BY <1>2, <1>3
  <2>2. SpecLinuse => []EnOrden
    BY <1>1, <2>1, BaseSiempre, CoherentesSiempre, PTL DEF SpecLinuse
  <2> QED
    BY <2>2
<1> QED
  BY <1>3

(* Without the metrics timer, the hilo that a program runs is the one that *)
(* SUSE has in exec for it, from the moment planificarReady admits main.   *)
THEOREM AcuerdoSiempre == TimerMetricas = FALSE /\ SpecLinuse => []AcuerdoEnExec
<1>1. Base /\ Coherentes /\ EnOrden => AcuerdoEnExec
  <2> SUFFICES ASSUME Base, Coherentes, EnOrden, NEW p \in Pids,
                      fase[p] = "corre", exec[p] # Nadie
               PROVE  exec[p] = Actual(p)
    BY DEF AcuerdoEnExec
  <2>1. Vivo(p)
    BY DEF Coherentes, Coherente, Vivo
  <2>2. p \in listas
    BY <2>1, ExecConLista DEF Base
  <2> QED
    BY <2>2 DEF EnOrden, CorreEnExec
<1>2. CASE TimerMetricas = FALSE
  <2>1. SpecLinuse => []EnOrden
    BY <1>2, EnOrdenSiempre
  <2>2. SpecLinuse => []AcuerdoEnExec
    BY <1>1, <2>1, BaseSiempre, CoherentesSiempre, PTL
  <2> QED
    BY <2>2
<1> QED
  BY <1>2

-----------------------------------------------------------------------------
(* How the server dies.                                                    *)

(* Who writes the list of programs, and when planificarReady has taken.    *)
LEMMA QuienEscribe ==
    ASSUME [Next]_vars
    PROVE  /\ \/ UNCHANGED programas \/ LimpiarPrograma
              \/ \E p \in Pids : CrearPrograma(p)
           /\ UNCHANGED varsPlanif \/ TomarNuevo \/ planificador' # "tomado"
<1> DEFINE Bien == UNCHANGED <<programas, planificador, enMano>>
<1>0. SUFFICES \/ Bien \/ PasarNuevo \/ (UNCHANGED programas /\ Admitir)
               \/ (UNCHANGED programas /\ TomarNuevo)
               \/ (UNCHANGED varsPlanif /\ LimpiarPrograma)
               \/ \E p \in Pids : UNCHANGED varsPlanif /\ CrearPrograma(p)
  BY DEF Admitir, PasarNuevo, varsPlanif, Cae
<1>1. ASSUME NEW m, Cae(m) PROVE Bien
  BY <1>1 DEF Cae, varsPlanif
<1>2. CASE PasoConexion
  <2>1. CASE ContarNew \/ Despertar \/ Desmarcar \/ Descontar \/ SoltarExec
    BY <2>1 DEF ContarNew, Despertar, Desmarcar, Descontar, SoltarExec, varsPlanif
  <2>2. CASE MetricasClose \/ DevolverClose \/ Liberar \/ LimpiarReady
    BY <1>1, <2>2 DEF MetricasClose, DevolverClose, Liberar, LimpiarReady,
       varsPlanif
  <2>3. CASE LimpiarPrograma
    BY <2>3 DEF LimpiarPrograma
  <2> QED
    BY <1>2, <2>1, <2>2, <2>3 DEF PasoConexion
<1>3. CASE PasoPlanificador
  BY <1>3 DEF PasoPlanificador, TomarNuevo, Admitir, Cae
<1>4. CASE MetricasTimer \/ DevolverTimer
  BY <1>1, <1>4 DEF MetricasTimer, DevolverTimer, varsPlanif
<1>5. ASSUME NEW p \in Pids, PasoAgenda(p) PROVE Bien
  BY <1>1, <1>5 DEF PasoAgenda, Recalcular, Replanificar, CalcularCae,
     Desalojar, Continuar, DespacharSiguiente, Despachar, QuedarSinHilos,
     Marcar, TomarMutex, Retomar, varsPlanif
<1>6. ASSUME NEW p \in Pids, Solicitud(p)
      PROVE  Bien \/ (UNCHANGED varsPlanif /\ CrearPrograma(p))
  <2>1. CASE CrearPrograma(p) \/ ScheduleNext(p) \/ Desconectar(p)
    BY <2>1 DEF CrearPrograma, ScheduleNext, Desconectar, varsPlanif
  <2>2. ASSUME NEW t \in Tids,
               CrearHilo(p, t) \/ RealizarJoin(p, t) \/ RealizarClose(p, t)
        PROVE  Bien
    BY <1>1, <2>2 DEF CrearHilo, RealizarJoin, RealizarClose, varsPlanif
  <2>3. ASSUME NEW t \in Tids, NEW s \in Sems, SuseWait(p, t, s) PROVE Bien
    BY <1>1, <2>3 DEF SuseWait, varsPlanif
  <2>4. ASSUME NEW s \in Sems, SuseSignal(p, s) PROVE Bien
    BY <1>1, <2>4 DEF SuseSignal, varsPlanif
  <2> QED
    BY <1>6, <2>1, <2>2, <2>3, <2>4 DEF Solicitud
<1>7. CASE (\E p \in Pids : Recibir(p)) \/ UNCHANGED vars
  BY <1>7 DEF Recibir, vars, varsPlanif
<1> QED
  BY <1>2, <1>3, <1>4, <1>5, <1>6, <1>7 DEF Next, PasoServidor

(* A program that connected is in the list of programs until it            *)
(* disconnects.                                                            *)
Registrados == \A p \in Pids : socket[p] = "conectado" => p \in programas

LEMMA RegistradosPaso ==
    ASSUME TypeOK, LimpiezaAlFinal, Registrados, [Next]_vars
    PROVE  Registrados'
<1> SUFFICES ASSUME NEW p \in Pids, socket'[p] = "conectado"
             PROVE  p \in programas'
  BY DEF Registrados
<1>1. CASE UNCHANGED programas
  <2>1. CASE socket' = socket
    BY <1>1, <2>1 DEF Registrados
  <2>2. ASSUME NEW q \in Pids, CrearPrograma(q) \/ Desconectar(q)
        PROVE  p \in programas'
    BY <1>1, <2>2 DEF CrearPrograma, Desconectar, Registrados, TypeOK
  <2> QED
    BY <2>1, <2>2, SocketCambia
<1>2. ASSUME NEW q \in Pids, CrearPrograma(q) PROVE p \in programas'
  BY <1>2 DEF CrearPrograma, Registrados, TypeOK
<1>3. CASE LimpiarPrograma
  BY <1>3 DEF LimpiarPrograma, Registrados, LimpiezaAlFinal, Vivo
<1> QED
  BY <1>1, <1>2, <1>3, QuienEscribe

(* planificarReady finds new empty only after a close.                     *)
HuboCierre == \E p \in Pids : exit[p] # {} \/ socket[p] = "cerrado"

NuevoVacio == planificador = "tomado" /\ enMano = Nadie => HuboCierre

LEMMA HuboCierreSigue ==
    ASSUME Base, [Next]_vars, HuboCierre
    PROVE  HuboCierre'
<1> USE DEF Base
<1>1. PICK p \in Pids : exit[p] # {} \/ socket[p] = "cerrado"
  BY DEF HuboCierre
<1>2. socket[p] = "cerrado" => socket'[p] = "cerrado"
  BY VivoSigue DEF Vivo
<1>3. ASSUME exit[p] # {}, socket[p] # "cerrado" PROVE exit'[p] # {}
  <2>1. PICK h \in exit[p] : h \in Hilo /\ h.pid = p
    BY <1>3 DEF TypeOK, Lugares, LugarExit
  <2> QED
    BY <1>3, <2>1, Movimiento, SigueExit, VivoSinLimpieza DEF Vida, Vivo
<1> QED
  BY <1>1, <1>2, <1>3 DEF HuboCierre

LEMMA NuevoVacioPaso ==
    ASSUME Base, Base', Hallados, SoloCloseRota, NuevoVacio, [Next]_vars
    PROVE  NuevoVacio'
<1> SUFFICES ASSUME planificador' = "tomado", enMano' = Nadie
             PROVE  HuboCierre
  BY HuboCierreSigue DEF NuevoVacio
<1>1. CASE planificador = "tomado" /\ enMano = Nadie
  BY <1>1 DEF NuevoVacio
<1>2. CASE TomarNuevo /\ new = <<>>
  <2>1. Len(colaAux) # 0
    BY <1>2, LenVacia DEF TomarNuevo, Base, TypeOK, ColasNew, HayNuevosCuenta
  <2>2. metricas # "libre"
    BY <2>1, LenVacia DEF Base, ColasNew
  <2>3. EnCierre = conexion.hilo /\ conexion.hilo \in Hilo
    BY <2>2 DEF SoloCloseRota, EnCierre, Base, TypeOK, ConexionEnCurso
  <2>4. EnCierre.pid \in Pids /\ EnCierre # Nadie
    BY <2>3, SUSEAssumption DEF Hilo
  <2>5. EnCierre \in exit[EnCierre.pid]
    BY <2>3, <2>4 DEF Base, Lugares, CierreQuieto, Vida, CierreEnExec,
       Hallados, Hallado, Vivo
  <2> QED
    BY <2>4, <2>5 DEF HuboCierre
<1>3. CASE TomarNuevo /\ new # <<>>
  <2>1. enMano' \in Hilo
    BY <1>3, RangoTail DEF TomarNuevo, Base, TypeOK
  <2> QED
    BY <2>1, SUSEAssumption
<1> QED
  BY <1>1, <1>2, <1>3, QuienEscribe DEF varsPlanif

(* Nothing that CaidasConocidas looks at changes once the server died.     *)
varsCaidas == <<caida, socket, listas, exit>>

LEMMA CaidoQuieto ==
    ASSUME caida # "no", [Next]_vars
    PROVE  UNCHANGED varsCaidas
<1>1. ~PasoConexion /\ ~PasoPlanificador /\ ~MetricasTimer /\ ~DevolverTimer
  BY DEF PasoConexion, ContarNew, Despertar, Desmarcar, Descontar,
     MetricasClose, DevolverClose, SoltarExec, Liberar, LimpiarReady,
     LimpiarPrograma, PasoPlanificador, TomarNuevo, Admitir, PasarNuevo,
     MetricasTimer, DevolverTimer
<1>2. ASSUME NEW p \in Pids PROVE ~PasoAgenda(p)
  BY DEF PasoAgenda, Recalcular, Replanificar, CalcularCae, Calcular,
     Desalojar, Continuar, DespacharSiguiente, QuedarSinHilos, Marcar,
     TomarMutex, Retomar
<1>3. ASSUME NEW p \in Pids PROVE ~Solicitud(p)
  BY DEF Solicitud, CrearPrograma, ScheduleNext, Desconectar, CrearHilo,
     RealizarJoin, RealizarClose, SuseWait, SuseSignal, Solicita, EnServicio
<1> QED
  BY <1>1, <1>2, <1>3 DEF Next, PasoServidor, Recibir, vars, varsCaidas,
     varsReady, varsFin

HilosDeColas ==
    EsperaAdmision \cup (UNION {Range(ready[p]) : p \in Pids})
        \cup (UNION {Range(cola[s]) : s \in Sems})

(* How a thread of the server dies ...                                     *)
LEMMA CaeServidor ==
    ASSUME TypeOK, PasoServidor, caida' # caida
    PROVE  /\ UNCHANGED <<socket, listas, exit>>
           /\ \/ /\ caida' = "colaNewVacia"
                 /\ planificador = "tomado" /\ enMano = Nadie
              \/ /\ caida' = "programaInexistente"
                 /\ \E h \in HilosDeColas : h.pid \notin programas
              \/ \E p \in Pids : agenda[p] # "no" /\
                    \/ caida' = "listaInexistente" /\ p \notin listas
                    \/ /\ caida' \in {"programaInexistente", "candidatoNulo"}
                       /\ p \notin programas
                    \/ /\ caida' = "candidatoNulo"
                       /\ agenda[p] = "retomar" /\ ready[p] = <<>>
<1>1. ASSUME NEW m, Cae(m) PROVE UNCHANGED <<socket, listas, exit>> /\ caida' = m
  BY <1>1 DEF Cae, varsReady, varsFin
<1>2. SinPrograma => \E h \in HilosDeColas : h.pid \notin programas
  <2> SUFFICES ASSUME SinPrograma PROVE \E h \in HilosDeColas : h.pid \notin programas
    OBVIOUS
  <2>1. PICK h \in Range(new) \cup UNION {Range(ready[p]) : p \in listas} :
            h.pid \notin programas
    BY DEF SinPrograma
  <2>2. listas \subseteq Pids
    BY DEF TypeOK
  <2>3. h \in HilosDeColas
    BY <2>1, <2>2 DEF HilosDeColas, EsperaAdmision
  <2> QED
    BY <2>1, <2>3
<1>3. enMano # Nadie => enMano \in HilosDeColas
  BY DEF HilosDeColas, EsperaAdmision
<1>4. CASE PasoConexion
  <2>1. ~(ContarNew \/ Despertar \/ Desmarcar \/ Descontar \/ DevolverClose)
    BY DEF ContarNew, Despertar, Desmarcar, Descontar, DevolverClose
  <2>2. ~(SoltarExec \/ Liberar \/ LimpiarReady \/ LimpiarPrograma)
    BY DEF SoltarExec, Liberar, LimpiarReady, LimpiarPrograma
  <2>3. MetricasClose => Cae("programaInexistente") /\ SinPrograma
    BY DEF MetricasClose
  <2> QED
    BY <1>1, <1>2, <1>4, <2>1, <2>2, <2>3 DEF PasoConexion
<1>5. CASE PasoPlanificador
  <2>1. ~TomarNuevo
    BY DEF TomarNuevo
  <2>2. Admitir => \/ Cae("colaNewVacia") /\ planificador = "tomado" /\ enMano = Nadie
                   \/ /\ Cae("programaInexistente") /\ enMano # Nadie
                      /\ enMano.pid \notin programas
    BY DEF Admitir
  <2>3. PasarNuevo => /\ Cae("programaInexistente") /\ enMano # Nadie
                      /\ enMano.pid \notin programas
    BY SUSEAssumption DEF PasarNuevo, TypeOK
  <2> QED
    BY <1>1, <1>3, <1>5, <2>1, <2>2, <2>3 DEF PasoPlanificador
<1>6. CASE MetricasTimer \/ DevolverTimer
  BY <1>1, <1>2, <1>6 DEF MetricasTimer, DevolverTimer
<1>7. ASSUME NEW p \in Pids, PasoAgenda(p)
      PROVE  /\ UNCHANGED <<socket, listas, exit>> /\ agenda[p] # "no"
             /\ \/ caida' = "listaInexistente" /\ p \notin listas
                \/ /\ caida' \in {"programaInexistente", "candidatoNulo"}
                   /\ p \notin programas
                \/ /\ caida' = "candidatoNulo"
                   /\ agenda[p] = "retomar" /\ ready[p] = <<>>
  <2>1. ~(Recalcular(p) \/ Desalojar(p) \/ Continuar(p) \/ QuedarSinHilos(p)
          \/ TomarMutex(p) \/ DespacharSiguiente(p))
    BY DEF Recalcular, Desalojar, Continuar, QuedarSinHilos, TomarMutex,
       DespacharSiguiente, Despachar
  <2>2. CASE Replanificar(p) \/ CalcularCae(p) \/ Marcar(p)
    BY <1>1, <2>2 DEF Replanificar, CalcularCae, Calcular, Marcar
  <2>3. CASE Retomar(p)
    BY <1>1, <2>3 DEF Retomar, Despachar
  <2> QED
    BY <1>7, <2>1, <2>2, <2>3 DEF PasoAgenda
<1> QED
  BY <1>4, <1>5, <1>6, <1>7 DEF PasoServidor

(* ... and how a call of a program makes it die.                           *)
LEMMA CaePrograma ==
    ASSUME TypeOK, NEW p \in Pids, Programa(p), caida' # caida
    PROVE  /\ UNCHANGED <<socket, listas, exit>> /\ socket[p] = "conectado"
           /\ fase[p] = "corre"
           /\ \/ caida' \in {"waitSinExec", "closeSinExec"} /\ exec[p] = Nadie
              \/ /\ caida' = "noPidioElWait" /\ exec[p] # Nadie
                 /\ exec[p].tid # actual[p]
              \/ /\ caida' = "programaInexistente"
                 /\ \E h \in HilosDeColas : h.pid \notin programas
<1>1. ASSUME NEW m, Cae(m) PROVE UNCHANGED <<socket, listas, exit>> /\ caida' = m
  BY <1>1 DEF Cae, varsReady, varsFin
<1>2. ~(Conectar(p) \/ SuseCreate(p) \/ HilolayJoin(p) \/ HilolayYield(p)
        \/ SwapContext(p) \/ Terminar(p) \/ Matar(p))
  BY DEF Conectar, SuseCreate, HilolayJoin, HilolayYield, SwapContext,
     Terminar, Matar, CrearPrograma, CrearHilo, RealizarJoin, ScheduleNext,
     Recibir, Desconectar, vars
<1>3. CASE HilolayWait(p)
  <2>1. PICK s \in Sems : H!UsaSemaforo(p, actual[p]) /\ SuseWait(p, actual[p], s)
    BY <1>3 DEF HilolayWait
  <2>2. \/ Cae("waitSinExec") /\ exec[p] = Nadie
        \/ Cae("noPidioElWait") /\ exec[p] # Nadie /\ exec[p].tid # actual[p]
    BY <2>1 DEF SuseWait
  <2> QED
    BY <1>1, <2>1, <2>2 DEF SuseWait, Solicita, EnServicio, H!UsaSemaforo, H!Va
<1>4. CASE HilolaySignal(p)
  <2>1. PICK s \in Sems : SuseSignal(p, s) /\ H!UsaSemaforo(p, actual[p])
    BY <1>4 DEF HilolaySignal, vars
  <2>2. /\ Cae("programaInexistente") /\ cola[s] # <<>>
        /\ Head(cola[s]).pid \notin programas
    BY <2>1 DEF SuseSignal
  <2>3. Head(cola[s]) \in HilosDeColas
    <3>1. cola[s] \in Seq(Hilo)
      BY DEF TypeOK
    <3>2. Head(cola[s]) \in Range(cola[s])
      BY <2>2, <3>1, RangoTail
    <3>3. Head(cola[s]) \in UNION {Range(cola[r]) : r \in Sems}
      BY <3>2, Zenon
    <3> QED
      BY <3>3 DEF HilosDeColas
  <2> QED
    BY <1>1, <2>1, <2>2, <2>3 DEF SuseSignal, Solicita, EnServicio,
       H!UsaSemaforo, H!Va
<1>5. CASE SuseClose(p)
  <2>1. RealizarClose(p, actual[p]) /\ fase[p] = "corre"
    BY <1>5 DEF SuseClose, vars, H!Retorna, H!RetornaMain, H!Va
  <2>2. Cae("closeSinExec") /\ exec[p] = Nadie
    BY <2>1 DEF RealizarClose
  <2> QED
    BY <1>1, <2>1, <2>2 DEF RealizarClose, Solicita, EnServicio
<1> QED
  BY <1>2, <1>3, <1>4, <1>5 DEF Programa

(* What the invariants above say of the ways the server may die.           *)
LEMMA SinProgramaCerro ==
    ASSUME TypeOK, Lugares, HilosDeAlguien, Registrados,
           \E h \in HilosDeColas : h.pid \notin programas
    PROVE  \E p \in Pids : socket[p] = "cerrado"
<1>1. PICK h \in HilosDeColas : h.pid \notin programas
  OBVIOUS
<1>2. h \in Hilo /\ transicion[h] \in {"New", "Ready", "Blocked"}
  <2>1. CASE h \in EsperaAdmision
    BY <2>1, EsperanTipo DEF Lugares, LugarNew
  <2>2. CASE \E p \in Pids : h \in Range(ready[p])
    BY <2>2, EnListaReady DEF Lugares
  <2>3. CASE \E s \in Sems : h \in Range(cola[s])
    BY <2>3, EnListaCola DEF Lugares
  <2>4. \/ h \in EsperaAdmision \/ \E p \in Pids : h \in Range(ready[p])
        \/ \E s \in Sems : h \in Range(cola[s])
    BY <1>1 DEF HilosDeColas
  <2> QED
    BY <2>1, <2>2, <2>3, <2>4
<1>3. h.pid \in Pids /\ socket[h.pid] # "libre"
  BY <1>2 DEF HilosDeAlguien, Hilo
<1> QED
  BY <1>1, <1>3 DEF Registrados, TypeOK

(* Nobody is killed: a program waits for its answers.                      *)
AgendaEspera == \A p \in Pids : agenda[p] # "no" => fase[p] = "espera"

LEMMA AgendaSoloYield ==
    ASSUME NEW p \in Pids, Programa(p), ~HilolayYield(p)
    PROVE  agenda' = agenda
<1>1. ASSUME NEW m, Cae(m) PROVE agenda' = agenda
  BY <1>1 DEF Cae
<1>2. CASE Conectar(p) \/ SuseCreate(p) \/ Terminar(p) \/ Matar(p)
  BY <1>2 DEF Conectar, SuseCreate, Terminar, Matar, CrearPrograma, CrearHilo,
     Desconectar
<1>3. CASE HilolayWait(p) \/ HilolaySignal(p)
  BY <1>1, <1>3 DEF HilolayWait, HilolaySignal, SuseWait, SuseSignal, vars
<1>4. CASE HilolayJoin(p) \/ SuseClose(p) \/ SwapContext(p)
  BY <1>1, <1>4 DEF HilolayJoin, SuseClose, SwapContext, RealizarJoin,
     RealizarClose, Recibir, vars
<1> QED
  BY <1>2, <1>3, <1>4 DEF Programa

LEMMA AgendaEsperaPaso ==
    ASSUME Matables = {}, Base, Coherentes, AgendaEspera, [Siguiente]_varsLinuse
    PROVE  AgendaEspera'
<1> SUFFICES ASSUME NEW p \in Pids, agenda'[p] # "no" PROVE fase'[p] = "espera"
  BY DEF AgendaEspera
<1> USE DEF Base
<1>1. CASE Sistema
  <2>1. fase'[p] = fase[p] /\ PasoServidor
    BY <1>1 DEF Sistema
  <2>2. CASE PasoAgenda(p)
    <3>1. agenda[p] # "no"
      BY <2>2 DEF PasoAgenda, Recalcular, Replanificar, CalcularCae, Calcular,
         Desalojar, Continuar, DespacharSiguiente, Despachar, QuedarSinHilos,
         Marcar, TomarMutex, Retomar
    <3> QED
      BY <2>1, <3>1 DEF AgendaEspera
  <2>3. CASE ~PasoAgenda(p)
    BY <2>1, <2>3, SitioServidor DEF AgendaEspera
  <2> QED
    BY <2>2, <2>3
<1>2. ASSUME NEW q \in Pids \ {p}, Programa(q) PROVE fase'[p] = "espera"
  <2>1. fase'[p] = fase[p]
    BY <1>2, FasePropia
  <2>2. agenda'[p] = agenda[p]
    BY <1>2, ProgramaEsSolicitud, SitioAjeno DEF vars
  <2> QED
    BY <2>1, <2>2 DEF AgendaEspera
<1>3. CASE Programa(p)
  <2>1. CASE HilolayYield(p)
    BY <2>1 DEF HilolayYield, H!Cede, TipoFase
  <2>2. CASE ~HilolayYield(p)
    <3>1. agenda' = agenda
      BY <1>3, <2>2, AgendaSoloYield
    <3>2. fase[p] = "espera" /\ agenda[p] # "no"
      BY <3>1 DEF AgendaEspera
    <3>3. ~SwapContext(p)
      BY <3>2 DEF SwapContext, Recibir, Coherentes, Coherente
    <3> QED
      BY <1>3, <2>2, <3>2, <3>3 DEF Programa, Conectar, SuseCreate,
         HilolayWait, HilolaySignal, HilolayJoin, SuseClose, Terminar, Matar,
         H!Conecta, H!CreaMain, H!Crea, H!UsaSemaforo, H!Espera, H!Retorna,
         H!RetornaMain, H!Cierra, H!Va
  <2> QED
    BY <2>1, <2>2
<1>4. CASE UNCHANGED varsLinuse
  BY <1>4 DEF varsLinuse, vars, AgendaEspera
<1> QED
  BY <1>1, <1>2, <1>3, <1>4 DEF Siguiente

(* What a way to die leads to, once and for all.                           *)
LEMMA CaidasQuietas ==
    ASSUME CaidasConocidas, UNCHANGED varsCaidas
    PROVE  CaidasConocidas'
BY DEF CaidasConocidas, varsCaidas

LEMMA CaidasPaso ==
    ASSUME Base, Coherentes, EnOrden, NuevoVacio, HilosDeAlguien, Registrados,
           AgendaEspera, DespertarUtil, AcuerdoEnExec, CaidasConocidas,
           [Siguiente]_varsLinuse
    PROVE  CaidasConocidas'
<1> USE DEF Base
<1>1. CASE caida # "no"
  BY <1>1, CaidoQuieto, CaidasQuietas, SiguienteEsNext
<1>2. CASE caida = "no" /\ caida' = caida
  BY <1>2 DEF CaidasConocidas
<1>3. CASE caida' # caida /\ Sistema
  <2>1. UNCHANGED <<socket, listas, exit>>
    BY <1>3, CaeServidor DEF Sistema
  <2>2. CASE /\ caida' = "colaNewVacia"
             /\ planificador = "tomado" /\ enMano = Nadie
    <3>1. HuboCierre'
      BY <2>1, <2>2 DEF NuevoVacio, HuboCierre
    <3> QED
      BY <2>2, <3>1 DEF CaidasConocidas, HuboCierre
  <2>3. CASE /\ caida' = "programaInexistente"
             /\ \E h \in HilosDeColas : h.pid \notin programas
    BY <2>1, <2>3, SinProgramaCerro DEF CaidasConocidas
  <2>4. ASSUME NEW p \in Pids, agenda[p] # "no",
               \/ caida' = "listaInexistente" /\ p \notin listas
               \/ /\ caida' \in {"programaInexistente", "candidatoNulo"}
                  /\ p \notin programas
               \/ /\ caida' = "candidatoNulo"
                  /\ agenda[p] = "retomar" /\ ready[p] = <<>>
        PROVE  CaidasConocidas'
    <3>1. socket[p] = "conectado"
      <4>1. fase[p] = "espera" /\ Coherente(p)
        BY <2>4 DEF AgendaEspera, Coherentes
      <4> QED
        BY <4>1 DEF Coherente, TypeOK
    <3>2. caida' = "listaInexistente" /\ p \notin listas
      BY <2>4, <3>1 DEF Registrados, DespertarUtil
    <3> QED
      BY <2>1, <3>1, <3>2 DEF CaidasConocidas
  <2> QED
    BY <1>3, <2>2, <2>3, <2>4, CaeServidor DEF Sistema
<1>4. ASSUME caida' # caida, NEW p \in Pids, Programa(p) PROVE CaidasConocidas'
  <2>1. UNCHANGED <<socket, listas, exit>> /\ socket[p] = "conectado"
        /\ fase[p] = "corre"
    BY <1>4, CaePrograma
  <2>2. CASE caida' \in {"waitSinExec", "closeSinExec"} /\ exec[p] = Nadie
    <3>1. Actual(p) # Nadie
      BY SUSEAssumption DEF Actual, Hilo, ActualTipado
    <3>2. p \notin listas
      BY <2>1, <2>2, <3>1 DEF EnOrden, CorreEnExec
    <3> QED
      BY <2>1, <2>2, <3>2 DEF CaidasConocidas
  <2>3. ~(exec[p] # Nadie /\ exec[p].tid # actual[p])
    <3>1. exec[p] # Nadie => exec[p] = Actual(p)
      BY <2>1 DEF AcuerdoEnExec
    <3>2. Actual(p).tid = actual[p]
      BY DEF Actual
    <3> QED
      BY <3>1, <3>2
  <2>4. CASE /\ caida' = "programaInexistente"
             /\ \E h \in HilosDeColas : h.pid \notin programas
    BY <2>1, <2>4, SinProgramaCerro DEF CaidasConocidas
  <2> QED
    BY <1>4, <2>2, <2>3, <2>4, CaePrograma
<1>5. UNCHANGED varsLinuse => caida' = caida
  BY DEF varsLinuse, vars
<1> QED
  BY <1>1, <1>2, <1>3, <1>4, <1>5 DEF Siguiente

LEMMA RegistradosSiempre == Spec => []Registrados
<1>1. Init => Registrados
  BY DEF Init, Registrados
<1>2. TypeOK /\ Vida /\ Registrados /\ [Next]_vars => Registrados'
  BY RegistradosPaso DEF Vida
<1> QED
  BY <1>1, <1>2, TipoCorrecto, VidaSiempre, PTL DEF Spec

LEMMA NuevoVacioSiempre == TimerMetricas = FALSE /\ SpecLinuse => []NuevoVacio
<1>1. Inicio => NuevoVacio
  BY DEF Inicio, Init, NuevoVacio
<1>2. Base /\ Base' /\ Hallados /\ EnOrden /\ NuevoVacio
      /\ [Siguiente]_varsLinuse => NuevoVacio'
  BY NuevoVacioPaso, SiguienteEsNext DEF EnOrden, Base
<1> QED
  BY <1>1, <1>2, BaseSiempre, LinuseEsSUSE, HalladosSiempre, EnOrdenSiempre,
     PTL DEF SpecLinuse

LEMMA AgendaEsperaSiempre == Matables = {} /\ SpecLinuse => []AgendaEspera
<1>1. Inicio => AgendaEspera
  BY DEF Inicio, Init, AgendaEspera
<1>2. CASE Matables = {}
  <2>1. Base /\ Coherentes /\ AgendaEspera /\ [Siguiente]_varsLinuse
        => AgendaEspera'
    BY <1>2, AgendaEsperaPaso
  <2>2. SpecLinuse => []AgendaEspera
    BY <1>1, <2>1, BaseSiempre, CoherentesSiempre, PTL DEF SpecLinuse
  <2> QED
    BY <2>2
<1> QED
  BY <1>2

(* Without the timer, and while no program is killed, the calls of the     *)
(* library make the server die only as CaidasConocidas says: never because *)
(* the hilo that waits is not the one in exec, nor because a woken         *)
(* schedule_next finds nobody in ready.                                    *)
THEOREM SoloCaidasConocidas ==
    TimerMetricas = FALSE /\ Matables = {} /\ SpecLinuse => []CaidasConocidas
<1>1. Inicio => CaidasConocidas
  BY DEF Inicio, Init, CaidasConocidas
<1>2. Base /\ Coherentes /\ EnOrden /\ NuevoVacio /\ HilosDeAlguien
      /\ Registrados /\ AgendaEspera /\ DespertarUtil /\ AcuerdoEnExec
      /\ CaidasConocidas /\ [Siguiente]_varsLinuse => CaidasConocidas'
  BY CaidasPaso
<1> QED
  BY <1>1, <1>2, BaseSiempre, CoherentesSiempre, EnOrdenSiempre,
     NuevoVacioSiempre, LinuseEsSUSE, HilosDeAlguienSiempre,
     RegistradosSiempre, AgendaEsperaSiempre, DespertarSirve, AcuerdoSiempre,
     PTL DEF SpecLinuse
=============================================================================
