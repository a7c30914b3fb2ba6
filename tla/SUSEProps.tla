----------------------------- MODULE SUSEProps -----------------------------
(***************************************************************************)
(* What the scheduling server of module SUSE promises, as far as it can be *)
(* said without looking at the programs.                                   *)
(***************************************************************************)
EXTENDS SUSE, FiniteSets

HiloONadie == Hilo \cup {Nadie}

Conexiones == [paso : Pasos, pid : Pids \cup {Nadie}, hilo : HiloONadie]

Agendas == {"no", "recalcular", "replanificar", "calcular", "marcar", "mutex",
            "retomar"}

(* A handler that was interrupted knows whom it serves.                    *)
ConexionEnCurso ==
    /\ conexion.paso # "select" => conexion.pid \in Pids
    /\ conexion.paso \in {"despertar", "desmarcar", "metricas", "devolver",
                          "soltarExec", "liberar"} => conexion.hilo \in Hilo

(* Type invariant of the structures of SUSE.c.                             *)
TypeOK ==
    /\ socket \in [Pids -> {"libre", "conectado", "cerrado"}]
    /\ programas \in SUBSET Pids
    /\ exec \in [Pids -> HiloONadie]
    /\ bloqueados \in [Pids -> [Tids -> Seq(Hilo)]]
    /\ estaBloqueado \in [Pids -> BOOLEAN]
    /\ mutexLibre \in [Pids -> BOOLEAN]
    /\ enNew \in [Pids -> Int]
    /\ enReady \in [Pids -> Int]
    /\ enBlocked \in [Pids -> 0 .. Ancho - 1]
    /\ listas \in SUBSET Pids
    /\ ready \in [Pids -> Seq(Hilo)]
    /\ exit \in [Pids -> SUBSET Hilo]
    /\ estimacion \in [Hilo -> Estimaciones]
    /\ transicion \in [Hilo -> Estados]
    /\ liberados \in SUBSET Hilo
    /\ new \in Seq(Hilo)
    /\ hayNuevos \in Nat
    /\ colaAux \in Seq(Hilo)
    /\ metricas \in {"libre", "timer", "close"}
    /\ planificador \in {"espera", "tomado", "admitido"}
    /\ enMano \in HiloONadie
    /\ maximo \in Nat
    /\ semaforo \in [Sems -> Nat]
    /\ cola \in [Sems -> Seq(Hilo)]
    /\ conexion \in Conexiones
    /\ agenda \in [Pids -> Agendas]
    /\ respuesta \in [Pids -> Tids \cup {Ninguna}]
    /\ caida \in Motivos
    /\ planificador = "admitido" => enMano \in Hilo
    /\ ConexionEnCurso

-----------------------------------------------------------------------------
(* Where a hilo is.                                                        *)

EsperaAdmision == Range(new) \cup Range(colaAux) \cup ({enMano} \ {Nadie})

(* realizarClose puts the hilo in exit before it takes it out of exec.     *)
Cerrando(h) ==
    /\ conexion.paso \in {"metricas", "devolver", "soltarExec"}
    /\ conexion.hilo = h

SinRepetidos(l) == \A i, j \in DOMAIN l : l[i] = l[j] => i = j

(* loguearTransicion tells the truth: the last line of Transiciones.log    *)
(* about a hilo is the state whose structure holds it.                     *)
Bitacora ==
    /\ \A h \in EsperaAdmision : transicion[h] = "New"
    /\ \A p \in Pids :
        /\ \A h \in Range(ready[p]) : h.pid = p /\ transicion[h] = "Ready"
        /\ exec[p] # Nadie =>
               /\ exec[p].pid = p
               /\ \/ transicion[exec[p]] = "Execute"
                  \/ transicion[exec[p]] = "Exit" /\ Cerrando(exec[p])
        /\ \A t \in Tids : \A h \in Range(bloqueados[p][t]) :
               h.pid = p /\ transicion[h] = "Blocked"
        /\ \A h \in exit[p] : h.pid = p /\ transicion[h] = "Exit"
    /\ \A s \in Sems : \A h \in Range(cola[s]) : transicion[h] = "Blocked"

(* No hilo waits twice: no queue or list repeats one, and one that waits   *)
(* for a hilo does not wait for another nor for a semaphore.  Otherwise a  *)
(* close and a signal would each put it in ready.                          *)
UnaSolaEspera ==
    /\ SinRepetidos(new \o colaAux)
    /\ enMano \notin Range(new) \cup Range(colaAux)
    /\ \A p \in Pids :
        /\ SinRepetidos(ready[p])
        /\ \A t \in Tids :
            /\ SinRepetidos(bloqueados[p][t])
            /\ \A u \in Tids \ {t} :
                   Range(bloqueados[p][t]) \cap Range(bloqueados[p][u]) = {}
            /\ \A s \in Sems :
                   Range(bloqueados[p][t]) \cap Range(cola[s]) = {}
    /\ \A s \in Sems :
        /\ SinRepetidos(cola[s])
        /\ \A r \in Sems \ {s} : Range(cola[s]) \cap Range(cola[r]) = {}

(* A hilo of a connected program that was created is still somewhere: no   *)
(* interleaving of planificarReady, of a schedule_next and of the          *)
(* connection thread overwrites the last pointer to it.                    *)
NadieSePierde ==
    \A h \in Hilo : socket[h.pid] = "conectado" =>
        CASE transicion[h] = "New" -> h \in EsperaAdmision
          [] transicion[h] = "Ready" -> h \in Range(ready[h.pid])
          [] transicion[h] = "Execute" -> exec[h.pid] = h
          [] transicion[h] = "Blocked" ->
                 \/ \E t \in Tids : h \in Range(bloqueados[h.pid][t])
                 \/ \E s \in Sems : h \in Range(cola[s])
          [] transicion[h] = "Exit" -> h \in exit[h.pid]
          [] OTHER -> TRUE

(* limpiarEstructuras frees no hilo that a structure still points to.      *)
NoUsoTrasLiberar ==
    liberados \cap
        (EsperaAdmision
         \cup {exec[p] : p \in Pids}
         \cup (UNION {Range(ready[p]) : p \in listas})
         \cup (UNION {exit[p] : p \in Pids})
         \cup (UNION {Range(bloqueados[p][t]) : p \in programas, t \in Tids})
         \cup (UNION {Range(cola[s]) : s \in Sems})) = {}

(* The state of a hilo, read off the structure that holds it.              *)
Lugar(h) ==
    CASE socket[h.pid] = "cerrado" -> "Fuera"
      [] socket[h.pid] # "cerrado" /\ h \in exit[h.pid] -> "Exit"
      [] socket[h.pid] # "cerrado" /\ h \notin exit[h.pid]
         /\ exec[h.pid] = h -> "Execute"
      [] OTHER ->
           IF h \in Range(ready[h.pid]) THEN "Ready"
           ELSE IF \/ \E t \in Tids : h \in Range(bloqueados[h.pid][t])
                   \/ \E s \in Sems : h \in Range(cola[s]) THEN "Blocked"
           ELSE IF h \in EsperaAdmision THEN "New"
           ELSE "Inexistente"

(* The server implements the five states of CincoEstados: where its        *)
(* structures hold a hilo changes as the abstract specification lets the   *)
(* state of the hilo change.                                               *)
E == INSTANCE CincoEstados WITH
        estado <- [h \in Hilo |-> Lugar(h)],
        vivo <- [p \in Pids |-> socket[p] = "conectado"]

ImplementaEstados == E!Especificacion

-----------------------------------------------------------------------------
(* Counters and semaphores.                                                *)

(* sem_suse_wait and sem_suse_signal: a semaphore stays within its bounds  *)
(* and nobody waits for one that has resources.                            *)
SemaforoCorrecto ==
    \A s \in Sems : /\ semaforo[s] \in 0..SemMax[s]
                    /\ semaforo[s] > 0 => cola[s] = <<>>

(* hayNuevos counts the queue new, also while the metrics rotate it, and   *)
(* after planificarReady found it empty it counts one less.                *)
HayNuevosCuenta ==
    hayNuevos + (IF planificador = "tomado" /\ enMano = Nadie THEN 1 ELSE 0)
        = Len(new) + Len(colaAux)

(* The counters in new and in ready of the metrics agree with the queues,  *)
(* up to the hilo a thread is moving.                                      *)
DePrograma(p) == {h \in Hilo : h.pid = p}

ContadoresAlDia ==
    \A p \in Pids : socket[p] = "conectado" =>
        /\ enReady[p] = Len(ready[p])
        /\ enNew[p] + (IF conexion.paso = "contarNew" /\ conexion.pid = p
                       THEN 1 ELSE 0)
             = Cardinality({h \in DePrograma(p) : h \in EsperaAdmision})
               - (IF planificador = "admitido" /\ enMano.pid = p
                  THEN 1 ELSE 0)

(* The hilos that hold a unit of MAXIMOPROCESAMIENTO.                      *)
EnProceso ==
    {h \in Hilo : transicion[h] \in {"Ready", "Execute", "Blocked"}}
    \cup {h \in Hilo : conexion.hilo = h
                       /\ conexion.paso \in {"metricas", "devolver"}}
    \cup (IF planificador = "admitido" THEN {enMano} ELSE {})

(* MAXIMOPROCESAMIENTO is exact as long as nobody disconnects: what is     *)
(* left of it and the hilos that hold a unit add up to MAX_MULTIPROG.      *)
MultiprogramacionExacta ==
    (\A p \in Pids : socket[p] # "cerrado") =>
        maximo + Cardinality(EnProceso) = Grado

-----------------------------------------------------------------------------
(* Blocking and waking the schedule_next of a program.                     *)

(* A wake-up is not spent in vain: when mutexProgama is unlocked, the      *)
(* schedule_next of the program waits for it and finds a hilo in ready.    *)
DespertarUtil ==
    \A p \in Pids : socket[p] = "conectado" =>
        /\ mutexLibre[p] => agenda[p] = "mutex"
        /\ mutexLibre[p] \/ agenda[p] = "retomar" => ready[p] # <<>>

(* estaBloqueado never outlives the block: at the next one the signal      *)
(* would unlock a mutex that nobody is about to take.                      *)
MarcaFresca ==
    \A p \in Pids : socket[p] = "conectado" /\ estaBloqueado[p] =>
        \/ agenda[p] = "mutex"
        \/ conexion.paso = "desmarcar" /\ conexion.hilo.pid = p

(* calcularSiguienteHilo blocks "until there is one": a program does not   *)
(* sleep on its mutex with hilos in ready and nobody about to unlock it.   *)
SinDespertarPerdido ==
    \A p \in Pids :
        agenda[p] = "mutex" /\ ~mutexLibre[p] /\ socket[p] = "conectado"
        /\ ready[p] # <<>>
            => conexion.paso = "despertar" /\ conexion.hilo.pid = p

-----------------------------------------------------------------------------
(* Progress, under Equidad.                                                *)

Termina(p) == caida # "no" \/ socket[p] # "conectado"

(* A schedule_next is answered, or its program is found without hilos.     *)
AgendaAvanza ==
    \A p \in Pids : agenda[p] = "recalcular" ~>
        agenda[p] \in {"no", "mutex"} \/ Termina(p)

(* A program whose mutex is unlocked gets its answer.                      *)
DespiertaAlfin ==
    \A p \in Pids : mutexLibre[p] ~> agenda[p] = "no" \/ Termina(p)

(* planificarReady takes the hilos in order and waits for the degree of    *)
(* multiprogramming with one in hand: as long as there is room again and   *)
(* again every hilo leaves new, whatever program it belongs to.            *)
TodosSeAdmiten ==
    []<>(maximo > 0 \/ caida # "no") =>
        \A h \in Hilo : transicion[h] = "New" ~>
            transicion[h] # "New" \/ caida # "no"
=============================================================================
