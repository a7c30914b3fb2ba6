-------------------------------- MODULE SUSE --------------------------------
(***************************************************************************)
(* The scheduling server, src/Planificador/SUSE/SUSE.c.                    *)
(*                                                                         *)
(* SUSE schedules the user-level threads ("hilos") of the programs that    *)
(* are connected to it; a program is identified by the descriptor of its   *)
(* socket.  Four kinds of threads of the server share the state below:     *)
(*   - the connection thread (iniciarConexion) reads one request at a time *)
(*     and runs its handler; `conexion' says where it is;                  *)
(*   - the thread planificarReady moves hilos from the queue `new' to      *)
(*     ready; `planificador' says where it is;                             *)
(*   - one detached thread per suse_schedule_next (atenderScheduleNext);   *)
(*     agenda[p] says where the one of program p is;                       *)
(*   - the metrics thread (atenderMetricas), which rotates `new'.          *)
(* A critical section under a semaphore of the server is one action; a     *)
(* handler that releases its semaphores in the middle, or that touches     *)
(* shared data outside of them, is several.  The order in which the        *)
(* semaphores nest is the subject of module SUSELocks.                     *)
(*                                                                         *)
(* A descriptor is not given to a second connection: each element of Pids  *)
(* is used once.                                                           *)
(***************************************************************************)
EXTENDS Integers, Sequences, Functions

CONSTANTS
    Pids,           \* socket descriptors the server may accept
    Tids,           \* ids the programs may give to their hilos
    Sems,           \* SEM_IDS
    SemInit,        \* SEM_INIT
    SemMax,         \* SEM_MAX
    Grado,          \* MAX_MULTIPROG
    Ancho,          \* cantidadDeHilosEnBlocked is kept modulo Ancho
    Estimaciones,   \* SJF estimations told apart (a float in the code)
    TimerMetricas,  \* whether METRICS_TIMER elapses
    Nadie,          \* the NULL hilo
    Ninguna         \* no reply in the socket of a program

Hilo == [pid : Pids, tid : Tids]

ASSUME SUSEAssumption ==
    /\ Tids \subseteq Nat
    /\ Nadie \notin Hilo
    /\ Ninguna \notin Tids
    /\ Estimaciones \subseteq Nat /\ 0 \in Estimaciones
    /\ Grado \in Nat /\ Ancho \in Nat \ {0}
    /\ SemInit \in [Sems -> Nat] /\ SemMax \in [Sems -> Nat]
    /\ \A s \in Sems : SemInit[s] <= SemMax[s]
    /\ TimerMetricas \in BOOLEAN

VARIABLES
    socket,         \* client_socket[]: what became of each descriptor
    programas,      \* keys of diccionarioDeProgramas
    exec,           \* programa.exec
    bloqueados,     \* programa.blocked: the hilos that join each tid
    estaBloqueado,  \* programa.estaBloqueado
    mutexLibre,     \* programa.mutexProgama can be taken
    enNew, enReady, enBlocked,  \* programa.cantidadDeHilosEn...
    listas,         \* keys of diccionarioDeListasDeReady
    ready,          \* the lists themselves
    exit,           \* diccionarioDeListasDeExit
    estimacion,     \* hilo.estimacion
    transicion,     \* last line of Transiciones.log about each hilo
    liberados,      \* the hilos whose memory was freed
    new, hayNuevos, \* the queue new and its counting semaphore
    colaAux,        \* the queue the metrics move new to and back from
    metricas,       \* holder of sem_metricas that is rotating new
    planificador, enMano,       \* planificarReady and the hilo it popped
    maximo,         \* value of MAXIMOPROCESAMIENTO
    semaforo, cola, \* value and waiting hilos of each semaphore
    conexion,       \* handler the connection thread is in
    agenda,         \* schedule_next thread of each program
    respuesta,      \* tid sent to each program and not read yet
    caida           \* why the process of the server died, "no" if it did not

varsPrograma == <<exec, bloqueados, estaBloqueado, mutexLibre,
                  enNew, enReady, enBlocked>>
varsReady    == <<listas, ready>>
varsNew      == <<new, hayNuevos, colaAux, metricas>>
varsPlanif   == <<planificador, enMano>>
varsSem      == <<semaforo, cola>>
varsFin      == <<exit, liberados>>

vars == <<socket, programas, varsPrograma, varsReady, varsFin, estimacion,
          transicion, varsNew, varsPlanif, maximo, varsSem, conexion, agenda,
          respuesta, caida>>

Estados == {"Inexistente", "New", "Ready", "Execute", "Blocked", "Exit"}

Pasos == {"select", "contarNew", "despertar", "desmarcar", "descontar",
          "metricas", "devolver", "soltarExec", "liberar",
          "limpiarReady", "limpiarPrograma"}

Motivos == {"no", "waitSinExec", "noPidioElWait", "closeSinExec",
            "colaNewVacia", "programaInexistente", "listaInexistente",
            "candidatoNulo"}

EnSelect == [paso |-> "select", pid |-> Nadie, hilo |-> Nadie]

-----------------------------------------------------------------------------
(* iniciarSUSE: the configuration is read, every structure is empty.       *)
Init ==
    /\ socket = [p \in Pids |-> "libre"]
    /\ programas = {}
    /\ exec = [p \in Pids |-> Nadie]
    /\ bloqueados = [p \in Pids |-> [t \in Tids |-> <<>>]]
    /\ estaBloqueado = [p \in Pids |-> FALSE]
    /\ mutexLibre = [p \in Pids |-> FALSE]
    /\ enNew = [p \in Pids |-> 0]
    /\ enReady = [p \in Pids |-> 0]
    /\ enBlocked = [p \in Pids |-> 0]
    /\ listas = {}
    /\ ready = [p \in Pids |-> <<>>]
    /\ exit = [p \in Pids |-> {}]
    /\ estimacion = [h \in Hilo |-> 0]
    /\ transicion = [h \in Hilo |-> "Inexistente"]
    /\ liberados = {}
    /\ new = <<>> /\ hayNuevos = 0 /\ colaAux = <<>> /\ metricas = "libre"
    /\ planificador = "espera" /\ enMano = Nadie
    /\ maximo = Grado
    /\ semaforo = SemInit
    /\ cola = [s \in Sems |-> <<>>]
    /\ conexion = EnSelect
    /\ agenda = [p \in Pids |-> "no"]
    /\ respuesta = [p \in Pids |-> Ninguna]
    /\ caida = "no"

-----------------------------------------------------------------------------
(* The process dies: a NULL pointer is dereferenced, or exit(-1).          *)
Cae(motivo) ==
    /\ caida' = motivo
    /\ UNCHANGED <<socket, programas, varsPrograma, varsReady, varsFin,
                   estimacion, transicion, varsNew, varsPlanif, maximo,
                   varsSem, conexion, agenda, respuesta>>

(* liberarBloqueadosPorElHilo keeps sem_programas over its whole loop; in  *)
(* every other place the semaphore is taken and released within an action. *)
ProgramasLibre == conexion.paso # "liberar"

(* blockedPorSemaforo is held through all of sacar1Hilo... by the          *)
(* connection thread, and by the metrics while they rotate new.            *)
BlockedLibre ==
    /\ metricas # "timer"
    /\ conexion.paso \notin {"despertar", "desmarcar", "descontar"}

(* The connection thread is in select and finds a request of p.  The       *)
(* client library is synchronous in suse_schedule_next: it asks for        *)
(* nothing else until it has read the reply.                               *)
EnServicio(p) ==
    /\ caida = "no"
    /\ conexion = EnSelect
    /\ socket[p] = "conectado"

Solicita(p) ==
    /\ EnServicio(p)
    /\ agenda[p] = "no"
    /\ respuesta[p] = Ninguna

(* Mutant: exec keeps the hilo that blocked or ended.                      *)
MutDejarExec(p) == exec' = exec

(* exec = NULL, where a hilo blocks or ends.                               *)
DejarExec(p) == exec' = [exec EXCEPT ![p] = Nadie]

(* Mutants: sem_trywait without looking at its result; one unit is never   *)
(* given out; the post of a hilo that ends is forgotten.                   *)
MutHayLugar == TRUE

MutUnLugarMenos == maximo > 1

MutPostMaximo == maximo' = maximo

(* sem_wait and sem_post of MAXIMOPROCESAMIENTO.                           *)
HayLugar == maximo > 0

PostMaximo == maximo' = maximo + 1

(* Mutant: pasarAReady does not look whether the program has a list.       *)
MutPasarAReady(h) ==
    /\ listas' = listas \cup {h.pid}
    /\ exec' = [exec EXCEPT ![h.pid] = h]
    /\ transicion' = [transicion EXCEPT ![h] = "Execute"]
    /\ UNCHANGED <<ready, enReady>>

(* pasarAReady: the first hilo of a program to arrive goes straight to     *)
(* exec, the others to the ready list.  The caller sees to the crash when  *)
(* the program is no longer there.                                         *)
PasarAReady(h) ==
    \/ /\ h.pid \notin listas
       /\ listas' = listas \cup {h.pid}
       /\ exec' = [exec EXCEPT ![h.pid] = h]
       /\ transicion' = [transicion EXCEPT ![h] = "Execute"]
       /\ UNCHANGED <<ready, enReady>>
    \/ /\ h.pid \in listas
       /\ ready' = [ready EXCEPT ![h.pid] = Append(@, h)]
       /\ enReady' = [enReady EXCEPT ![h.pid] = @ + 1]
       /\ transicion' = [transicion EXCEPT ![h] = "Ready"]
       /\ UNCHANGED <<listas, exec>>

-----------------------------------------------------------------------------
(* The connection thread: connections and creation.                        *)

(* accept and crearPrograma.  mutexProgama is created locked.              *)
CrearPrograma(p) ==
    /\ caida = "no"
    /\ conexion = EnSelect
    /\ socket[p] = "libre"
    /\ socket' = [socket EXCEPT ![p] = "conectado"]
    /\ programas' = programas \cup {p}
    /\ UNCHANGED <<varsPrograma, varsReady, varsFin, estimacion, transicion,
                   varsNew, varsPlanif, maximo, varsSem, conexion, agenda,
                   respuesta, caida>>

(* crearHilo up to sem_post(&hayNuevos); the client gives a fresh tid.     *)
CrearHilo(p, t) ==
    LET h == [pid |-> p, tid |-> t] IN
    /\ Solicita(p)
    /\ transicion[h] = "Inexistente"
    /\ transicion' = [transicion EXCEPT ![h] = "New"]
    /\ estimacion' = [estimacion EXCEPT ![h] = 0]
    /\ new' = Append(new, h)
    /\ hayNuevos' = hayNuevos + 1
    /\ conexion' = [paso |-> "contarNew", pid |-> p, hilo |-> h]
    /\ UNCHANGED <<socket, programas, varsPrograma, varsReady, varsFin,
                   colaAux, metricas, varsPlanif, maximo, varsSem, agenda,
                   respuesta, caida>>

(* The end of crearHilo: planificarReady may have counted the hilo out     *)
(* before it is counted in.                                                *)
ContarNew ==
    /\ caida = "no" /\ conexion.paso = "contarNew"
    /\ enNew' = [enNew EXCEPT ![conexion.pid] = @ + 1]
    /\ conexion' = EnSelect
    /\ UNCHANGED <<socket, programas, exec, bloqueados, estaBloqueado,
                   mutexLibre, enReady, enBlocked, varsReady, varsFin,
                   estimacion, transicion, varsNew, varsPlanif, maximo,
                   varsSem, agenda, respuesta, caida>>

(* Case 2 of iniciarConexion: a detached thread serves the request.        *)
ScheduleNext(p) ==
    /\ Solicita(p)
    /\ agenda' = [agenda EXCEPT ![p] = "recalcular"]
    /\ UNCHANGED <<socket, programas, varsPrograma, varsReady, varsFin,
                   estimacion, transicion, varsNew, varsPlanif, maximo,
                   varsSem, conexion, respuesta, caida>>

-----------------------------------------------------------------------------
(* The connection thread: semaphores.                                      *)

(* sem_suse_wait.  Without resources the hilo in exec is queued; that it   *)
(* is the one that asked is checked, that there is one is not.             *)
SuseWait(p, t, s) ==
    /\ Solicita(p)
    /\ \/ /\ semaforo[s] > 0
          /\ semaforo' = [semaforo EXCEPT ![s] = @ - 1]
          /\ UNCHANGED <<socket, programas, varsPrograma, varsReady, varsFin,
                         estimacion, transicion, varsNew, varsPlanif, maximo,
                         cola, conexion, agenda, respuesta, caida>>
       \/ /\ semaforo[s] <= 0 /\ exec[p] = Nadie
          /\ Cae("waitSinExec")
       \/ /\ semaforo[s] <= 0 /\ exec[p] # Nadie /\ exec[p].tid # t
          /\ Cae("noPidioElWait")
       \/ /\ semaforo[s] <= 0 /\ exec[p] # Nadie /\ exec[p].tid = t
          /\ BlockedLibre
          /\ cola' = [cola EXCEPT ![s] = Append(@, exec[p])]
          /\ transicion' = [transicion EXCEPT ![exec[p]] = "Blocked"]
          /\ enBlocked' = [enBlocked EXCEPT ![p] = (@ + 1) % Ancho]
          /\ DejarExec(p)
          /\ UNCHANGED <<socket, programas, bloqueados, estaBloqueado,
                         mutexLibre, enNew, enReady, varsReady, varsFin,
                         estimacion, varsNew, varsPlanif, maximo, semaforo,
                         conexion, agenda, respuesta, caida>>

(* Mutant: off by one at SEM_MAX.                                          *)
MutCabeSignal(s) == semaforo[s] <= SemMax[s]

(* A signal that would take the semaphore over SEM_MAX changes nothing.    *)
CabeSignal(s) == semaforo[s] + 1 <= SemMax[s]

(* sem_suse_signal, and sacar1HiloDeLaColaDeBloqueadosPorSemaforo up to    *)
(* pasarAReady.                                                            *)
SuseSignal(p, s) ==
    /\ Solicita(p)
    /\ CabeSignal(s)
    /\ BlockedLibre
    /\ \/ /\ cola[s] = <<>>
          /\ semaforo' = [semaforo EXCEPT ![s] = @ + 1]
          /\ UNCHANGED <<socket, programas, varsPrograma, varsReady, varsFin,
                         estimacion, transicion, varsNew, varsPlanif, maximo,
                         cola, conexion, agenda, respuesta, caida>>
       \/ /\ cola[s] # <<>> /\ Head(cola[s]).pid \notin programas
          /\ Cae("programaInexistente")
       \/ /\ cola[s] # <<>> /\ Head(cola[s]).pid \in programas
          /\ PasarAReady(Head(cola[s]))
          /\ cola' = [cola EXCEPT ![s] = Tail(@)]
          /\ conexion' = [paso |-> "despertar", pid |-> p,
                          hilo |-> Head(cola[s])]
          /\ UNCHANGED <<socket, programas, bloqueados, estaBloqueado,
                         mutexLibre, enNew, enBlocked, varsFin, estimacion,
                         varsNew, varsPlanif, maximo, semaforo, agenda,
                         respuesta, caida>>

(* if (unPrograma->estaBloqueado) pthread_mutex_unlock(...)                *)
Despertar ==
    /\ caida = "no" /\ conexion.paso = "despertar"
    /\ \/ /\ estaBloqueado[conexion.hilo.pid]
          /\ mutexLibre' = [mutexLibre EXCEPT ![conexion.hilo.pid] = TRUE]
          /\ conexion' = [conexion EXCEPT !.paso = "desmarcar"]
       \/ /\ ~estaBloqueado[conexion.hilo.pid]
          /\ conexion' = [conexion EXCEPT !.paso = "descontar"]
          /\ UNCHANGED mutexLibre
    /\ UNCHANGED <<socket, programas, exec, bloqueados, estaBloqueado, enNew,
                   enReady, enBlocked, varsReady, varsFin, estimacion,
                   transicion, varsNew, varsPlanif, maximo, varsSem, agenda,
                   respuesta, caida>>

(* Mutant: the mark outlives the block.                                    *)
MutDesmarca(p) == estaBloqueado' = estaBloqueado

(* unPrograma->estaBloqueado = false                                       *)
Desmarca(p) == estaBloqueado' = [estaBloqueado EXCEPT ![p] = FALSE]

Desmarcar ==
    /\ caida = "no" /\ conexion.paso = "desmarcar"
    /\ Desmarca(conexion.hilo.pid)
    /\ conexion' = [conexion EXCEPT !.paso = "descontar"]
    /\ UNCHANGED <<socket, programas, exec, bloqueados, mutexLibre, enNew,
                   enReady, enBlocked, varsReady, varsFin, estimacion,
                   transicion, varsNew, varsPlanif, maximo, varsSem, agenda,
                   respuesta, caida>>

(* The counter that goes down is the one of the program that signals.      *)
Descontar ==
    /\ caida = "no" /\ conexion.paso = "descontar"
    /\ enBlocked' = [enBlocked EXCEPT ![conexion.pid] = (@ - 1) % Ancho]
    /\ conexion' = EnSelect
    /\ UNCHANGED <<socket, programas, exec, bloqueados, estaBloqueado,
                   mutexLibre, enNew, enReady, varsReady, varsFin,
                   estimacion, transicion, varsNew, varsPlanif, maximo,
                   varsSem, agenda, respuesta, caida>>

-----------------------------------------------------------------------------
(* The connection thread: join and close.                                  *)

(* terminoElHilo: looks for the tid in the exit lists of every program.    *)
TerminoElHilo(t) == \E q \in Pids : \E h \in exit[q] : h.tid = t

(* bloqueadoPorAlgunHilo: h is in some list of the dictionary b.           *)
BloqueadoPorAlguno(b, h) ==
    \E t \in Tids : \E otro \in Range(b[h.pid][t]) : otro.tid = h.tid

(* realizarJoin: ignored when nobody is in exec or the tid terminated.     *)
RealizarJoin(p, t) ==
    /\ Solicita(p)
    /\ exec[p] # Nadie
    /\ ~TerminoElHilo(t)
    /\ enBlocked' = [enBlocked EXCEPT ![p] =
           IF BloqueadoPorAlguno(bloqueados, exec[p]) THEN @
           ELSE (@ + 1) % Ancho]
    /\ bloqueados' = [bloqueados EXCEPT ![p][t] = Append(@, exec[p])]
    /\ transicion' = [transicion EXCEPT ![exec[p]] = "Blocked"]
    /\ DejarExec(p)
    /\ UNCHANGED <<socket, programas, estaBloqueado, mutexLibre, enNew,
                   enReady, varsReady, varsFin, estimacion, varsNew,
                   varsPlanif, maximo, varsSem, conexion, agenda, respuesta,
                   caida>>

(* realizarClose and pasarAExit, up to the metrics.                        *)
RealizarClose(p, t) ==
    /\ Solicita(p)
    /\ \/ /\ exec[p] = Nadie
          /\ Cae("closeSinExec")
       \/ /\ exec[p] # Nadie /\ exec[p].tid = t
          /\ exit' = [exit EXCEPT ![p] = @ \cup {exec[p]}]
          /\ transicion' = [transicion EXCEPT ![exec[p]] = "Exit"]
          /\ conexion' = [paso |-> "metricas", pid |-> p, hilo |-> exec[p]]
          /\ UNCHANGED <<socket, programas, varsPrograma, varsReady,
                         liberados, estimacion, varsNew, varsPlanif, maximo,
                         varsSem, agenda, respuesta, caida>>

(* The metrics of a hilo read its program: a hilo in new or in ready whose *)
(* program is gone makes the process crash.                                *)
SinPrograma ==
    \E h \in Range(new) \cup UNION {Range(ready[p]) : p \in listas} :
        h.pid \notin programas

(* Mutant: the hilos of new are copied to colaAux and not popped.          *)
MutVaciar == colaAux' = new /\ UNCHANGED <<new, hayNuevos>>

(* tomarMetricas...ParaSem pops every hilo of new and pushes it back       *)
(* without sem_new, under sem_metricas.                                    *)
Vaciar ==
    /\ colaAux' = new
    /\ new' = <<>>
    /\ UNCHANGED hayNuevos

Devolver ==
    /\ new' = new \o colaAux
    /\ colaAux' = <<>>
    /\ metricas' = "libre"
    /\ UNCHANGED hayNuevos

(* pasarAExit: tomarMetricas in the connection thread.                     *)
MetricasClose ==
    /\ caida = "no" /\ conexion.paso = "metricas" /\ metricas = "libre"
    /\ \/ /\ SinPrograma
          /\ Cae("programaInexistente")
       \/ /\ ~SinPrograma
          /\ Vaciar
          /\ metricas' = "close"
          /\ conexion' = [conexion EXCEPT !.paso = "devolver"]
          /\ UNCHANGED <<socket, programas, varsPrograma, varsReady, varsFin,
                         estimacion, transicion, varsPlanif, maximo, varsSem,
                         agenda, respuesta, caida>>

(* The end of pasarAExit, with sem_post(&MAXIMOPROCESAMIENTO).             *)
DevolverClose ==
    /\ caida = "no" /\ conexion.paso = "devolver"
    /\ Devolver
    /\ PostMaximo
    /\ conexion' = [conexion EXCEPT !.paso = "soltarExec"]
    /\ UNCHANGED <<socket, programas, varsPrograma, varsReady, varsFin,
                   estimacion, transicion, varsPlanif, varsSem, agenda,
                   respuesta, caida>>

(* realizarClose: exec = NULL                                              *)
SoltarExec ==
    /\ caida = "no" /\ conexion.paso = "soltarExec"
    /\ DejarExec(conexion.pid)
    /\ conexion' = [conexion EXCEPT !.paso = "liberar"]
    /\ UNCHANGED <<socket, programas, bloqueados, estaBloqueado, mutexLibre,
                   enNew, enReady, enBlocked, varsReady, varsFin, estimacion,
                   transicion, varsNew, varsPlanif, maximo, varsSem, agenda,
                   respuesta, caida>>

(* The hilos that join the one being closed, in the order they asked.      *)
Esperan == bloqueados[conexion.pid][conexion.hilo.tid]

(* Mutant: list_get where the code has list_remove.                        *)
MutQuitarPrimero(p, t) == bloqueados' = bloqueados

(* tomarHiloBloqueadoPor                                                   *)
QuitarPrimero(p, t) ==
    bloqueados' = [bloqueados EXCEPT ![p][t] = Tail(@)]

(* One iteration of liberarBloqueadosPorElHilo: the first hilo that waits  *)
(* leaves the list, and goes to ready unless another list has it.          *)
Liberar ==
    /\ caida = "no" /\ conexion.paso = "liberar"
    /\ \/ /\ Esperan = <<>>
          /\ conexion' = EnSelect
          /\ UNCHANGED <<bloqueados, enBlocked, enReady, ready, transicion>>
       \/ /\ Esperan # <<>>
          /\ QuitarPrimero(conexion.pid, conexion.hilo.tid)
          /\ UNCHANGED conexion
          /\ IF BloqueadoPorAlguno(bloqueados', Head(Esperan))
             THEN UNCHANGED <<enBlocked, enReady, ready, transicion>>
             ELSE LET h == Head(Esperan) IN
                  /\ ready' = [ready EXCEPT ![h.pid] = Append(@, h)]
                  /\ transicion' = [transicion EXCEPT ![h] = "Ready"]
                  /\ enBlocked' = [enBlocked EXCEPT ![h.pid] = (@ - 1) % Ancho]
                  /\ enReady' = [enReady EXCEPT ![h.pid] = @ + 1]
    /\ UNCHANGED <<socket, programas, exec, estaBloqueado, mutexLibre, enNew,
                   listas, varsFin, estimacion, varsNew, varsPlanif, maximo,
                   varsSem, agenda, respuesta, caida>>

-----------------------------------------------------------------------------
(* The connection thread: disconnection.                                   *)

(* read returned 0: one post, whatever hilos the program leaves behind.    *)
Desconectar(p) ==
    /\ EnServicio(p)
    /\ socket' = [socket EXCEPT ![p] = "cerrado"]
    /\ respuesta' = [respuesta EXCEPT ![p] = Ninguna]
    /\ PostMaximo
    /\ conexion' = [paso |-> "limpiarReady", pid |-> p, hilo |-> Nadie]
    /\ UNCHANGED <<programas, varsPrograma, varsReady, varsFin, estimacion,
                   transicion, varsNew, varsPlanif, varsSem, agenda, caida>>

(* limpiarEstructuras frees the exit and the ready list, ...               *)
LimpiarReady ==
    LET p == conexion.pid IN
    /\ caida = "no" /\ conexion.paso = "limpiarReady"
    /\ listas' = listas \ {p}
    /\ ready' = [ready EXCEPT ![p] = <<>>]
    /\ exit' = [exit EXCEPT ![p] = {}]
    /\ liberados' = liberados \cup exit[p] \cup Range(ready[p])
    /\ conexion' = [conexion EXCEPT !.paso = "limpiarPrograma"]
    /\ UNCHANGED <<socket, programas, varsPrograma, estimacion, transicion,
                   varsNew, varsPlanif, maximo, varsSem, agenda, respuesta,
                   caida>>

(* Mutant: every hilo of the program is freed, those in queues as well.    *)
MutBorraPrograma(p) == {h \in Hilo : h.pid = p}

(* ... then borrarPrograma the hilos blocked by a join and the one in exec.*)
(* Those in new and in the queues of the semaphores stay there.            *)
BorraPrograma(p) == ({exec[p]} \ {Nadie})
                    \cup UNION {Range(bloqueados[p][t]) : t \in Tids}

LimpiarPrograma ==
    LET p == conexion.pid IN
    /\ caida = "no" /\ conexion.paso = "limpiarPrograma"
    /\ programas' = programas \ {p}
    /\ liberados' = liberados \cup BorraPrograma(p)
    /\ DejarExec(p)
    /\ bloqueados' = [bloqueados EXCEPT ![p] = [t \in Tids |-> <<>>]]
    /\ conexion' = EnSelect
    /\ UNCHANGED <<socket, estaBloqueado, mutexLibre, enNew, enReady,
                   enBlocked, varsReady, exit, estimacion, transicion,
                   varsNew, varsPlanif, maximo, varsSem, agenda, respuesta,
                   caida>>

-----------------------------------------------------------------------------
(* The thread planificarReady.                                             *)

(* sem_wait(&hayNuevos) and queue_pop(new), NULL when new is empty.        *)
TomarNuevo ==
    /\ caida = "no" /\ planificador = "espera" /\ hayNuevos > 0
    /\ hayNuevos' = hayNuevos - 1
    /\ \/ /\ new = <<>>
          /\ UNCHANGED <<new, enMano>>
       \/ /\ new # <<>>
          /\ enMano' = Head(new)
          /\ new' = Tail(new)
    /\ planificador' = "tomado"
    /\ UNCHANGED <<socket, programas, varsPrograma, varsReady, varsFin,
                   estimacion, transicion, colaAux, metricas, maximo,
                   varsSem, conexion, agenda, respuesta, caida>>

(* sem_wait(&MAXIMOPROCESAMIENTO) and cantidadDeHilosEnNew--.              *)
Admitir ==
    /\ caida = "no" /\ planificador = "tomado" /\ HayLugar
    /\ ProgramasLibre
    /\ \/ /\ enMano = Nadie
          /\ Cae("colaNewVacia")
       \/ /\ enMano # Nadie /\ enMano.pid \notin programas
          /\ Cae("programaInexistente")
       \/ /\ enMano # Nadie /\ enMano.pid \in programas
          /\ maximo' = maximo - 1
          /\ enNew' = [enNew EXCEPT ![enMano.pid] = @ - 1]
          /\ planificador' = "admitido"
          /\ UNCHANGED <<socket, programas, exec, bloqueados, estaBloqueado,
                         mutexLibre, enReady, enBlocked, varsReady, varsFin,
                         estimacion, transicion, varsNew, enMano, varsSem,
                         conexion, agenda, respuesta, caida>>

(* The call of pasarAReady.                                                *)
PasarNuevo ==
    /\ caida = "no" /\ planificador = "admitido"
    /\ ProgramasLibre
    /\ \/ /\ enMano.pid \notin programas
          /\ Cae("programaInexistente")
       \/ /\ enMano.pid \in programas
          /\ PasarAReady(enMano)
          /\ enMano' = Nadie
          /\ planificador' = "espera"
          /\ UNCHANGED <<socket, programas, bloqueados, estaBloqueado,
                         mutexLibre, enNew, enBlocked, varsFin, estimacion,
                         varsNew, maximo, varsSem, conexion, agenda,
                         respuesta, caida>>

-----------------------------------------------------------------------------
(* The metrics thread.                                                     *)
MetricasTimer ==
    /\ TimerMetricas
    /\ caida = "no" /\ metricas = "libre"
    /\ BlockedLibre
    /\ \/ /\ SinPrograma
          /\ Cae("programaInexistente")
       \/ /\ ~SinPrograma /\ new # <<>>
          /\ Vaciar
          /\ metricas' = "timer"
          /\ UNCHANGED <<socket, programas, varsPrograma, varsReady, varsFin,
                         estimacion, transicion, varsPlanif, maximo, varsSem,
                         conexion, agenda, respuesta, caida>>

DevolverTimer ==
    /\ caida = "no" /\ metricas = "timer"
    /\ Devolver
    /\ UNCHANGED <<socket, programas, varsPrograma, varsReady, varsFin,
                   estimacion, transicion, varsPlanif, maximo, varsSem,
                   conexion, agenda, respuesta, caida>>

-----------------------------------------------------------------------------
(* The thread atenderScheduleNext of program p.                            *)

(* recalcularEstimacion: the estimation of the hilo in exec becomes any    *)
(* value, as the burst is measured with a clock all the programs share.    *)
Recalcular(p) ==
    /\ caida = "no" /\ agenda[p] = "recalcular"
    /\ ProgramasLibre
    /\ \/ /\ p \in programas /\ exec[p] # Nadie
          /\ \E e \in Estimaciones :
                 estimacion' = [estimacion EXCEPT ![exec[p]] = e]
       \/ /\ p \notin programas \/ exec[p] = Nadie
          /\ UNCHANGED estimacion
    /\ agenda' = [agenda EXCEPT ![p] = "replanificar"]
    /\ UNCHANGED <<socket, programas, varsPrograma, varsReady, varsFin,
                   transicion, varsNew, varsPlanif, maximo, varsSem,
                   conexion, respuesta, caida>>

(* What list_sort with tieneMenorEstimacion may return: the same hilos,    *)
(* each one once, none before one with a lower estimation.                 *)
Ordenamientos(l) ==
    {s \in [DOMAIN l -> Range(l)] :
        /\ Range(s) = Range(l)
        /\ \A i, j \in DOMAIN s :
               i < j => estimacion[s[i]] <= estimacion[s[j]]}

(* replanificarHilos                                                       *)
Replanificar(p) ==
    /\ caida = "no" /\ agenda[p] = "replanificar"
    /\ \/ /\ p \notin listas
          /\ Cae("listaInexistente")
       \/ /\ p \in listas
          /\ \E s \in Ordenamientos(ready[p]) :
                 ready' = [ready EXCEPT ![p] = s]
          /\ agenda' = [agenda EXCEPT ![p] = "calcular"]
          /\ UNCHANGED <<socket, programas, varsPrograma, listas, varsFin,
                         estimacion, transicion, varsNew, varsPlanif, maximo,
                         varsSem, conexion, respuesta, caida>>

(* send of the tid; nobody gets it when the socket was closed.             *)
Responder(p, h) ==
    respuesta' = [respuesta EXCEPT
                     ![p] = IF socket[p] = "conectado" THEN h.tid ELSE @]

(* calcularSiguienteHilo finds the structures of the program.              *)
Calcular(p) ==
    /\ caida = "no" /\ agenda[p] = "calcular"
    /\ ProgramasLibre

CalcularCae(p) ==
    /\ Calcular(p)
    /\ \/ /\ p \notin listas
          /\ Cae("listaInexistente")
       \/ /\ p \in listas /\ p \notin programas
          /\ Cae("programaInexistente")

(* The candidate is shorter than the hilo in exec: they change places.     *)
EsMasCorto(p) ==
    /\ ready[p] # <<>>
    /\ estimacion[Head(ready[p])] < estimacion[exec[p]]

Desalojar(p) ==
    /\ Calcular(p)
    /\ p \in listas /\ p \in programas
    /\ exec[p] # Nadie /\ EsMasCorto(p)
    /\ ready' = [ready EXCEPT ![p] = Append(Tail(@), exec[p])]
    /\ exec' = [exec EXCEPT ![p] = Head(ready[p])]
    /\ transicion' = [transicion EXCEPT ![exec[p]] = "Ready",
                                        ![Head(ready[p])] = "Execute"]
    /\ Responder(p, Head(ready[p]))
    /\ agenda' = [agenda EXCEPT ![p] = "no"]
    /\ UNCHANGED <<socket, programas, bloqueados, estaBloqueado, mutexLibre,
                   enNew, enReady, enBlocked, listas, varsFin, estimacion,
                   varsNew, varsPlanif, maximo, varsSem, conexion, caida>>

Continuar(p) ==
    /\ Calcular(p)
    /\ p \in listas /\ p \in programas
    /\ exec[p] # Nadie /\ ~EsMasCorto(p)
    /\ Responder(p, exec[p])
    /\ agenda' = [agenda EXCEPT ![p] = "no"]
    /\ UNCHANGED <<socket, programas, varsPrograma, varsReady, varsFin,
                   estimacion, transicion, varsNew, varsPlanif, maximo,
                   varsSem, conexion, caida>>

(* Mutant: the counter of ready hilos only grows.                          *)
MutDescontarReady(p) == enReady' = enReady

(* cantidadDeHilosEnReady--                                                *)
DescontarReady(p) == enReady' = [enReady EXCEPT ![p] = @ - 1]

(* The first of ready goes to exec, with no look at who is there.          *)
Despachar(p) ==
    /\ ready[p] # <<>>
    /\ exec' = [exec EXCEPT ![p] = Head(ready[p])]
    /\ ready' = [ready EXCEPT ![p] = Tail(@)]
    /\ DescontarReady(p)
    /\ transicion' = [transicion EXCEPT ![Head(ready[p])] = "Execute"]
    /\ Responder(p, Head(ready[p]))
    /\ agenda' = [agenda EXCEPT ![p] = "no"]
    /\ UNCHANGED <<socket, programas, bloqueados, estaBloqueado, mutexLibre,
                   enNew, enBlocked, listas, varsFin, estimacion, varsNew,
                   varsPlanif, maximo, varsSem, conexion, caida>>

DespacharSiguiente(p) ==
    /\ Calcular(p)
    /\ p \in listas /\ p \in programas
    /\ exec[p] = Nadie
    /\ Despachar(p)

(* Nobody is ready: both semaphores are posted, nothing is marked yet.     *)
QuedarSinHilos(p) ==
    /\ Calcular(p)
    /\ p \in listas /\ p \in programas
    /\ exec[p] = Nadie /\ ready[p] = <<>>
    /\ agenda' = [agenda EXCEPT ![p] = "marcar"]
    /\ UNCHANGED <<socket, programas, varsPrograma, varsReady, varsFin,
                   estimacion, transicion, varsNew, varsPlanif, maximo,
                   varsSem, conexion, respuesta, caida>>

(* unPrograma->estaBloqueado = true, under no semaphore.                   *)
Marcar(p) ==
    /\ caida = "no" /\ agenda[p] = "marcar"
    /\ \/ /\ p \notin programas
          /\ Cae("programaInexistente")
       \/ /\ p \in programas
          /\ estaBloqueado' = [estaBloqueado EXCEPT ![p] = TRUE]
          /\ agenda' = [agenda EXCEPT ![p] = "mutex"]
          /\ UNCHANGED <<socket, programas, exec, bloqueados, mutexLibre,
                         enNew, enReady, enBlocked, varsReady, varsFin,
                         estimacion, transicion, varsNew, varsPlanif, maximo,
                         varsSem, conexion, respuesta, caida>>

(* pthread_mutex_lock.  Once the program is freed nobody unlocks it.       *)
TomarMutex(p) ==
    /\ caida = "no" /\ agenda[p] = "mutex"
    /\ p \in programas /\ mutexLibre[p]
    /\ mutexLibre' = [mutexLibre EXCEPT ![p] = FALSE]
    /\ agenda' = [agenda EXCEPT ![p] = "retomar"]
    /\ UNCHANGED <<socket, programas, exec, bloqueados, estaBloqueado, enNew,
                   enReady, enBlocked, varsReady, varsFin, estimacion,
                   transicion, varsNew, varsPlanif, maximo, varsSem,
                   conexion, respuesta, caida>>

(* The end of calcularSiguienteHilo after the block.                       *)
Retomar(p) ==
    /\ caida = "no" /\ agenda[p] = "retomar"
    /\ ProgramasLibre
    /\ \/ /\ p \notin listas
          /\ Cae("listaInexistente")
       \/ /\ p \in listas /\ (p \notin programas \/ ready[p] = <<>>)
          /\ Cae("candidatoNulo")
       \/ /\ p \in listas /\ p \in programas
          /\ Despachar(p)

-----------------------------------------------------------------------------
(* The recv of suse_schedule_next in the program.                          *)
Recibir(p) ==
    /\ respuesta[p] # Ninguna
    /\ respuesta' = [respuesta EXCEPT ![p] = Ninguna]
    /\ UNCHANGED <<socket, programas, varsPrograma, varsReady, varsFin,
                   estimacion, transicion, varsNew, varsPlanif, maximo,
                   varsSem, conexion, agenda, caida>>

(* The steps of the server that need no request.                           *)
PasoConexion ==
    \/ ContarNew \/ Despertar \/ Desmarcar \/ Descontar
    \/ MetricasClose \/ DevolverClose \/ SoltarExec \/ Liberar
    \/ LimpiarReady \/ LimpiarPrograma

PasoPlanificador == TomarNuevo \/ Admitir \/ PasarNuevo

PasoAgenda(p) ==
    \/ Recalcular(p) \/ Replanificar(p) \/ CalcularCae(p) \/ Desalojar(p)
    \/ Continuar(p) \/ DespacharSiguiente(p) \/ QuedarSinHilos(p)
    \/ Marcar(p) \/ TomarMutex(p) \/ Retomar(p)

PasoServidor ==
    \/ PasoConexion
    \/ PasoPlanificador
    \/ MetricasTimer \/ DevolverTimer
    \/ \E p \in Pids : PasoAgenda(p)

Solicitud(p) ==
    \/ CrearPrograma(p) \/ ScheduleNext(p) \/ Desconectar(p)
    \/ \E t \in Tids : \/ CrearHilo(p, t)
                       \/ RealizarJoin(p, t)
                       \/ RealizarClose(p, t)
                       \/ \E s \in Sems : SuseWait(p, t, s)
    \/ \E s \in Sems : SuseSignal(p, s)

Next == PasoServidor \/ (\E p \in Pids : Solicitud(p) \/ Recibir(p))

Spec == Init /\ [][Next]_vars

(* Each thread of the server runs when it can.  planificarReady waits for  *)
(* semaphores that only it takes; the others wait for short sections.      *)
Equidad ==
    /\ WF_vars(PasoConexion)
    /\ WF_vars(PasoPlanificador)
    /\ WF_vars(DevolverTimer)
    /\ \A p \in Pids : WF_vars(PasoAgenda(p))

FairSpec == Spec /\ Equidad
=============================================================================
