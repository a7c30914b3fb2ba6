----------------------------- MODULE SUSELocks -----------------------------
(***************************************************************************)
(* The order in which the threads of src/Planificador/SUSE/SUSE.c take the *)
(* binary semaphores that protect its structures.  The data is left out:   *)
(* a handler is the sequence of sem_wait and sem_post it may execute, one  *)
(* sequence per outcome of the conditions that guard some of them.         *)
(* MAXIMOPROCESAMIENTO and hayNuevos are waited for with no semaphore      *)
(* held; the semaphore of the log is taken last and holds nothing up.      *)
(***************************************************************************)
EXTENDS Integers, Sequences

CONSTANTS
    Agendas,    \* the threads atenderScheduleNext
    ConJoin,    \* a hilo that is closed may have hilos that join it
    Libre       \* nobody holds the semaphore

ASSUME LocksAssumption ==
    /\ ConJoin \in BOOLEAN
    /\ Libre \notin Agendas \cup {"conexion", "planificador", "metricas"}

Semaforos == {"metricas", "SEMAFOROS", "blockedPorSemaforo", "exit", "new",
              "ready", "programas"}

Hebras == Agendas \cup {"conexion", "planificador", "metricas"}

VARIABLES
    tiene,      \* holder of each semaphore
    resto       \* what is left of the handler each thread is in

varsLocks == <<tiene, resto>>

-----------------------------------------------------------------------------
(* The handlers.                                                           *)

Wait(s) == <<<<"wait", s>>>>
Post(s) == <<<<"post", s>>>>

(* Mutant: a return before the sem_post.                                   *)
MutEn(s, adentro) == Wait(s) \o adentro

En(s, adentro) == Wait(s) \o adentro \o Post(s)

Corto(s) == En(s, <<>>)

(* Mutant: pasarAReady nests its semaphores the other way round.           *)
MutPasarAReady == En("programas", Corto("ready"))

(* pasarAReady                                                             *)
PasarAReady == En("ready", Corto("programas"))

(* tomarMetricas, each kind of pass once                                   *)
TomarMetricas ==
    En("metricas", Corto("new") \o Corto("programas") \o Corto("ready")
                   \o Corto("blockedPorSemaforo") \o Corto("SEMAFOROS"))

(* sem_suse_wait, with resources and without                               *)
SuseWait ==
    {Corto("SEMAFOROS"),
     En("SEMAFOROS", En("blockedPorSemaforo", Corto("programas")))}

(* sem_suse_signal: maximum reached, nobody waits, somebody waits          *)
SuseSignal ==
    {Corto("SEMAFOROS"),
     En("SEMAFOROS", Corto("blockedPorSemaforo")),
     En("SEMAFOROS",
        En("blockedPorSemaforo", PasarAReady \o Corto("programas")))}

CrearHilo == Corto("new") \o Corto("programas")

(* liberarBloqueadosPorElHilo, after pasarAExit                            *)
RealizarClose ==
    LET liberar(adentro) ==
            Corto("exit") \o TomarMetricas \o En("programas", adentro)
    IN {liberar(<<>>)} \cup (IF ConJoin THEN {liberar(Corto("ready"))} ELSE {})

LimpiarEstructuras == Corto("exit") \o Corto("ready") \o Corto("programas")

(* crearPrograma and realizarJoin take sem_programas only.                 *)
Conexion ==
    {CrearHilo, Corto("programas"), LimpiarEstructuras}
    \cup SuseWait \cup SuseSignal \cup RealizarClose

PlanificarReady == {Corto("new") \o Corto("programas") \o PasarAReady}

(* siguienteAEjecutar posts sem_diccionario_ready before sem_programas;    *)
(* when it blocks it does so a second time.                                *)
SiguienteAEjecutar ==
    LET calcular == Wait("ready") \o Wait("programas")
                    \o Post("ready") \o Post("programas")
        antes == Corto("programas") \o Corto("ready") \o calcular
    IN {antes, antes \o calcular}

Manejadores(h) ==
    CASE h = "conexion" -> Conexion
      [] h = "planificador" -> PlanificarReady
      [] h = "metricas" -> {TomarMetricas}
      [] OTHER -> SiguienteAEjecutar

-----------------------------------------------------------------------------
Init ==
    /\ tiene = [s \in Semaforos |-> Libre]
    /\ resto = [h \in Hebras |-> <<>>]

Empezar(h) ==
    /\ resto[h] = <<>>
    /\ \E m \in Manejadores(h) : resto' = [resto EXCEPT ![h] = m]
    /\ UNCHANGED tiene

Pide(h, s) == resto[h] # <<>> /\ Head(resto[h]) = <<"wait", s>>

SemWait(h, s) ==
    /\ Pide(h, s)
    /\ tiene[s] = Libre
    /\ tiene' = [tiene EXCEPT ![s] = h]
    /\ resto' = [resto EXCEPT ![h] = Tail(@)]

SemPost(h, s) ==
    /\ resto[h] # <<>> /\ Head(resto[h]) = <<"post", s>>
    /\ tiene' = [tiene EXCEPT ![s] = Libre]
    /\ resto' = [resto EXCEPT ![h] = Tail(@)]

Avanza(h) == \E s \in Semaforos : SemWait(h, s) \/ SemPost(h, s)

Next == \E h \in Hebras : Empezar(h) \/ Avanza(h)

Spec == Init /\ [][Next]_varsLocks

(* A semaphore that is posted again and again is obtained at last.         *)
FairSpec == Spec /\ \A h \in Hebras : SF_varsLocks(Avanza(h))

-----------------------------------------------------------------------------
Paso == {"wait", "post"} \X Semaforos

TypeOK ==
    /\ tiene \in [Semaforos -> Hebras \cup {Libre}]
    /\ resto \in [Hebras -> Seq(Paso)]

(* A thread posts only what it holds, so that every critical section of    *)
(* SUSE.c is exclusive, and it holds nothing between two handlers.         *)
DuenoCorrecto ==
    \A h \in Hebras, s \in Semaforos :
        /\ resto[h] = <<>> => tiene[s] # h
        /\ resto[h] # <<>> /\ Head(resto[h]) = <<"post", s>> => tiene[s] = h

(* h waits for a semaphore that g holds.                                   *)
EsperaA(h, g) == \E s \in Semaforos : Pide(h, s) /\ tiene[s] = g

(* No set of threads in which each one waits for another.                  *)
SinInterbloqueo ==
    \A S \in (SUBSET Hebras) \ {{}} :
        \E h \in S : \A g \in S : ~EsperaA(h, g)

(* Every handler ends: no program makes SUSE stop serving the others.      *)
TodoManejadorTermina == \A h \in Hebras : resto[h] # <<>> ~> resto[h] = <<>>
=============================================================================
