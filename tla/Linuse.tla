------------------------------- MODULE Linuse -------------------------------
(***************************************************************************)
(* Programs linked with Hilolay under the scheduling server SUSE.  A call  *)
(* of the library and the handler that reads it are one joint step; the    *)
(* answer to suse_schedule_next is `respuesta', read in another.           *)
(***************************************************************************)
EXTENDS SUSEProps

CONSTANTS
    MaxUlts,        \* MAX_ULTS
    Matables        \* the programs that may be killed

ASSUME LinuseAssumption ==
    /\ MaxUlts \in Nat \ {0}
    /\ 0 .. MaxUlts - 1 \subseteq Tids
    /\ Matables \subseteq Pids

VARIABLES fase, actual, proximo

H == INSTANCE Hilolay WITH Programas <- Pids

varsLinuse == <<vars, fase, actual, proximo>>

Inicio == Init /\ H!HilolayInit

Sistema == PasoServidor /\ UNCHANGED <<fase, actual, proximo>>

Conectar(p) == H!Conecta(p) /\ CrearPrograma(p)

SuseCreate(p) ==
    \/ H!CreaMain(p) /\ CrearHilo(p, 0)
    \/ \E t \in Tids : H!Crea(p, t) /\ CrearHilo(p, t)

HilolayWait(p) ==
    \E s \in Sems : H!UsaSemaforo(p, actual[p]) /\ SuseWait(p, actual[p], s)

(* A signal of a semaphore at its maximum changes nothing in the server.   *)
HilolaySignal(p) ==
    /\ H!UsaSemaforo(p, actual[p])
    /\ \E s \in Sems :
        \/ SuseSignal(p, s)
        \/ Solicita(p) /\ semaforo[s] + 1 > SemMax[s] /\ UNCHANGED vars

(* A join with nobody in exec, or of a tid that terminated, is ignored.    *)
HilolayJoin(p) ==
    \E t \in Tids :
        /\ H!Espera(p, t)
        /\ \/ RealizarJoin(p, t)
           \/ /\ Solicita(p) /\ (exec[p] = Nadie \/ TerminoElHilo(t))
              /\ UNCHANGED vars

(* A close of a hilo that is not in exec is ignored.                       *)
SuseClose(p) ==
    /\ H!Retorna(p, actual[p]) \/ H!RetornaMain(p, actual[p])
    /\ \/ RealizarClose(p, actual[p])
       \/ /\ Solicita(p) /\ exec[p] # Nadie /\ exec[p].tid # actual[p]
          /\ UNCHANGED vars

HilolayYield(p) == H!Cede(p) /\ ScheduleNext(p)

SwapContext(p) == \E t \in Tids :
    respuesta[p] = t /\ H!Cambia(p, t) /\ Recibir(p)

Terminar(p) == H!Cierra(p) /\ Desconectar(p)

Matar(p) == p \in Matables /\ H!Muere(p) /\ Desconectar(p)

Programa(p) ==
    \/ Conectar(p) \/ SuseCreate(p) \/ HilolayWait(p) \/ HilolaySignal(p)
    \/ HilolayJoin(p) \/ SuseClose(p) \/ HilolayYield(p) \/ SwapContext(p)
    \/ Terminar(p) \/ Matar(p)

Siguiente == Sistema \/ \E p \in Pids : Programa(p)

SpecLinuse == Inicio /\ [][Siguiente]_varsLinuse

(* The server's threads run, and so does a program that got its answer.    *)
FairLinuse ==
    /\ SpecLinuse
    /\ WF_varsLinuse(PasoConexion /\ UNCHANGED <<fase, actual, proximo>>)
    /\ WF_varsLinuse(PasoPlanificador /\ UNCHANGED <<fase, actual, proximo>>)
    /\ WF_varsLinuse(DevolverTimer /\ UNCHANGED <<fase, actual, proximo>>)
    /\ \A p \in Pids :
        /\ WF_varsLinuse(PasoAgenda(p) /\ UNCHANGED <<fase, actual, proximo>>)
        /\ WF_varsLinuse(SwapContext(p))

-----------------------------------------------------------------------------
(* Program and server together.                                            *)

Actual(p) == [pid |-> p, tid |-> actual[p]]

(* The hilo a program runs is the one the server has in exec for it; there *)
(* is none only until planificarReady admits main.                         *)
AcuerdoEnExec ==
    \A p \in Pids : fase[p] = "corre" /\ exec[p] # Nadie => exec[p] = Actual(p)

(* A hilo that blocked in a wait or a join, or that ended, does not run.   *)
BloqueadoNoCorre ==
    \A p \in Pids : fase[p] = "corre" =>
        transicion[Actual(p)] \notin {"Blocked", "Exit"}

(* What the programs can do to the server, the metrics timer apart: once   *)
(* main was admitted no call of the library makes it die, neither by       *)
(* "El hilo en ejecucion no pidio el wait" nor by a NULL exec or list; a   *)
(* hilo without program is one that a program that ended left behind, and  *)
(* new is found empty only by the metrics that a close takes.              *)
CaidasConocidas ==
    /\ caida \notin {"noPidioElWait", "candidatoNulo"}
    /\ caida = "colaNewVacia"
           => \E p \in Pids : exit[p] # {} \/ socket[p] = "cerrado"
    /\ caida \in {"waitSinExec", "closeSinExec", "listaInexistente"}
           => \E p \in Pids : socket[p] = "conectado" /\ p \notin listas
    /\ caida = "programaInexistente" => \E p \in Pids : socket[p] = "cerrado"
=============================================================================
