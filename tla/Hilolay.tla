------------------------------ MODULE Hilolay ------------------------------
(***************************************************************************)
(* The user-level thread library of the programs,                          *)
(* src/Planificador/Hilolay/hilolay/hilolay_internal.c, and the calls it   *)
(* makes to SUSE (implementaciones.c).                                     *)
(*                                                                         *)
(* A program has one kernel thread: at any time it runs one hilo           *)
(* (current_ult) or waits for the answer to suse_schedule_next, the only   *)
(* call that has one.  The other calls are a send.  As the bytes of a      *)
(* program are read in order and the library decides nothing on what the   *)
(* server did with them until that answer, a call happens here when SUSE   *)
(* reads it (module Linuse).                                               *)
(***************************************************************************)
EXTENDS Integers

CONSTANTS
    Programas,  \* the programs
    MaxUlts     \* MAX_ULTS, the length of the table of TCBs

VARIABLES
    fase,       \* what the program does next
    actual,     \* current_ult->id
    proximo     \* NEXT_ID: tids 0 .. proximo - 1 have a TCB

varsHilolay == <<fase, actual, proximo>>

Fases == {"fuera",      \* hilolay_init was not called
          "conectado",  \* suse_init returned
          "corre",      \* the code of hilo `actual'
          "cede",       \* hilolay_yield, after a call that implies it
          "espera",     \* recv of suse_schedule_next
          "sale",       \* hilolay_return returned, or the process crashed
          "cerro"}      \* the process ended, its socket is closed

HilolayInit ==
    /\ fase = [p \in Programas |-> "fuera"]
    /\ actual = [p \in Programas |-> 0]
    /\ proximo = [p \in Programas |-> 1]

Va(p, de, a) == fase[p] = de /\ fase' = [fase EXCEPT ![p] = a]

(* hilolay_init: suse_init connects, ...                                   *)
Conecta(p) ==
    Va(p, "fuera", "conectado") /\ UNCHANGED <<actual, proximo>>

(* ... and init_internal creates main with tid 0.                          *)
CreaMain(p) ==
    Va(p, "conectado", "corre") /\ UNCHANGED <<actual, proximo>>

(* hilolay_create; with no free TCB it returns ERROR_TOO_MANY_ULTS.        *)
Crea(p, t) ==
    /\ fase[p] = "corre"
    /\ proximo[p] < MaxUlts
    /\ t = proximo[p]
    /\ proximo' = [proximo EXCEPT ![p] = @ + 1]
    /\ UNCHANGED <<fase, actual>>

(* hilolay_wait and hilolay_signal: the call, then hilolay_yield.          *)
UsaSemaforo(p, t) ==
    /\ t = actual[p]
    /\ Va(p, "corre", "cede") /\ UNCHANGED <<actual, proximo>>

(* hilolay_join of another hilo that was created, then hilolay_yield.      *)
Espera(p, t) ==
    /\ t \in 1 .. proximo[p] - 1 /\ t # actual[p]
    /\ Va(p, "corre", "cede") /\ UNCHANGED <<actual, proximo>>

(* wrap: the function of a hilo returned, suse_close and hilolay_yield.    *)
Retorna(p, t) ==
    /\ t = actual[p] /\ t # 0
    /\ Va(p, "corre", "cede") /\ UNCHANGED <<actual, proximo>>

(* hilolay_return in main: suse_close, no yield; main then returns.        *)
RetornaMain(p, t) ==
    /\ t = actual[p] /\ t = 0
    /\ Va(p, "corre", "sale") /\ UNCHANGED <<actual, proximo>>

(* hilolay_yield: get_next_tid asks SUSE for the next hilo, ...            *)
Cede(p) ==
    /\ fase[p] \in {"corre", "cede"}
    /\ fase' = [fase EXCEPT ![p] = "espera"]
    /\ UNCHANGED <<actual, proximo>>

(* ... and swap_context runs it; a tid without TCB is a NULL context.      *)
Cambia(p, t) ==
    /\ fase[p] = "espera"
    /\ \/ /\ t < proximo[p]
          /\ actual' = [actual EXCEPT ![p] = t]
          /\ fase' = [fase EXCEPT ![p] = "corre"]
       \/ /\ t >= proximo[p]
          /\ fase' = [fase EXCEPT ![p] = "sale"]
          /\ UNCHANGED actual
    /\ UNCHANGED proximo

(* The process ends, after hilolay_return or, killed, at any time.         *)
Cierra(p) == Va(p, "sale", "cerro") /\ UNCHANGED <<actual, proximo>>

Muere(p) ==
    /\ fase[p] \in {"conectado", "corre", "cede", "espera"}
    /\ fase' = [fase EXCEPT ![p] = "cerro"]
    /\ UNCHANGED <<actual, proximo>>
=============================================================================
