---------------------------- MODULE CincoEstados ----------------------------
(***************************************************************************)
(* What SUSE promises a program about its hilos: the five states whose     *)
(* transitions loguearTransicion writes to Transiciones.log.  A program    *)
(* executes one hilo at most; its first hilo to be admitted executes at    *)
(* once; a blocked hilo comes back through ready; exit is final.  Nothing  *)
(* is promised once the program disconnects.                               *)
(***************************************************************************)
CONSTANTS Pids, Tids

Hilo == [pid : Pids, tid : Tids]

VARIABLES estado, vivo

varsEstados == <<estado, vivo>>

De(p, e) == {h \in Hilo : h.pid = p /\ estado[h] = e}

Inicial ==
    /\ estado = [h \in Hilo |-> "Inexistente"]
    /\ vivo = [p \in Pids |-> FALSE]

Pasa(h, de, a) ==
    /\ vivo[h.pid]
    /\ estado[h] = de
    /\ estado' = [estado EXCEPT ![h] = a]
    /\ UNCHANGED vivo

Conecta(p) ==
    /\ ~vivo[p]
    /\ De(p, "Fuera") = {}
    /\ vivo' = [vivo EXCEPT ![p] = TRUE]
    /\ UNCHANGED estado

Crea(h) == Pasa(h, "Inexistente", "New")

Admite(h) ==
    \/ Pasa(h, "New", "Ready")
    \/ /\ \A e \in {"Ready", "Execute", "Blocked", "Exit"} : De(h.pid, e) = {}
       /\ Pasa(h, "New", "Execute")

Ejecuta(h) == De(h.pid, "Execute") = {} /\ Pasa(h, "Ready", "Execute")

Desaloja(g, h) ==
    /\ vivo[h.pid] /\ g.pid = h.pid
    /\ estado[g] = "Execute" /\ estado[h] = "Ready"
    /\ estado' = [estado EXCEPT ![g] = "Ready", ![h] = "Execute"]
    /\ UNCHANGED vivo

Bloquea(h) == Pasa(h, "Execute", "Blocked")

Desbloquea(h) == Pasa(h, "Blocked", "Ready")

Termina(h) == Pasa(h, "Execute", "Exit")

Desconecta(p) ==
    /\ vivo[p]
    /\ vivo' = [vivo EXCEPT ![p] = FALSE]
    /\ estado' = [h \in Hilo |-> IF h.pid = p THEN "Fuera" ELSE estado[h]]

Siguiente ==
    \/ \E p \in Pids : Conecta(p) \/ Desconecta(p)
    \/ \E h \in Hilo : \/ Crea(h) \/ Admite(h) \/ Ejecuta(h) \/ Bloquea(h)
                       \/ Desbloquea(h) \/ Termina(h)
                       \/ \E g \in Hilo : Desaloja(g, h)

Especificacion == Inicial /\ [][Siguiente]_varsEstados
=============================================================================
