------------------------------ MODULE SUSEVida ------------------------------
(***************************************************************************)
(* The life of the hilos of module SUSE, proved for any number of them: no *)
(* structure holds one whose memory was freed, and nobody overwrites the   *)
(* last pointer to one of a program that is connected.  Both rest on where *)
(* the hilos are (module SUSELugares), and the second one also on which    *)
(* thread of the server may write programa.exec at each point.  Then what  *)
(* the server counts and whom it wakes: the counters of the metrics,       *)
(* MAXIMOPROCESAMIENTO, and the mutex a schedule_next of a program sleeps  *)
(* on.  Each is touched by several threads in sections of their own, so    *)
(* that each is right only together with where the threads are.            *)
(***************************************************************************)
EXTENDS SUSELugares

-----------------------------------------------------------------------------
(* The hilos that were freed.                                              *)

Tiene(p, h) ==
    \/ exec[p] = h
    \/ h \in Range(ready[p])
    \/ h \in exit[p]
    \/ \E t \in Tids : h \in Range(bloqueados[p][t])

EnUso(h) ==
    \/ h \in EsperaAdmision
    \/ \E p \in Pids : Tiene(p, h)
    \/ \E s \in Sems : h \in Range(cola[s])

(* No structure holds a freed hilo, which was created.                     *)
Sueltos ==
    \A h \in liberados : transicion[h] # "Inexistente" /\ ~EnUso(h)

(* A hilo is in use after a move only if it was before, or is being        *)
(* created.                                                                *)
LEMMA EnUsoEspera ==
    ASSUME TypeOK, Mueve, NEW h \in Hilo, h \in EsperaAdmision'
    PROVE  EnUso(h) \/ transicion[h] = "Inexistente"
<1>1. new \in Seq(Hilo) /\ colaAux \in Seq(Hilo)
  BY DEF TypeOK
<1>2. CASE UNCHANGED <<new, colaAux, enMano>>
  BY <1>2 DEF EsperaAdmision, EnUso
<1>3. CASE Rota
  <2>1. CASE colaAux = <<>> /\ colaAux' = new /\ new' = <<>> /\ enMano' = enMano
    BY <2>1, RangoVacio DEF EsperaAdmision, EnUso
  <2>2. CASE colaAux' = <<>> /\ new' = new \o colaAux /\ enMano' = enMano
    <3>1. Range(new') = Range(new) \cup Range(colaAux)
      BY <1>1, <2>2, RangeConcatenation
    <3> QED
      BY <2>2, <3>1, RangoVacio DEF EsperaAdmision, EnUso
  <2> QED
    BY <1>3, <2>1, <2>2 DEF Rota
<1>4. CASE Toma
  <2>1. /\ new # <<>> /\ enMano' = Head(new) /\ new' = Tail(new)
        /\ colaAux' = colaAux
    BY <1>4 DEF Toma
  <2>2. Range(new) = {enMano'} \cup Range(new')
    BY <1>1, <2>1, RangoTail
  <2> QED
    BY <2>1, <2>2 DEF EsperaAdmision, EnUso
<1>5. CASE Entra
  BY <1>5 DEF Entra, EsperaAdmision, EnUso
<1>6. ASSUME NEW g \in Hilo, Nace(g)
      PROVE  EnUso(h) \/ transicion[h] = "Inexistente"
  <2>1. /\ new' = Append(new, g) /\ UNCHANGED <<colaAux, enMano>>
        /\ transicion[g] = "Inexistente"
    BY <1>6 DEF Nace, Cambia
  <2>2. Range(new') = Range(new) \cup {g}
    BY SMTT(60), <1>1, <2>1, RangoAppend
  <2> QED
    BY <2>1, <2>2 DEF EsperaAdmision, EnUso
<1>7. \/ UNCHANGED <<new, colaAux, enMano>> \/ Rota \/ Toma \/ Entra
      \/ \E g \in Hilo : Nace(g)
  BY DEF Mueve, Quieto, Despierta, Bloquea, Cierra, Suelta, LimpiaListas,
     BorraListas, Ordena, Desaloja, Despacha, Libera
<1> QED
  BY <1>2, <1>3, <1>4, <1>5, <1>6, <1>7

(* pasarAReady gives a program the hilo it moves.                          *)
LEMMA EnUsoLlega ==
    ASSUME TypeOK, NEW g, NEW de, Llega(g, de), EnUso(g),
           UNCHANGED <<bloqueados, exit>>,
           NEW h \in Hilo, NEW p \in Pids, Tiene(p, h)'
    PROVE  EnUso(h)
<1>1. g \in Hilo /\ g.pid \in Pids /\ ready[g.pid] \in Seq(Hilo)
  BY DEF Llega, Hilo, TypeOK
<1>2. CASE exec' = [exec EXCEPT ![g.pid] = g] /\ ready' = ready
  <2>1. exec'[p] = exec[p] \/ exec'[p] = g
    BY <1>2 DEF TypeOK
  <2> QED
    BY <1>2, <2>1 DEF Tiene, EnUso
<1>3. CASE ready' = [ready EXCEPT ![g.pid] = Append(@, g)] /\ exec' = exec
  <2>1. Range(Append(ready[g.pid], g)) = Range(ready[g.pid]) \cup {g}
    BY <1>1, RangoAppend
  <2>2. ready'[p] = IF p = g.pid THEN Append(ready[p], g) ELSE ready[p]
    BY <1>3 DEF TypeOK
  <2>3. h \in Range(ready'[p]) => h = g \/ h \in Range(ready[p])
    BY <2>1, <2>2
  <2> QED
    BY <1>3, <2>3 DEF Tiene, EnUso
<1> QED
  BY <1>2, <1>3 DEF Llega

(* A schedule_next moves hilos between exec and the list of its program.   *)
LEMMA EnUsoAgenda ==
    ASSUME TypeOK, NEW q \in Pids, Ordena(q) \/ Desaloja(q) \/ Despacha(q),
           NEW h \in Hilo, NEW p \in Pids, Tiene(p, h)'
    PROVE  Tiene(p, h)
<1>1. ready[q] \in Seq(Hilo) /\ UNCHANGED <<bloqueados, exit>>
  BY DEF TypeOK, Ordena, Desaloja, Despacha
<1>2. CASE Ordena(q)
  <2>1. PICK l \in Ordenamientos(ready[q]) : ready' = [ready EXCEPT ![q] = l]
    BY <1>2 DEF Ordena
  <2>2. Range(l) = Range(ready[q])
    BY DEF Ordenamientos
  <2>3. Range(ready'[p]) = Range(ready[p]) /\ exec' = exec
    BY <1>2, <2>1, <2>2 DEF Ordena, TypeOK
  <2> QED
    BY <1>1, <2>3 DEF Tiene
<1>3. CASE Desaloja(q) \/ Despacha(q)
  <2> DEFINE g == Head(ready[q])
             l == Tail(ready[q])
  <2>1. Range(ready[q]) = {g} \cup Range(l) /\ l \in Seq(Hilo)
    BY <1>1, <1>3, RangoTail DEF Desaloja, Despacha
  <2>2. /\ exec' = [exec EXCEPT ![q] = g]
        /\ \/ ready' = [ready EXCEPT ![q] = l]
           \/ /\ exec[q] \in Hilo
              /\ ready' = [ready EXCEPT ![q] = Append(l, exec[q])]
    BY <1>3 DEF Desaloja, Despacha
  <2> HIDE DEF g, l
  <2>3. exec'[p] = IF p = q THEN g ELSE exec[p]
    BY <2>2 DEF TypeOK
  <2>4. Range(ready'[p]) \subseteq Range(ready[p]) \cup {exec[p]}
    <3>1. CASE ready' = [ready EXCEPT ![q] = l]
      <4>1. ready'[p] = IF p = q THEN l ELSE ready[p]
        BY <3>1 DEF TypeOK
      <4> QED
        BY <2>1, <4>1
    <3>2. CASE exec[q] \in Hilo /\ ready' = [ready EXCEPT ![q] = Append(l, exec[q])]
      <4>1. ready'[p] = IF p = q THEN Append(l, exec[q]) ELSE ready[p]
        BY <3>2 DEF TypeOK
      <4>2. Range(Append(l, exec[q])) = Range(l) \cup {exec[q]}
        BY <2>1, <3>2, RangoAppend
      <4> QED
        BY <2>1, <4>1, <4>2
    <3> QED
      BY <2>2, <3>1, <3>2
  <2> QED
    BY <1>1, <2>1, <2>3, <2>4 DEF Tiene
<1> QED
  BY <1>2, <1>3

(* A hilo that blocks was in exec.                                         *)
LEMMA EnUsoBloquea ==
    ASSUME TypeOK, NEW q \in Pids, Bloquea(q),
           NEW h \in Hilo, NEW p \in Pids, Tiene(p, h)'
    PROVE  Tiene(p, h)
<1>1. /\ exec[q] \in Hilo /\ UNCHANGED <<ready, exit>>
      /\ exec'[p] = exec[p] \/ exec'[p] = Nadie
  BY DEF Bloquea, DejarExec, TypeOK
<1>2. CASE bloqueados' = bloqueados
  BY <1>1, <1>2, SUSEAssumption DEF Tiene
<1>3. ASSUME NEW t \in Tids,
             bloqueados' = [bloqueados EXCEPT ![q][t] = Append(@, exec[q])]
      PROVE  Tiene(p, h)
  <2>1. bloqueados[q][t] \in Seq(Hilo)
    BY DEF TypeOK
  <2>2. Range(Append(bloqueados[q][t], exec[q])) =
            Range(bloqueados[q][t]) \cup {exec[q]}
    BY <1>1, <2>1, RangoAppend
  <2>3. \A u \in Tids : bloqueados'[p][u] =
            IF p = q /\ u = t THEN Append(bloqueados[q][t], exec[q])
                              ELSE bloqueados[p][u]
    BY <1>3 DEF TypeOK
  <2>4. ASSUME NEW u \in Tids, h \in Range(bloqueados'[p][u])
        PROVE  h \in Range(bloqueados[p][u]) \/ h = exec[p]
    BY <2>2, <2>3, <2>4
  <2> QED
    BY <1>1, <2>4, SUSEAssumption DEF Tiene
<1> QED
  BY <1>2, <1>3 DEF Bloquea

(* A hilo that is no longer blocked was waiting for another to end.        *)
LEMMA EnUsoLibera ==
    ASSUME TypeOK, NEW q \in Pids, NEW t \in Tids, Libera(q, t),
           NEW h \in Hilo, NEW p \in Pids, Tiene(p, h)'
    PROVE  Tiene(p, h)
<1> DEFINE g == Head(bloqueados[q][t])
           l == Tail(bloqueados[q][t])
<1>1. bloqueados[q][t] \in Seq(Hilo) /\ bloqueados[q][t] # <<>>
  BY DEF TypeOK, Libera
<1>2. Range(bloqueados[q][t]) = {g} \cup Range(l) /\ g \in Hilo
  BY <1>1, RangoTail
<1>3. /\ bloqueados' = [bloqueados EXCEPT ![q][t] = l]
      /\ ready' = [ready EXCEPT ![q] = Append(@, g)]
      /\ UNCHANGED <<exec, exit>>
  BY DEF Libera
<1> HIDE DEF g, l
<1>4. \A u \in Tids : bloqueados'[p][u] =
          IF p = q /\ u = t THEN l ELSE bloqueados[p][u]
  BY <1>3 DEF TypeOK
<1>5. ready'[p] = IF p = q THEN Append(ready[q], g) ELSE ready[p]
  BY <1>3 DEF TypeOK
<1>6. Range(Append(ready[q], g)) = Range(ready[q]) \cup {g}
  <2>1. ready[q] \in Seq(Hilo)
    BY DEF TypeOK
  <2> QED
    BY <1>2, <2>1, RangoAppend
<1>7. h \in Range(ready'[p]) => Tiene(p, h)
  BY <1>2, <1>5, <1>6 DEF Tiene
<1>8. ASSUME NEW u \in Tids, h \in Range(bloqueados'[p][u])
      PROVE  Tiene(p, h)
  BY <1>2, <1>4, <1>8 DEF Tiene
<1> QED
  BY <1>3, <1>7, <1>8 DEF Tiene

(* A close, and a connection that ends.                                    *)
LEMMA EnUsoCierra ==
    ASSUME TypeOK, NEW q \in Pids,
           Cierra(q) \/ Suelta(q) \/ LimpiaListas(q) \/ BorraListas(q),
           NEW h \in Hilo, NEW p \in Pids, Tiene(p, h)'
    PROVE  Tiene(p, h)
<1>1. exec'[p] \in {exec[p], Nadie}
  BY DEF Cierra, Suelta, LimpiaListas, BorraListas, DejarExec, TypeOK
<1>2. Range(ready'[p]) \subseteq Range(ready[p])
  <2>1. ready'[p] \in {ready[p], <<>>}
    BY DEF Cierra, Suelta, LimpiaListas, BorraListas, TypeOK
  <2> QED
    BY <2>1, RangoVacio
<1>3. exit'[p] \subseteq exit[p] \cup {exec[p]}
  BY ZenonT(60) DEF Cierra, Suelta, LimpiaListas, BorraListas, TypeOK
<1>4. \A t \in Tids : Range(bloqueados'[p][t]) \subseteq Range(bloqueados[p][t])
  <2>1. ASSUME NEW t \in Tids
        PROVE  bloqueados'[p][t] \in {bloqueados[p][t], <<>>}
    BY SMTT(60) DEF Cierra, Suelta, LimpiaListas, BorraListas, TypeOK
  <2> QED
    BY <2>1, RangoVacio
<1> QED
  BY <1>1, <1>2, <1>3, <1>4, SUSEAssumption DEF Tiene

LEMMA EnUsoPrograma ==
    ASSUME TypeOK, Mueve, NEW h \in Hilo, NEW p \in Pids, Tiene(p, h)'
    PROVE  EnUso(h)
<1>1. Tiene(p, h) => EnUso(h)
  BY DEF EnUso
<1>2. CASE Entra
  <2>1. EnUso(enMano)
    BY <1>2, SUSEAssumption DEF Entra, Llega, EnUso, EsperaAdmision
  <2> QED
    BY <1>2, <2>1, EnUsoLlega DEF Entra
<1>3. ASSUME NEW s \in Sems, Despierta(s) PROVE EnUso(h)
  <2>1. cola[s] \in Seq(Hilo) /\ cola[s] # <<>>
    BY <1>3 DEF Despierta, TypeOK
  <2>2. EnUso(Head(cola[s]))
    BY <2>1, RangoTail DEF EnUso
  <2> QED
    BY <1>3, <2>2, EnUsoLlega DEF Despierta
<1>4. ASSUME NEW q \in Pids,
             \/ Bloquea(q) \/ Cierra(q) \/ Suelta(q) \/ LimpiaListas(q)
             \/ BorraListas(q) \/ Ordena(q) \/ Desaloja(q) \/ Despacha(q)
      PROVE  EnUso(h)
  BY <1>1, <1>4, EnUsoAgenda, EnUsoBloquea, EnUsoCierra
<1>5. ASSUME NEW q \in Pids, NEW t \in Tids, Libera(q, t) PROVE EnUso(h)
  BY <1>1, <1>5, EnUsoLibera
<1>6. CASE UNCHANGED <<exec, ready, exit, bloqueados>>
  BY <1>1, <1>6 DEF Tiene
<1>7. UNCHANGED <<exec, ready, exit, bloqueados>>
      \/ ~(Quieto \/ Rota \/ Toma \/ \E g \in Hilo : Nace(g))
  BY DEF Quieto, Rota, Toma, Nace
<1> QED
  BY <1>2, <1>3, <1>4, <1>5, <1>6, <1>7 DEF Mueve

LEMMA EnUsoCola ==
    ASSUME TypeOK, Mueve, NEW h \in Hilo, NEW s \in Sems, h \in Range(cola'[s])
    PROVE  EnUso(h)
<1>1. h \in Range(cola[s]) => EnUso(h)
  BY DEF EnUso
<1>2. CASE UNCHANGED cola
  BY <1>1, <1>2
<1>3. ASSUME NEW p \in Pids, Bloquea(p), ~UNCHANGED cola PROVE EnUso(h)
  <2>1. PICK r \in Sems : cola' = [cola EXCEPT ![r] = Append(@, exec[p])]
    BY <1>3 DEF Bloquea
  <2>2. cola[r] \in Seq(Hilo) /\ exec[p] \in Hilo
    BY <1>3 DEF TypeOK, Bloquea
  <2>3. Range(Append(cola[r], exec[p])) = Range(cola[r]) \cup {exec[p]}
    BY <2>2, RangoAppend
  <2>4. cola'[s] = IF s = r THEN Append(cola[r], exec[p]) ELSE cola[s]
    BY <2>1 DEF TypeOK
  <2>5. h \in Range(cola[s]) \/ h = exec[p]
    BY <2>3, <2>4
  <2> QED
    BY <1>1, <2>5 DEF EnUso, Tiene
<1>4. ASSUME NEW r \in Sems, Despierta(r) PROVE EnUso(h)
  <2>1. cola[r] \in Seq(Hilo) /\ cola[r] # <<>>
    BY <1>4 DEF Despierta, TypeOK
  <2>2. cola'[s] = IF s = r THEN Tail(cola[r]) ELSE cola[s]
    BY <1>4 DEF Despierta, TypeOK
  <2>3. h \in Range(cola[s])
    BY SMTT(60), <2>1, <2>2, RangoTail
  <2> QED
    BY <1>1, <2>3
<1>5. UNCHANGED cola \/ (\E p \in Pids : Bloquea(p)) \/ \E r \in Sems : Despierta(r)
  BY DEF Mueve, Quieto, Rota, Toma, Entra, Nace, Cierra, Suelta, LimpiaListas,
     BorraListas, Ordena, Desaloja, Despacha, Libera
<1> QED
  BY <1>2, <1>3, <1>4, <1>5

LEMMA EnUsoPaso ==
    ASSUME TypeOK, Mueve, NEW h \in Hilo, EnUso(h)'
    PROVE  EnUso(h) \/ transicion[h] = "Inexistente"
BY EnUsoEspera, EnUsoPrograma, EnUsoCola DEF EnUso

(* The hilo that changes its state is the one the step moves.              *)
LEMMA QuienCambia ==
    ASSUME TypeOK, Mueve, NEW h \in Hilo, transicion'[h] # transicion[h]
    PROVE  \/ Nace(h)
           \/ Entra /\ h = enMano
           \/ \E s \in Sems : Despierta(s) /\ h = Head(cola[s])
           \/ \E p \in Pids :
                \/ (Bloquea(p) \/ Cierra(p)) /\ h = exec[p]
                \/ Desaloja(p) /\ h \in {exec[p], Head(ready[p])}
                \/ Despacha(p) /\ h = Head(ready[p])
                \/ \E t \in Tids : Libera(p, t) /\ h = Head(bloqueados[p][t])
<1>1. ASSUME NEW g \in Hilo, NEW de, NEW a, Cambia(g, de, a) PROVE h = g
  BY <1>1, CambiaSolo
<1>2. Entra => h = enMano
  BY <1>1 DEF Entra, Llega
<1>3. \A g \in Hilo : Nace(g) => h = g
  BY SMTT(60), <1>1 DEF Nace
<1>4. \A s \in Sems : Despierta(s) => h = Head(cola[s])
  BY <1>1 DEF Despierta, Llega
<1>5. \A p \in Pids : Bloquea(p) \/ Cierra(p) => h = exec[p]
  BY <1>1 DEF Bloquea, Cierra
<1>6. \A p \in Pids : Desaloja(p) => h \in {exec[p], Head(ready[p])}
  BY DEF Desaloja, TypeOK
<1>7. \A p \in Pids : Despacha(p) => h = Head(ready[p])
  BY <1>1, Cabezas DEF Despacha
<1>8. \A p \in Pids, t \in Tids : Libera(p, t) => h = Head(bloqueados[p][t])
  BY <1>1, Cabezas DEF Libera
<1>9. ~(Quieto \/ Rota \/ Toma)
  BY DEF Quieto, Rota, Toma
<1>10. \A p \in Pids : ~(Suelta(p) \/ LimpiaListas(p) \/ BorraListas(p) \/ Ordena(p))
  BY DEF Suelta, LimpiaListas, BorraListas, Ordena
<1> QED
  BY <1>2, <1>3, <1>4, <1>5, <1>6, <1>7, <1>8, <1>9, <1>10 DEF Mueve

(* Once created, a hilo does not go back.                                  *)
LEMMA CreadoSigue ==
    ASSUME TypeOK, Mueve, NEW h \in Hilo, transicion[h] # "Inexistente"
    PROVE  transicion'[h] # "Inexistente"
<1> SUFFICES ASSUME transicion'[h] # transicion[h]
             PROVE  transicion'[h] # "Inexistente"
  OBVIOUS
<1>1. ASSUME NEW de, NEW a, Cambia(h, de, a) PROVE transicion'[h] = a
  BY <1>1, CambiaSolo
<1>2. Nace(h) => transicion'[h] = "New"
  BY <1>1 DEF Nace
<1>3. \A de : Llega(h, de) => transicion'[h] \in {"Execute", "Ready"}
  BY <1>1 DEF Llega
<1>4. ASSUME NEW p \in Pids, (Bloquea(p) \/ Cierra(p)) /\ h = exec[p]
      PROVE  transicion'[h] \in {"Blocked", "Exit"}
  BY <1>1, <1>4 DEF Bloquea, Cierra
<1>5. ASSUME NEW p \in Pids, Desaloja(p), h \in {exec[p], Head(ready[p])}
      PROVE  transicion'[h] \in {"Execute", "Ready"}
  BY <1>5 DEF Desaloja, TypeOK
<1>6. ASSUME NEW p \in Pids, Despacha(p), h = Head(ready[p])
      PROVE  transicion'[h] = "Execute"
  BY <1>1, <1>6 DEF Despacha
<1>7. ASSUME NEW p \in Pids, NEW t \in Tids, Libera(p, t),
             h = Head(bloqueados[p][t])
      PROVE  transicion'[h] = "Ready"
  BY <1>1, <1>7 DEF Libera
<1> QED
  BY <1>2, <1>3, <1>4, <1>5, <1>6, <1>7, QuienCambia DEF Entra, Despierta

(* Only the end of a connection frees hilos.                               *)
LEMMA LiberadosIgual ==
    ASSUME [Next]_vars, ~LimpiarReady, ~LimpiarPrograma
    PROVE  liberados' = liberados
<1>1. ASSUME NEW m, Cae(m) PROVE liberados' = liberados
  BY <1>1 DEF Cae, varsFin
<1>2. CASE PasoConexion
  <2>1. CASE ContarNew \/ Despertar \/ Desmarcar \/ Descontar
    BY <2>1 DEF ContarNew, Despertar, Desmarcar, Descontar, varsFin
  <2>2. CASE MetricasClose \/ DevolverClose \/ SoltarExec \/ Liberar
    BY <1>1, <2>2 DEF MetricasClose, DevolverClose, SoltarExec, Liberar, varsFin
  <2> QED
    BY <1>2, <2>1, <2>2 DEF PasoConexion
<1>3. CASE PasoPlanificador \/ MetricasTimer \/ DevolverTimer
  BY <1>1, <1>3 DEF PasoPlanificador, TomarNuevo, Admitir, PasarNuevo,
     MetricasTimer, DevolverTimer, varsFin
<1>4. ASSUME NEW p \in Pids, PasoAgenda(p) PROVE liberados' = liberados
  BY <1>1, <1>4 DEF PasoAgenda, Recalcular, Replanificar, CalcularCae,
     Desalojar, Continuar, DespacharSiguiente, Despachar, QuedarSinHilos,
     Marcar, TomarMutex, Retomar, varsFin
<1>5. ASSUME NEW p \in Pids, Solicitud(p) PROVE liberados' = liberados
  <2>1. CASE CrearPrograma(p) \/ ScheduleNext(p) \/ Desconectar(p)
    BY <2>1 DEF CrearPrograma, ScheduleNext, Desconectar, varsFin
  <2>2. ASSUME NEW t \in Tids,
               CrearHilo(p, t) \/ RealizarJoin(p, t) \/ RealizarClose(p, t)
        PROVE  liberados' = liberados
    BY <1>1, <2>2 DEF CrearHilo, RealizarJoin, RealizarClose, varsFin
  <2>3. ASSUME NEW t \in Tids, NEW s \in Sems,
               SuseWait(p, t, s) \/ SuseSignal(p, s)
        PROVE  liberados' = liberados
    BY <1>1, <2>3 DEF SuseWait, SuseSignal, varsFin
  <2>4. ASSUME NEW s \in Sems, SuseSignal(p, s) PROVE liberados' = liberados
    BY <1>1, <2>4 DEF SuseSignal, varsFin
  <2> QED
    BY <1>5, <2>1, <2>2, <2>3, <2>4 DEF Solicitud
<1>6. ASSUME NEW p \in Pids, Recibir(p) PROVE liberados' = liberados
  BY <1>6 DEF Recibir, varsFin
<1>7. CASE UNCHANGED vars
  BY <1>7 DEF vars, varsFin
<1> QED
  BY <1>2, <1>3, <1>4, <1>5, <1>6, <1>7 DEF Next, PasoServidor

(* The state of a hilo tells which structures may hold it.                 *)
LEMMA DondeEsta ==
    ASSUME TypeOK, Lugares, NEW h \in Hilo
    PROVE  /\ h \in EsperaAdmision => transicion[h] = "New"
           /\ \A p \in Pids :
                /\ h \in Range(ready[p]) => h.pid = p /\ transicion[h] = "Ready"
                /\ h \in exit[p] => h.pid = p /\ transicion[h] = "Exit"
                /\ exec[p] = h /\ EnCierre = Nadie =>
                       h.pid = p /\ transicion[h] = "Execute"
                /\ \A t \in Tids : h \in Range(bloqueados[p][t]) =>
                       h.pid = p /\ transicion[h] = "Blocked"
           /\ \A s \in Sems : h \in Range(cola[s]) =>
                  /\ transicion[h] = "Blocked"
                  /\ \A p \in Pids, t \in Tids : h \notin Range(bloqueados[p][t])
<1>1. h \in EsperaAdmision => transicion[h] = "New"
  BY DEF Lugares, LugarNew
<1>2. ASSUME NEW p \in Pids
      PROVE  /\ h \in Range(ready[p]) => h.pid = p /\ transicion[h] = "Ready"
             /\ h \in exit[p] => h.pid = p /\ transicion[h] = "Exit"
  BY EnListaReady DEF Lugares, LugarExit
<1>3. ASSUME NEW p \in Pids, exec[p] = h, EnCierre = Nadie
      PROVE  h.pid = p /\ transicion[h] = "Execute"
  BY <1>3, SUSEAssumption DEF Lugares, LugarExec
<1>4. ASSUME NEW p \in Pids, NEW t \in Tids, h \in Range(bloqueados[p][t])
      PROVE  h.pid = p /\ transicion[h] = "Blocked"
  BY <1>4, EnListaJoin DEF Lugares
<1>5. ASSUME NEW s \in Sems, h \in Range(cola[s])
      PROVE  /\ transicion[h] = "Blocked"
             /\ \A p \in Pids, t \in Tids : h \notin Range(bloqueados[p][t])
  BY <1>5, EnListaCola DEF Lugares
<1> QED
  BY <1>1, <1>2, <1>3, <1>4, <1>5

LEMMA SueltosReady ==
    ASSUME TypeOK, Lugares, LimpiarReady,
           NEW h \in exit[conexion.pid] \cup Range(ready[conexion.pid])
    PROVE  h \in Hilo /\ transicion[h] # "Inexistente" /\ ~EnUso(h)'
<1> DEFINE p == conexion.pid
<1>1. p \in Pids /\ EnCierre = Nadie
  BY DEF LimpiarReady, TypeOK, ConexionEnCurso, EnCierre
<1>2. /\ UNCHANGED <<new, colaAux, enMano, exec, bloqueados, cola>>
      /\ \A q \in Pids : /\ ready'[q] = IF q = p THEN <<>> ELSE ready[q]
                         /\ exit'[q] = IF q = p THEN {} ELSE exit[q]
  BY DEF LimpiarReady, TypeOK, varsPrograma, varsNew, varsPlanif, varsSem
<1>3. h \in Hilo
  BY <1>1, EnListaReady DEF TypeOK, Lugares
<1> HIDE DEF p
<1>4. h.pid = p /\ transicion[h] \in {"Exit", "Ready"}
  BY <1>1, <1>3, DondeEsta DEF p
<1>5. h \notin EsperaAdmision'
  BY <1>2, <1>3, <1>4, DondeEsta DEF EsperaAdmision
<1>6. ASSUME NEW q \in Pids PROVE ~Tiene(q, h)'
  <2>1. exec'[q] # h /\ \A t \in Tids : h \notin Range(bloqueados'[q][t])
    BY <1>1, <1>2, <1>3, <1>4, DondeEsta
  <2>2. h \notin Range(ready'[q]) /\ h \notin exit'[q]
    BY <1>2, <1>3, <1>4, DondeEsta, RangoVacio
  <2> QED
    BY <2>1, <2>2 DEF Tiene
<1>7. \A s \in Sems : h \notin Range(cola'[s])
  BY <1>2, <1>3, <1>4, DondeEsta
<1> QED
  BY <1>3, <1>4, <1>5, <1>6, <1>7 DEF EnUso

LEMMA SueltosPrograma ==
    ASSUME TypeOK, Lugares, LimpiarPrograma, NEW h \in BorraPrograma(conexion.pid)
    PROVE  h \in Hilo /\ transicion[h] # "Inexistente" /\ ~EnUso(h)'
<1> DEFINE p == conexion.pid
<1>1. p \in Pids /\ EnCierre = Nadie
  BY DEF LimpiarPrograma, TypeOK, ConexionEnCurso, EnCierre
<1>2. /\ UNCHANGED <<new, colaAux, enMano, ready, exit, cola>>
      /\ \A q \in Pids :
            /\ exec'[q] = IF q = p THEN Nadie ELSE exec[q]
            /\ \A t \in Tids : bloqueados'[q][t] =
                                   IF q = p THEN <<>> ELSE bloqueados[q][t]
  BY DEF LimpiarPrograma, DejarExec, TypeOK, varsReady, varsNew, varsPlanif,
         varsSem
<1> HIDE DEF p
<1>3. h \in Hilo /\ (h = exec[p] \/ \E t \in Tids : h \in Range(bloqueados[p][t]))
  <2>1. (h = exec[p] /\ h # Nadie) \/ \E t \in Tids : h \in Range(bloqueados[p][t])
    BY DEF BorraPrograma, p
  <2> QED
    BY <1>1, <2>1, EnListaJoin DEF TypeOK, HiloONadie, Lugares
<1>4. h.pid = p /\ transicion[h] \in {"Execute", "Blocked"}
      /\ \A s \in Sems : h \notin Range(cola[s])
  BY <1>1, <1>3, DondeEsta
<1>5. h \notin EsperaAdmision'
  BY <1>2, <1>3, <1>4, DondeEsta DEF EsperaAdmision
<1>6. ASSUME NEW q \in Pids PROVE ~Tiene(q, h)'
  <2>1. exec'[q] # h
    BY <1>1, <1>2, <1>3, <1>4, DondeEsta, SUSEAssumption
  <2>2. \A t \in Tids : h \notin Range(bloqueados'[q][t])
    BY <1>2, <1>3, <1>4, DondeEsta, RangoVacio
  <2>3. h \notin Range(ready'[q]) /\ h \notin exit'[q]
    BY <1>2, <1>3, <1>4, DondeEsta
  <2> QED
    BY <2>1, <2>2, <2>3 DEF Tiene
<1> QED
  BY <1>2, <1>3, <1>4, <1>5, <1>6 DEF EnUso

LEMMA SueltosPaso ==
    ASSUME TypeOK, ColasNew, Lugares, Sueltos, [Next]_vars
    PROVE  Sueltos'
<1>1. Mueve
  BY Movimiento
<1>2. ASSUME NEW h \in liberados
      PROVE  transicion'[h] # "Inexistente" /\ ~EnUso(h)'
  <2>1. h \in Hilo
    BY DEF TypeOK
  <2> QED
    BY <1>1, <2>1, EnUsoPaso, CreadoSigue DEF Sueltos
<1>3. CASE ~LimpiarReady /\ ~LimpiarPrograma
  BY <1>2, <1>3, LiberadosIgual DEF Sueltos
<1>4. CASE LimpiarReady
  <2>1. liberados' = liberados \cup exit[conexion.pid]
                               \cup Range(ready[conexion.pid])
        /\ transicion' = transicion
    BY <1>4 DEF LimpiarReady
  <2>2. ASSUME NEW h \in liberados'
        PROVE  transicion'[h] # "Inexistente" /\ ~EnUso(h)'
    BY <1>2, <1>4, <2>1, SueltosReady
  <2> QED
    BY <2>2 DEF Sueltos
<1>5. CASE LimpiarPrograma
  <2>1. liberados' = liberados \cup BorraPrograma(conexion.pid)
        /\ transicion' = transicion
    BY <1>5 DEF LimpiarPrograma
  <2>2. ASSUME NEW h \in liberados'
        PROVE  transicion'[h] # "Inexistente" /\ ~EnUso(h)'
    BY <1>2, <1>5, <2>1, SueltosPrograma
  <2> QED
    BY <2>2 DEF Sueltos
<1> QED
  BY <1>3, <1>4, <1>5

(* limpiarEstructuras frees, in its two halves, no hilo that a structure   *)
(* still points to, although planificarReady and the schedule_next of      *)
(* other programs run between them; and no later step puts a freed hilo    *)
(* into a structure.                                                       *)
THEOREM NadaTrasLiberar == Spec => []NoUsoTrasLiberar
<1>1. Init => Sueltos
  BY DEF Init, Sueltos
<1>2. TypeOK /\ ColasNew /\ Lugares /\ Sueltos /\ [Next]_vars => Sueltos'
  BY SueltosPaso
<1>3. TypeOK /\ Sueltos => NoUsoTrasLiberar
  <2> SUFFICES ASSUME TypeOK, Sueltos PROVE NoUsoTrasLiberar
    OBVIOUS
  <2>1. ASSUME NEW h \in liberados
        PROVE  /\ h \notin EsperaAdmision
               /\ \A p \in Pids : /\ exec[p] # h /\ h \notin exit[p]
                                  /\ h \notin Range(ready[p])
                                  /\ \A t \in Tids :
                                         h \notin Range(bloqueados[p][t])
               /\ \A s \in Sems : h \notin Range(cola[s])
    BY DEF Sueltos, EnUso, Tiene
  <2>2. listas \subseteq Pids /\ programas \subseteq Pids
    BY DEF TypeOK
  <2>3. ASSUME NEW h \in liberados
        PROVE  /\ h \notin {exec[p] : p \in Pids}
               /\ h \notin UNION {exit[p] : p \in Pids}
               /\ h \notin UNION {Range(cola[s]) : s \in Sems}
    BY <2>1
  <2>4. ASSUME NEW h \in liberados
        PROVE  /\ h \notin UNION {Range(ready[p]) : p \in listas}
               /\ h \notin UNION {Range(bloqueados[p][t]) :
                                    p \in programas, t \in Tids}
    BY <2>1, <2>2
  <2> QED
    BY <2>1, <2>3, <2>4 DEF NoUsoTrasLiberar
<1> QED
  BY TipoCorrecto, ColasNewSiempre, LugaresSiempre, <1>1, <1>2, <1>3, PTL
     DEF Spec

-----------------------------------------------------------------------------
(* Who writes programa.exec.                                               *)

(* A program that did not disconnect.  Those whose descriptor was not used *)
(* yet count, so that a connection changes nothing.                        *)
Vivo(p) == socket[p] # "cerrado"

(* limpiarEstructuras runs after the disconnection.                        *)
LimpiezaAlFinal ==
    conexion.paso \in {"limpiarReady", "limpiarPrograma"}
        => ~Vivo(conexion.pid)

(* A program gets its list with its first hilo, and keeps it.              *)
ListaDeVivos ==
    \A h \in Hilo :
        Vivo(h.pid) /\ transicion[h] \notin {"Inexistente", "New"}
            => h.pid \in listas

(* Nobody takes exec while a schedule_next sleeps.                         *)
DuermeSinExec ==
    \A p \in Pids : Vivo(p) /\ agenda[p] \in {"marcar", "mutex", "retomar"}
        => p \in listas /\ exec[p] = Nadie

(* Nor while a hilo is being closed, until the close takes it out.         *)
CierreEnExec ==
    EnCierre # Nadie =>
        socket[EnCierre.pid] = "conectado" /\ exec[EnCierre.pid] = EnCierre

Vida == LimpiezaAlFinal /\ ListaDeVivos /\ DuermeSinExec /\ CierreEnExec

LEMMA SocketCambia ==
    ASSUME [Next]_vars
    PROVE  socket' = socket
           \/ \E p \in Pids : CrearPrograma(p) \/ Desconectar(p)
<1>1. ASSUME NEW m, Cae(m) PROVE socket' = socket
  BY <1>1 DEF Cae
<1>2. CASE PasoConexion
  <2>1. CASE ContarNew \/ Despertar \/ Desmarcar \/ Descontar
    BY <2>1 DEF ContarNew, Despertar, Desmarcar, Descontar
  <2>2. CASE MetricasClose \/ DevolverClose \/ SoltarExec \/ Liberar
    BY <1>1, <2>2 DEF MetricasClose, DevolverClose, SoltarExec, Liberar
  <2>3. CASE LimpiarReady \/ LimpiarPrograma
    BY <2>3 DEF LimpiarReady, LimpiarPrograma
  <2> QED
    BY <1>2, <2>1, <2>2, <2>3 DEF PasoConexion
<1>3. CASE PasoPlanificador \/ MetricasTimer \/ DevolverTimer
  BY <1>1, <1>3 DEF PasoPlanificador, TomarNuevo, Admitir, PasarNuevo,
     MetricasTimer, DevolverTimer
<1>4. ASSUME NEW p \in Pids, PasoAgenda(p) PROVE socket' = socket
  BY <1>1, <1>4 DEF PasoAgenda, Recalcular, Replanificar, CalcularCae,
     Desalojar, Continuar, DespacharSiguiente, Despachar, QuedarSinHilos,
     Marcar, TomarMutex, Retomar
<1>5. ASSUME NEW p \in Pids, Solicitud(p)
      PROVE  socket' = socket \/ CrearPrograma(p) \/ Desconectar(p)
  <2>1. ASSUME NEW t \in Tids,
               CrearHilo(p, t) \/ RealizarJoin(p, t) \/ RealizarClose(p, t)
        PROVE  socket' = socket
    BY <1>1, <2>1 DEF CrearHilo, RealizarJoin, RealizarClose
  <2>2. ASSUME NEW t \in Tids, NEW s \in Sems, SuseWait(p, t, s)
        PROVE  socket' = socket
    BY <1>1, <2>2 DEF SuseWait
  <2>3. ASSUME NEW s \in Sems, SuseSignal(p, s) PROVE socket' = socket
    BY <1>1, <2>3 DEF SuseSignal
  <2>4. CASE ScheduleNext(p)
    BY <2>4 DEF ScheduleNext
  <2> QED
    BY <1>5, <2>1, <2>2, <2>3, <2>4 DEF Solicitud
<1>6. ASSUME NEW p \in Pids, Recibir(p) PROVE socket' = socket
  BY <1>6 DEF Recibir
<1>7. CASE UNCHANGED vars
  BY <1>7 DEF vars
<1> QED
  BY <1>2, <1>3, <1>4, <1>5, <1>6, <1>7 DEF Next, PasoServidor

(* No program comes back.                                                  *)
LEMMA VivoSigue ==
    ASSUME TypeOK, [Next]_vars, NEW p \in Pids, Vivo(p)'
    PROVE  Vivo(p)
<1>1. ASSUME NEW q \in Pids, CrearPrograma(q) \/ Desconectar(q) PROVE Vivo(p)
  BY <1>1 DEF CrearPrograma, Desconectar, EnServicio, Vivo, TypeOK
<1> QED
  BY <1>1, SocketCambia DEF Vivo

(* The steps that write exec, or the keys of the lists of ready.           *)
ExecCambia ==
    \/ UNCHANGED <<exec, listas>>
    \/ \E h \in Hilo : PasarAReady(h)
    \/ \E p \in Pids : Bloquea(p) /\ UNCHANGED listas
    \/ SoltarExec \/ LimpiarReady \/ LimpiarPrograma
    \/ \E p \in Pids :
        \/ Desalojar(p)
        \/ Despachar(p) /\ agenda[p] = "retomar"
        \/ Despachar(p) /\ agenda[p] = "calcular" /\ exec[p] = Nadie

LEMMA ExecCambiaSolicitud ==
    ASSUME TypeOK, Lugares, NEW p \in Pids, Solicitud(p)
    PROVE  ExecCambia
<1>1. ASSUME NEW m, Cae(m) PROVE UNCHANGED <<exec, listas>>
  BY <1>1 DEF Cae, varsPrograma, varsReady
<1>2. CASE CrearPrograma(p) \/ ScheduleNext(p) \/ Desconectar(p)
  BY <1>2 DEF CrearPrograma, ScheduleNext, Desconectar, ExecCambia,
     varsPrograma, varsReady
<1>3. ASSUME NEW t \in Tids, CrearHilo(p, t) \/ RealizarClose(p, t)
      PROVE  ExecCambia
  BY <1>1, <1>3 DEF CrearHilo, RealizarClose, ExecCambia, varsPrograma, varsReady
<1>4. ASSUME NEW t \in Tids, RealizarJoin(p, t) PROVE ExecCambia
  <2>1. Bloquea(p) /\ UNCHANGED listas
    BY <1>4, MueveJoin DEF RealizarJoin, varsReady
  <2> QED
    BY <2>1 DEF ExecCambia
<1>5. ASSUME NEW t \in Tids, NEW s \in Sems, SuseWait(p, t, s)
      PROVE  ExecCambia
  <2>1. UNCHANGED listas /\ (Quieto \/ Bloquea(p))
    BY <1>1, <1>5, MueveWait DEF SuseWait, varsReady
  <2> QED
    BY <2>1 DEF Quieto, ExecCambia
<1>6. ASSUME NEW s \in Sems, SuseSignal(p, s) PROVE ExecCambia
  <2>1. CASE UNCHANGED <<exec, listas>>
    BY <2>1 DEF ExecCambia
  <2>2. CASE cola[s] # <<>> /\ PasarAReady(Head(cola[s]))
    BY <2>2, CabezaBloqueada DEF ExecCambia
  <2> QED
    BY <1>1, <1>6, <2>1, <2>2 DEF SuseSignal, varsPrograma, varsReady
<1> QED
  BY <1>2, <1>3, <1>4, <1>5, <1>6 DEF Solicitud

LEMMA ExecCambiaPaso ==
    ASSUME TypeOK, Lugares, [Next]_vars
    PROVE  ExecCambia
<1>1. ASSUME NEW m, Cae(m) PROVE UNCHANGED <<exec, listas>>
  BY <1>1 DEF Cae, varsPrograma, varsReady
<1>2. CASE PasoConexion
  <2>1. CASE ContarNew \/ Despertar \/ Desmarcar \/ Descontar
    BY <2>1 DEF ContarNew, Despertar, Desmarcar, Descontar, varsReady, ExecCambia
  <2>2. CASE MetricasClose \/ DevolverClose \/ Liberar
    BY <1>1, <2>2 DEF MetricasClose, DevolverClose, Liberar, varsReady,
       varsPrograma, ExecCambia
  <2> QED
    BY <1>2, <2>1, <2>2 DEF PasoConexion, ExecCambia
<1>3. CASE PasoPlanificador
  <2>1. CASE TomarNuevo \/ Admitir
    BY <1>1, <2>1 DEF TomarNuevo, Admitir, ExecCambia, varsReady, varsPrograma
  <2>2. CASE PasarNuevo
    <3>1. enMano \in Hilo
      BY <2>2 DEF PasarNuevo, TypeOK
    <3> QED
      BY <1>1, <2>2, <3>1 DEF PasarNuevo, ExecCambia
  <2> QED
    BY <1>3, <2>1, <2>2 DEF PasoPlanificador
<1>4. CASE MetricasTimer \/ DevolverTimer
  BY <1>1, <1>4 DEF MetricasTimer, DevolverTimer, ExecCambia, varsReady,
     varsPrograma
<1>5. ASSUME NEW p \in Pids, PasoAgenda(p) PROVE ExecCambia
  <2>1. CASE Recalcular(p) \/ Continuar(p) \/ QuedarSinHilos(p)
    BY <2>1 DEF Recalcular, Continuar, QuedarSinHilos, ExecCambia, varsReady,
       varsPrograma
  <2>2. CASE Replanificar(p) \/ CalcularCae(p) \/ Marcar(p) \/ TomarMutex(p)
    BY <1>1, <2>2 DEF Replanificar, CalcularCae, Marcar, TomarMutex,
       ExecCambia, varsReady, varsPrograma
  <2>3. CASE Desalojar(p)
    BY <2>3 DEF ExecCambia
  <2>4. CASE DespacharSiguiente(p) \/ Retomar(p)
    BY <1>1, <2>4 DEF DespacharSiguiente, Calcular, Retomar, ExecCambia
  <2> QED
    BY <1>5, <2>1, <2>2, <2>3, <2>4 DEF PasoAgenda
<1>6. ASSUME NEW p \in Pids, Recibir(p) PROVE ExecCambia
  BY <1>6 DEF Recibir, ExecCambia, varsReady, varsPrograma
<1>7. CASE UNCHANGED vars
  BY <1>7 DEF vars, ExecCambia, varsReady, varsPrograma
<1> QED
  BY <1>2, <1>3, <1>4, <1>5, <1>6, <1>7, ExecCambiaSolicitud
     DEF Next, PasoServidor

LEMMA PasarExec ==
    ASSUME TypeOK, NEW h \in Hilo, PasarAReady(h), NEW p \in Pids
    PROVE  /\ listas \subseteq listas' /\ h.pid \in listas'
           /\ p \in listas \/ p # h.pid => exec'[p] = exec[p]
           /\ h.pid \notin listas => exec'[h.pid] = h
BY SMTT(60) DEF PasarAReady, TypeOK, Hilo

LEMMA ListasSiguen ==
    ASSUME TypeOK, Lugares, LimpiezaAlFinal, [Next]_vars,
           NEW p \in Pids, p \in listas, Vivo(p)'
    PROVE  p \in listas'
<1>1. Vivo(p)
  BY VivoSigue
<1>2. CASE LimpiarReady
  BY <1>1, <1>2 DEF LimpiarReady, LimpiezaAlFinal
<1>3. ASSUME NEW h \in Hilo, PasarAReady(h) PROVE p \in listas'
  BY <1>3, PasarExec
<1>4. CASE UNCHANGED listas
  BY <1>4
<1> QED
  BY <1>2, <1>3, <1>4, ExecCambiaPaso DEF ExecCambia, SoltarExec,
     LimpiarPrograma, Desalojar, Despachar, varsReady

LEMMA LimpiezaAlFinalPaso ==
    ASSUME TypeOK, LimpiezaAlFinal, [Next]_vars
    PROVE  LimpiezaAlFinal'
<1>1. CASE UNCHANGED <<conexion, socket>>
  BY <1>1 DEF LimpiezaAlFinal, Vivo
<1>2. CASE conexion' = EnSelect
  BY <1>2 DEF LimpiezaAlFinal, EnSelect
<1>3. CASE conexion'.paso \notin {"limpiarReady", "limpiarPrograma"}
  BY <1>3 DEF LimpiezaAlFinal
<1>4. ASSUME NEW m, Cae(m) PROVE UNCHANGED <<conexion, socket>>
  BY <1>4 DEF Cae
<1>5. CASE PasoConexion
  <2>1. CASE Despertar \/ Desmarcar
    BY <1>3, <2>1 DEF Despertar, Desmarcar, TypeOK, Conexiones
  <2>2. CASE MetricasClose \/ DevolverClose \/ SoltarExec
    BY <1>1, <1>3, <1>4, <2>2 DEF MetricasClose, DevolverClose, SoltarExec,
       TypeOK, Conexiones
  <2>3. CASE ContarNew \/ Descontar \/ LimpiarPrograma
    BY <1>2, <2>3 DEF ContarNew, Descontar, LimpiarPrograma
  <2>4. CASE Liberar
    BY <1>1, <1>2, <2>4 DEF Liberar
  <2>5. CASE LimpiarReady
    <3>1. conexion'.pid = conexion.pid /\ socket' = socket
      BY <2>5 DEF LimpiarReady, TypeOK, Conexiones
    <3> QED
      BY <2>5, <3>1 DEF LimpiarReady, LimpiezaAlFinal, Vivo
  <2> QED
    BY <1>5, <2>1, <2>2, <2>3, <2>4, <2>5 DEF PasoConexion
<1>6. CASE PasoPlanificador \/ MetricasTimer \/ DevolverTimer
  BY <1>1, <1>4, <1>6 DEF PasoPlanificador, TomarNuevo, Admitir, PasarNuevo,
     MetricasTimer, DevolverTimer
<1>7. ASSUME NEW p \in Pids, PasoAgenda(p) PROVE LimpiezaAlFinal'
  BY <1>1, <1>4, <1>7 DEF PasoAgenda, Recalcular, Replanificar, CalcularCae,
     Desalojar, Continuar, DespacharSiguiente, Despachar, QuedarSinHilos,
     Marcar, TomarMutex, Retomar
<1>8. ASSUME NEW p \in Pids, Solicitud(p) PROVE LimpiezaAlFinal'
  <2>1. CASE CrearPrograma(p) \/ ScheduleNext(p)
    BY <1>2, <2>1 DEF CrearPrograma, ScheduleNext, Solicita, EnServicio
  <2>2. CASE Desconectar(p)
    <3>1. conexion'.pid = p /\ socket'[p] = "cerrado"
      BY <2>2 DEF Desconectar, TypeOK
    <3> QED
      BY <3>1 DEF LimpiezaAlFinal, Vivo
  <2>3. ASSUME NEW t \in Tids,
               CrearHilo(p, t) \/ RealizarJoin(p, t) \/ RealizarClose(p, t)
        PROVE  LimpiezaAlFinal'
    BY <1>1, <1>3, <1>4, <2>3 DEF CrearHilo, RealizarJoin, RealizarClose
  <2>4. ASSUME NEW t \in Tids, NEW s \in Sems, SuseWait(p, t, s)
        PROVE  LimpiezaAlFinal'
    BY <1>1, <1>4, <2>4 DEF SuseWait
  <2>5. ASSUME NEW s \in Sems, SuseSignal(p, s) PROVE LimpiezaAlFinal'
    BY <1>1, <1>3, <1>4, <2>5 DEF SuseSignal
  <2> QED
    BY <1>8, <2>1, <2>2, <2>3, <2>4, <2>5 DEF Solicitud
<1>9. ASSUME NEW p \in Pids, Recibir(p) PROVE LimpiezaAlFinal'
  BY <1>1, <1>9 DEF Recibir
<1>10. CASE UNCHANGED vars
  BY <1>1, <1>10 DEF vars
<1> QED
  BY <1>5, <1>6, <1>7, <1>8, <1>9, <1>10 DEF Next, PasoServidor

(* A hilo is admitted through pasarAReady only.                            *)
LEMMA SaleDeNew ==
    ASSUME TypeOK, Mueve, NEW h \in Hilo,
           transicion[h] \in {"Inexistente", "New"},
           transicion'[h] \notin {"Inexistente", "New"}
    PROVE  Entra /\ h = enMano
<1>1. ASSUME NEW de, NEW a, Cambia(h, de, a)
      PROVE  transicion[h] = de /\ transicion'[h] = a
  BY <1>1, CambiaSolo
<1>2. ~Nace(h)
  BY <1>1 DEF Nace
<1>3. ASSUME NEW s \in Sems, h = Head(cola[s]) PROVE ~Despierta(s)
  BY <1>1, <1>3 DEF Despierta, Llega
<1>4. ASSUME NEW p \in Pids
      PROVE  /\ h = exec[p] => ~Bloquea(p) /\ ~Cierra(p)
             /\ h = Head(ready[p]) => ~Despacha(p)
             /\ \A t \in Tids : h = Head(bloqueados[p][t]) => ~Libera(p, t)
  BY <1>1 DEF Bloquea, Cierra, Despacha, Libera
<1>5. ASSUME NEW p \in Pids, Desaloja(p) PROVE h \notin {exec[p], Head(ready[p])}
  BY <1>5 DEF Desaloja
<1> QED
  BY <1>2, <1>3, <1>4, <1>5, QuienCambia

LEMMA ListaDeVivosPaso ==
    ASSUME TypeOK, Lugares, LimpiezaAlFinal, ListaDeVivos, Mueve, [Next]_vars
    PROVE  ListaDeVivos'
<1> SUFFICES ASSUME NEW h \in Hilo, Vivo(h.pid)',
                    transicion'[h] \notin {"Inexistente", "New"}
             PROVE  h.pid \in listas'
  BY DEF ListaDeVivos
<1>1. h.pid \in Pids /\ Vivo(h.pid)
  BY VivoSigue DEF Hilo
<1>2. CASE transicion[h] \notin {"Inexistente", "New"}
  BY <1>1, <1>2, ListasSiguen DEF ListaDeVivos
<1>3. CASE transicion[h] \in {"Inexistente", "New"}
  BY <1>3, SaleDeNew DEF Entra, Llega
<1> QED
  BY <1>2, <1>3

(* A schedule_next goes to sleep when the list is empty.                   *)
LEMMA DuermeDesde ==
    ASSUME TypeOK, [Next]_vars, NEW p \in Pids,
           agenda'[p] \in {"marcar", "mutex", "retomar"}
    PROVE  \/ agenda[p] \in {"marcar", "mutex", "retomar"}
           \/ QuedarSinHilos(p)
<1>1. CASE UNCHANGED agenda
  BY <1>1
<1>2. ASSUME NEW m, Cae(m) PROVE UNCHANGED agenda
  BY <1>2 DEF Cae
<1>3. CASE PasoConexion
  <2>1. CASE ContarNew \/ Despertar \/ Desmarcar \/ Descontar
    BY <1>1, <2>1 DEF ContarNew, Despertar, Desmarcar, Descontar
  <2>2. CASE MetricasClose \/ DevolverClose \/ SoltarExec \/ Liberar
    BY <1>1, <1>2, <2>2 DEF MetricasClose, DevolverClose, SoltarExec, Liberar
  <2>3. CASE LimpiarReady \/ LimpiarPrograma
    BY <1>1, <2>3 DEF LimpiarReady, LimpiarPrograma
  <2> QED
    BY <1>3, <2>1, <2>2, <2>3 DEF PasoConexion
<1>4. CASE PasoPlanificador \/ MetricasTimer \/ DevolverTimer
  BY <1>1, <1>2, <1>4 DEF PasoPlanificador, TomarNuevo, Admitir, PasarNuevo,
     MetricasTimer, DevolverTimer
<1>5. ASSUME NEW q \in Pids, PasoAgenda(q)
      PROVE  \/ agenda[p] \in {"marcar", "mutex", "retomar"}
             \/ QuedarSinHilos(p)
  <2>1. CASE q # p
    <3>1. UNCHANGED agenda \/ \E a : agenda' = [agenda EXCEPT ![q] = a]
      BY <1>5 DEF PasoAgenda, Recalcular, Replanificar, CalcularCae, Desalojar,
         Continuar, DespacharSiguiente, Despachar, QuedarSinHilos, Marcar,
         TomarMutex, Retomar, Cae
    <3> QED
      BY <2>1, <3>1 DEF TypeOK
  <2>2. CASE q = p
    <3>1. ~Recalcular(p) /\ ~Desalojar(p) /\ ~Continuar(p)
      BY DEF Recalcular, Desalojar, Continuar, TypeOK
    <3>2. ~Despachar(p)
      BY SMTT(60) DEF Despachar, TypeOK
    <3>3. CASE Replanificar(p) \/ CalcularCae(p)
      BY SMTT(60), <1>1, <1>2, <3>3 DEF Replanificar, CalcularCae, TypeOK
    <3>4. CASE Marcar(p) \/ TomarMutex(p) \/ Retomar(p)
      BY <3>4 DEF Marcar, TomarMutex, Retomar
    <3> QED
      BY <1>5, <2>2, <3>1, <3>2, <3>3, <3>4 DEF PasoAgenda, DespacharSiguiente
  <2> QED
    BY <2>1, <2>2
<1>6. ASSUME NEW q \in Pids, Solicitud(q)
      PROVE  agenda[p] \in {"marcar", "mutex", "retomar"}
  <2>1. CASE CrearPrograma(q) \/ Desconectar(q)
    BY <1>1, <2>1 DEF CrearPrograma, Desconectar
  <2>2. CASE ScheduleNext(q)
    BY <2>2 DEF ScheduleNext, TypeOK
  <2>3. ASSUME NEW t \in Tids,
               CrearHilo(q, t) \/ RealizarJoin(q, t) \/ RealizarClose(q, t)
        PROVE  UNCHANGED agenda
    BY <1>2, <2>3 DEF CrearHilo, RealizarJoin, RealizarClose
  <2>4. ASSUME NEW t \in Tids, NEW s \in Sems, SuseWait(q, t, s)
        PROVE  UNCHANGED agenda
    BY <1>2, <2>4 DEF SuseWait
  <2>5. ASSUME NEW s \in Sems, SuseSignal(q, s) PROVE UNCHANGED agenda
    BY <1>2, <2>5 DEF SuseSignal
  <2> QED
    BY <1>1, <1>6, <2>1, <2>2, <2>3, <2>4, <2>5 DEF Solicitud
<1>7. ASSUME NEW q \in Pids, Recibir(q) PROVE UNCHANGED agenda
  BY <1>7 DEF Recibir
<1>8. CASE UNCHANGED vars
  BY <1>1, <1>8 DEF vars
<1> QED
  BY <1>1, <1>3, <1>4, <1>5, <1>6, <1>7, <1>8 DEF Next, PasoServidor

LEMMA DuermeSinExecPaso ==
    ASSUME TypeOK, Lugares, LimpiezaAlFinal, DuermeSinExec, [Next]_vars
    PROVE  DuermeSinExec'
<1> SUFFICES ASSUME NEW p \in Pids, Vivo(p)',
                    agenda'[p] \in {"marcar", "mutex", "retomar"}
             PROVE  p \in listas' /\ exec'[p] = Nadie
  BY DEF DuermeSinExec
<1>1. Vivo(p)
  BY VivoSigue
<1>2. p \in listas /\ exec[p] = Nadie
  <2>1. CASE QuedarSinHilos(p)
    BY <2>1 DEF QuedarSinHilos
  <2>2. CASE agenda[p] \in {"marcar", "mutex", "retomar"}
    BY <1>1, <2>2 DEF DuermeSinExec
  <2> QED
    BY <2>1, <2>2, DuermeDesde
<1>3. p \in listas'
  BY <1>2, ListasSiguen
<1>4. ASSUME NEW q \in Pids, DejarExec(q) PROVE exec'[p] = Nadie
  BY <1>2, <1>4 DEF DejarExec, TypeOK
<1>5. exec'[p] = Nadie
  <2>1. CASE UNCHANGED exec
    BY <1>2, <2>1
  <2>2. ASSUME NEW h \in Hilo, PasarAReady(h) PROVE exec'[p] = Nadie
    BY <1>2, <2>2, PasarExec
  <2>3. ASSUME NEW q \in Pids, Bloquea(q) PROVE exec'[p] = Nadie
    BY <1>4, <2>3 DEF Bloquea
  <2>4. CASE SoltarExec \/ LimpiarReady \/ LimpiarPrograma
    <3>1. UNCHANGED exec \/ (DejarExec(conexion.pid) /\ conexion.pid \in Pids)
      BY <2>4 DEF SoltarExec, LimpiarReady, LimpiarPrograma, varsPrograma,
         TypeOK, ConexionEnCurso
    <3> QED
      BY <1>4, <2>1, <3>1
  <2>5. ASSUME NEW q \in Pids, Desalojar(q) \/ Despachar(q)
        PROVE  exec'[p] = Nadie
    <3>1. q # p
      BY <1>2, <2>5 DEF Desalojar, Despachar, TypeOK
    <3> QED
      BY <1>2, <2>5, <3>1 DEF Desalojar, Despachar, TypeOK
  <2> QED
    BY <2>1, <2>2, <2>3, <2>4, <2>5, ExecCambiaPaso DEF ExecCambia
<1> QED
  BY <1>3, <1>5

LEMMA CierreEnExecPaso ==
    ASSUME TypeOK, Lugares, Vida, [Next]_vars
    PROVE  CierreEnExec'
<1> SUFFICES ASSUME EnCierre' # Nadie
             PROVE  /\ socket'[EnCierre'.pid] = "conectado"
                    /\ exec'[EnCierre'.pid] = EnCierre'
  BY DEF CierreEnExec
<1>1. CASE EnCierre = Nadie
  <2>1. PICK p \in Pids, t \in Tids :
               /\ RealizarClose(p, t) /\ exec[p] # Nadie
               /\ conexion' = [paso |-> "metricas", pid |-> p, hilo |-> exec[p]]
    BY <1>1, CierreEmpieza
  <2>2. EnCierre' = exec[p]
    BY <2>1 DEF EnCierre
  <2>3. exec[p].pid = p
    BY <2>1, EnExec DEF Lugares
  <2>4. socket'[p] = "conectado" /\ exec'[p] = exec[p]
    BY <2>1 DEF RealizarClose, Solicita, EnServicio, varsPrograma
  <2> QED
    BY <2>2, <2>3, <2>4
<1>2. CASE EnCierre # Nadie
  <2>1. /\ EnCierre' = EnCierre /\ EnCierre \in Hilo /\ EnCierre.pid \in Pids
        /\ agenda[EnCierre.pid] = "no" /\ transicion[EnCierre] = "Exit"
    BY <1>2, CierreSigue, EnCierreTipo DEF Lugares, CierreQuieto, HiloONadie,
       Hilo
  <2>2. /\ socket[EnCierre.pid] = "conectado"
        /\ exec[EnCierre.pid] = EnCierre
    BY <1>2 DEF Vida, CierreEnExec
  <2>3. EnCierre.pid \in listas
    BY <2>1, <2>2 DEF Vida, ListaDeVivos, Vivo
  <2>4. socket' = socket
    <3>1. conexion # EnSelect
      BY <1>2, EnSelectLibre
    <3> QED
      BY <3>1, SocketCambia DEF CrearPrograma, Desconectar, EnServicio
  <2>5. exec'[EnCierre.pid] = EnCierre
    <3>1. CASE UNCHANGED exec
      BY <2>2, <3>1
    <3>2. ASSUME NEW h \in Hilo, PasarAReady(h)
          PROVE  exec'[EnCierre.pid] = EnCierre
      BY <2>1, <2>2, <2>3, <3>2, PasarExec
    <3>3. \A p \in Pids : ~Bloquea(p)
      BY <1>2 DEF Bloquea
    <3>4. ~SoltarExec
      BY <1>2, <2>1, MueveSoltar DEF Suelta
    <3>5. ~LimpiarReady /\ ~LimpiarPrograma
      BY <1>2 DEF LimpiarReady, LimpiarPrograma, EnCierre
    <3>6. ASSUME NEW q \in Pids,
                 Desalojar(q) \/ (Despachar(q) /\ agenda[q] # "no")
          PROVE  exec'[EnCierre.pid] = EnCierre
      <4>1. q # EnCierre.pid
        BY <2>1, <3>6 DEF Desalojar, Calcular
      <4> QED
        BY <2>1, <2>2, <3>6, <4>1 DEF Desalojar, Despachar, TypeOK
    <3> QED
      BY <3>1, <3>2, <3>3, <3>4, <3>5, <3>6, ExecCambiaPaso DEF ExecCambia
  <2> QED
    BY <2>1, <2>2, <2>4, <2>5
<1> QED
  BY <1>1, <1>2

LEMMA VidaInit == Init => Vida
<1> SUFFICES ASSUME Init PROVE Vida
  OBVIOUS
<1>1. LimpiezaAlFinal
  BY DEF Init, EnSelect, LimpiezaAlFinal
<1>2. ListaDeVivos /\ DuermeSinExec
  BY DEF Init, ListaDeVivos, DuermeSinExec
<1>3. CierreEnExec
  BY EnSelectLibre DEF Init, CierreEnExec
<1> QED
  BY <1>1, <1>2, <1>3 DEF Vida

LEMMA VidaPaso ==
    ASSUME TypeOK, ColasNew, Lugares, Vida, [Next]_vars
    PROVE  Vida'
<1>1. Mueve
  BY Movimiento
<1>2. LimpiezaAlFinal' /\ ListaDeVivos' /\ DuermeSinExec'
  BY <1>1, LimpiezaAlFinalPaso, ListaDeVivosPaso, DuermeSinExecPaso DEF Vida
<1>3. CierreEnExec'
  BY CierreEnExecPaso
<1> QED
  BY <1>2, <1>3 DEF Vida

LEMMA VidaSiempre == Spec => []Vida
<1>1. TypeOK /\ ColasNew /\ Lugares /\ Vida /\ [Next]_vars => Vida'
  BY VidaPaso
<1> QED
  BY VidaInit, TipoCorrecto, ColasNewSiempre, LugaresSiempre, <1>1, PTL DEF Spec

-----------------------------------------------------------------------------
(* Nobody is overwritten.                                                  *)

(* A hilo leaves exec of a program that is alive only when it blocks, when *)
(* it goes to ready or when it ended.                                      *)
LEMMA ExecNoSePisa ==
    ASSUME TypeOK, Lugares, Vida, [Next]_vars, NEW p \in Pids, Vivo(p)',
           exec[p] # Nadie, exec'[p] # exec[p]
    PROVE  transicion'[exec[p]] # "Execute"
<1>1. Vivo(p)
  BY VivoSigue
<1>2. exec[p] \in Hilo /\ exec[p].pid = p /\ p \in listas
  <2>1. /\ exec[p] \in Hilo /\ exec[p].pid = p
        /\ transicion[exec[p]] \in {"Execute", "Exit"}
    BY EnExec DEF Lugares
  <2> QED
    BY <1>1, <2>1 DEF Vida, ListaDeVivos
<1>3. ASSUME NEW h \in Hilo, PasarAReady(h) PROVE FALSE
  BY <1>2, <1>3, PasarExec
<1>4. ASSUME NEW q \in Pids, Bloquea(q) PROVE transicion'[exec[p]] # "Execute"
  <2>1. q = p
    BY <1>4 DEF Bloquea, DejarExec, TypeOK
  <2> QED
    BY <1>2, <1>4, <2>1, CambiaSolo DEF Bloquea
<1>5. CASE SoltarExec
  <2>1. PICK q \in Pids : Suelta(q)
    BY <1>5, MueveSoltar
  <2>2. q = p
    BY <2>1 DEF Suelta, DejarExec, TypeOK
  <2>3. EnCierre # Nadie /\ EnCierre.pid = p /\ transicion' = transicion
    BY <2>1, <2>2, SUSEAssumption DEF Suelta
  <2>4. exec[p] = EnCierre /\ transicion[EnCierre] = "Exit"
    BY <2>3 DEF Vida, CierreEnExec, Lugares, CierreQuieto
  <2> QED
    BY <2>3, <2>4
<1>6. CASE LimpiarReady \/ LimpiarPrograma
  <2>1. conexion.pid # p
    BY <1>1, <1>6 DEF LimpiarReady, LimpiarPrograma, Vida, LimpiezaAlFinal
  <2> QED
    BY <1>6, <2>1 DEF LimpiarReady, LimpiarPrograma, DejarExec, TypeOK,
       varsPrograma
<1>7. ASSUME NEW q \in Pids, Desalojar(q) PROVE transicion'[exec[p]] # "Execute"
  <2>1. q = p
    BY <1>7 DEF Desalojar, TypeOK
  <2>2. Desaloja(p) /\ Head(ready[p]) \in Hilo /\ Head(ready[p]) # exec[p]
    BY <1>7, <2>1, MueveDesalojar, Cabezas DEF Desaloja
  <2> QED
    BY <1>2, <2>2 DEF Desaloja, TypeOK
<1>8. ASSUME NEW q \in Pids, Despachar(q),
             agenda[q] = "retomar" \/ exec[q] = Nadie
      PROVE  FALSE
  <2>1. q = p
    BY <1>8 DEF Despachar, TypeOK
  <2> QED
    BY <1>1, <1>8, <2>1 DEF Vida, DuermeSinExec
<1> QED
  BY <1>3, <1>4, <1>5, <1>6, <1>7, <1>8, ExecCambiaPaso DEF ExecCambia

(* Where a hilo of a program that is alive must be.                        *)
Hallado(h) ==
    /\ transicion[h] = "New" => h \in EsperaAdmision
    /\ transicion[h] = "Ready" => h \in Range(ready[h.pid])
    /\ transicion[h] = "Execute" => exec[h.pid] = h
    /\ transicion[h] = "Blocked" =>
           \/ \E t \in Tids : h \in Range(bloqueados[h.pid][t])
           \/ \E s \in Sems : h \in Range(cola[s])
    /\ transicion[h] = "Exit" => h \in exit[h.pid]

Hallados == \A h \in Hilo : Vivo(h.pid) => Hallado(h)

(* The structures of a program that is alive are not thrown away.          *)
LEMMA VivoSinLimpieza ==
    ASSUME LimpiezaAlFinal, NEW p, Vivo(p)
    PROVE  ~LimpiaListas(p) /\ ~BorraListas(p)
BY DEF LimpiezaAlFinal, LimpiaListas, BorraListas

LEMMA SigueNew ==
    ASSUME TypeOK, Mueve, NEW h \in EsperaAdmision, transicion'[h] = "New"
    PROVE  h \in EsperaAdmision'
<1>1. new \in Seq(Hilo) /\ colaAux \in Seq(Hilo) /\ h \in Hilo
  BY EsperanTipo DEF TypeOK
<1>2. CASE UNCHANGED <<new, colaAux, enMano>>
  BY <1>2 DEF EsperaAdmision
<1>3. CASE Rota
  <2>1. CASE colaAux = <<>> /\ colaAux' = new /\ enMano' = enMano
    BY <2>1, RangoVacio DEF EsperaAdmision
  <2>2. CASE new' = new \o colaAux /\ enMano' = enMano
    <3>1. Range(new') = Range(new) \cup Range(colaAux)
      BY <1>1, <2>2, RangeConcatenation
    <3> QED
      BY <2>2, <3>1 DEF EsperaAdmision
  <2> QED
    BY <1>3, <2>1, <2>2 DEF Rota
<1>4. CASE Toma
  <2>1. /\ new # <<>> /\ enMano = Nadie /\ enMano' = Head(new)
        /\ new' = Tail(new) /\ colaAux' = colaAux
    BY <1>4 DEF Toma
  <2>2. Range(new) = {enMano'} \cup Range(new')
    BY <1>1, <2>1, RangoTail
  <2> QED
    BY <1>1, <2>1, <2>2, SUSEAssumption DEF EsperaAdmision
<1>5. CASE Entra
  <2>1. h # enMano
    BY <1>5, CambiaSolo DEF Entra, Llega
  <2> QED
    BY <1>5, <2>1 DEF Entra, EsperaAdmision
<1>6. ASSUME NEW g \in Hilo, Nace(g) PROVE h \in EsperaAdmision'
  <2>1. new' = Append(new, g) /\ UNCHANGED <<colaAux, enMano>>
    BY <1>6 DEF Nace
  <2>2. Range(new') = Range(new) \cup {g}
    BY <1>1, <2>1, RangoAppend
  <2> QED
    BY <2>1, <2>2 DEF EsperaAdmision
<1>7. \/ UNCHANGED <<new, colaAux, enMano>> \/ Rota \/ Toma \/ Entra
      \/ \E g \in Hilo : Nace(g)
  BY DEF Mueve, Quieto, Despierta, Bloquea, Cierra, Suelta, LimpiaListas,
     BorraListas, Ordena, Desaloja, Despacha, Libera
<1> QED
  BY <1>2, <1>3, <1>4, <1>5, <1>6, <1>7

LEMMA LlegaNew ==
    ASSUME TypeOK, Mueve, NEW h \in Hilo, transicion[h] # "New",
           transicion'[h] = "New"
    PROVE  h \in EsperaAdmision'
<1>1. ASSUME NEW de, NEW a, Cambia(h, de, a) PROVE a = "New"
  BY <1>1, CambiaSolo
<1>2. /\ ~(Entra /\ h = enMano)
      /\ \A s \in Sems : h = Head(cola[s]) => ~Despierta(s)
  BY <1>1 DEF Entra, Despierta, Llega
<1>3. ASSUME NEW p \in Pids
      PROVE  /\ h = exec[p] => ~Bloquea(p) /\ ~Cierra(p)
             /\ h = Head(ready[p]) => ~Despacha(p)
             /\ \A t \in Tids : h = Head(bloqueados[p][t]) => ~Libera(p, t)
  BY <1>1 DEF Bloquea, Cierra, Despacha, Libera
<1>4. ASSUME NEW p \in Pids, Desaloja(p) PROVE h \notin {exec[p], Head(ready[p])}
  BY <1>4 DEF Desaloja, TypeOK
<1>5. Nace(h)
  BY <1>2, <1>3, <1>4, QuienCambia
<1>6. new' = Append(new, h) /\ new \in Seq(Hilo)
  BY <1>5 DEF Nace, TypeOK
<1>7. h \in Range(new')
  BY <1>6, RangoAppend
<1> QED
  BY <1>7 DEF EsperaAdmision

(* The lists of ready.                                                     *)
LEMMA SigueReady ==
    ASSUME TypeOK, Mueve, NEW p \in Pids, NEW h \in Range(ready[p]),
           transicion'[h] = "Ready", ~LimpiaListas(p)
    PROVE  h \in Range(ready'[p])
<1>1. ready[p] \in Seq(Hilo)
  BY DEF TypeOK
<1>2. h \in Hilo
  BY <1>1, RangoTipado
<1>3. CASE ready'[p] = ready[p]
  BY <1>3
<1>4. ASSUME NEW q \in Pids, NEW g \in Hilo,
             ready' = [ready EXCEPT ![q] = Append(@, g)]
      PROVE  h \in Range(ready'[p])
  <2>1. ready'[p] \in {ready[p], Append(ready[p], g)}
    BY <1>4 DEF TypeOK
  <2>2. Range(Append(ready[p], g)) = Range(ready[p]) \cup {g}
    BY <1>1, RangoAppend
  <2> QED
    BY <2>1, <2>2
<1>5. ASSUME NEW q \in Pids, Ordena(q) PROVE h \in Range(ready'[p])
  <2>1. PICK l \in Ordenamientos(ready[q]) : ready' = [ready EXCEPT ![q] = l]
    BY <1>5 DEF Ordena
  <2>2. Range(l) = Range(ready[q])
    BY DEF Ordenamientos
  <2> QED
    BY <2>1, <2>2 DEF TypeOK
<1>6. ASSUME Despacha(p) PROVE h \in Range(ready'[p])
  <2>1. /\ ready[p] # <<>> /\ ready'[p] = Tail(ready[p])
        /\ Cambia(Head(ready[p]), "Ready", "Execute")
    BY <1>6 DEF Despacha, TypeOK
  <2>2. Range(ready[p]) = {Head(ready[p])} \cup Range(ready'[p])
        /\ Head(ready[p]) \in Hilo
    BY <1>1, <2>1, RangoTail
  <2>3. h # Head(ready[p])
    BY <2>1, <2>2, CambiaSolo
  <2> QED
    BY <2>2, <2>3
<1>7. ASSUME Desaloja(p) PROVE h \in Range(ready'[p])
  <2> DEFINE l == Tail(ready[p])
             g == Head(ready[p])
  <2>1. Range(ready[p]) = {g} \cup Range(l) /\ g \in Hilo /\ l \in Seq(Hilo)
    BY <1>1, <1>7, RangoTail DEF Desaloja
  <2>2. ready'[p] = Append(l, exec[p]) /\ exec[p] \in Hilo
        /\ transicion' = [transicion EXCEPT ![exec[p]] = "Ready", ![g] = "Execute"]
    BY <1>7 DEF Desaloja, TypeOK
  <2> HIDE DEF l, g
  <2>3. h # g
    BY <2>1, <2>2 DEF TypeOK
  <2>4. Range(ready'[p]) = Range(l) \cup {exec[p]}
    BY <2>1, <2>2, RangoAppend
  <2> QED
    BY <2>1, <2>3, <2>4
<1>8. ASSUME NEW q \in Pids \ {p}, LimpiaListas(q) \/ Despacha(q) \/ Desaloja(q)
      PROVE  ready'[p] = ready[p]
  BY SMTT(60), <1>8 DEF LimpiaListas, Despacha, Desaloja, TypeOK
<1>9. ASSUME NEW g, NEW de, Llega(g, de) PROVE h \in Range(ready'[p])
  BY <1>3, <1>4, <1>9 DEF Llega, Hilo
<1>10. ASSUME NEW q \in Pids, NEW t \in Tids, Libera(q, t)
       PROVE  h \in Range(ready'[p])
  BY <1>4, <1>10, Cabezas DEF Libera
<1>11. CASE Quieto \/ Rota \/ Toma \/ \E g \in Hilo : Nace(g)
  BY <1>3, <1>11 DEF Quieto, Rota, Toma, Nace
<1>12. ASSUME NEW q \in Pids, Bloquea(q) \/ Cierra(q) \/ Suelta(q) \/ BorraListas(q)
       PROVE  ready'[p] = ready[p]
  BY <1>12 DEF Bloquea, Cierra, Suelta, BorraListas
<1> QED
  BY <1>3, <1>5, <1>6, <1>7, <1>8, <1>9, <1>10, <1>11, <1>12 DEF Mueve, Entra,
     Despierta

LEMMA LlegaReady ==
    ASSUME TypeOK, Lugares, Mueve, NEW h \in Hilo, transicion[h] # "Ready",
           transicion'[h] = "Ready"
    PROVE  h \in Range(ready'[h.pid])
<1>1. ASSUME NEW de, NEW a, Cambia(h, de, a) PROVE a = "Ready"
  BY <1>1, CambiaSolo
<1>2. ASSUME NEW l \in Seq(Hilo), NEW p \in Pids, p = h.pid,
             ready' = [ready EXCEPT ![p] = Append(l, h)]
      PROVE  h \in Range(ready'[h.pid])
  BY <1>2, RangoAppend DEF TypeOK
<1>3. ASSUME NEW de, Llega(h, de) PROVE h \in Range(ready'[h.pid])
  BY <1>1, <1>2, <1>3 DEF Llega, Hilo, TypeOK
<1>4. ASSUME NEW p \in Pids, Desaloja(p), h \in {exec[p], Head(ready[p])}
      PROVE  h \in Range(ready'[h.pid])
  <2>1. /\ h = exec[p] /\ h.pid = p
        /\ ready' = [ready EXCEPT ![p] = Append(Tail(ready[p]), h)]
    BY <1>4 DEF Desaloja
  <2>2. Tail(ready[p]) \in Seq(Hilo)
    BY <1>4, RangoTail DEF Desaloja, TypeOK
  <2> QED
    BY <1>2, <2>1, <2>2
<1>5. ASSUME NEW p \in Pids, NEW t \in Tids, Libera(p, t),
             h = Head(bloqueados[p][t])
      PROVE  h \in Range(ready'[h.pid])
  <2>1. h \in Range(bloqueados[p][t])
    BY <1>5, RangoTail DEF Libera, TypeOK
  <2>2. h.pid = p
    BY <2>1, EnListaJoin DEF Lugares
  <2> QED
    BY <1>2, <1>5, <2>2 DEF Libera, TypeOK
<1>6. ASSUME NEW p \in Pids
      PROVE  /\ h = exec[p] => ~Bloquea(p) /\ ~Cierra(p)
             /\ h = Head(ready[p]) => ~Despacha(p)
  BY <1>1 DEF Bloquea, Cierra, Despacha
<1>7. ~Nace(h)
  BY <1>1 DEF Nace
<1> QED
  BY <1>3, <1>4, <1>5, <1>6, <1>7, QuienCambia DEF Entra, Despierta

LEMMA LlegaExecute ==
    ASSUME TypeOK, Lugares, Mueve, NEW h \in Hilo, transicion[h] # "Execute",
           transicion'[h] = "Execute"
    PROVE  exec'[h.pid] = h
<1>1. ASSUME NEW de, NEW a, Cambia(h, de, a) PROVE a = "Execute"
  BY <1>1, CambiaSolo
<1>2. ASSUME NEW p \in Pids, p = h.pid, exec' = [exec EXCEPT ![p] = h]
      PROVE  exec'[h.pid] = h
  BY <1>2 DEF TypeOK
<1>3. ASSUME NEW de, Llega(h, de) PROVE exec'[h.pid] = h
  BY <1>1, <1>2, <1>3 DEF Llega, Hilo
<1>4. ASSUME NEW p \in Pids, Desaloja(p) \/ Despacha(p), h = Head(ready[p])
      PROVE  exec'[h.pid] = h
  <2>1. h \in Range(ready[p])
    BY <1>4, RangoTail DEF Desaloja, Despacha, TypeOK
  <2>2. h.pid = p
    BY <2>1, EnListaReady DEF Lugares
  <2> QED
    BY <1>2, <1>4, <2>2 DEF Desaloja, Despacha
<1>5. ASSUME NEW p \in Pids
      PROVE  /\ h = exec[p] => ~Bloquea(p) /\ ~Cierra(p) /\ ~Desaloja(p)
             /\ \A t \in Tids : h = Head(bloqueados[p][t]) => ~Libera(p, t)
  BY <1>1 DEF Bloquea, Cierra, Desaloja, Libera
<1>6. ~Nace(h)
  BY <1>1 DEF Nace
<1> QED
  BY <1>3, <1>4, <1>5, <1>6, QuienCambia DEF Entra, Despierta

(* The hilos that wait.                                                    *)
Espera(h) ==
    \/ \E t \in Tids : h \in Range(bloqueados[h.pid][t])
    \/ \E s \in Sems : h \in Range(cola[s])

LEMMA SigueJoin ==
    ASSUME TypeOK, Mueve, NEW p \in Pids, NEW t \in Tids,
           NEW h \in Range(bloqueados[p][t]), transicion'[h] = "Blocked",
           ~BorraListas(p)
    PROVE  h \in Range(bloqueados'[p][t])
<1>1. bloqueados[p][t] \in Seq(Hilo)
  BY DEF TypeOK
<1>2. h \in Hilo
  BY <1>1, RangoTipado
<1>3. CASE bloqueados'[p][t] = bloqueados[p][t]
  BY <1>3
<1>4. ASSUME NEW q \in Pids, Bloquea(q) PROVE h \in Range(bloqueados'[p][t])
  <2>1. /\ exec[q] \in Hilo
        /\ bloqueados'[p][t] \in {bloqueados[p][t], Append(bloqueados[p][t], exec[q])}
    <3>1. CASE UNCHANGED bloqueados
      BY <1>4, <3>1 DEF Bloquea
    <3>2. ASSUME NEW u \in Tids,
                 bloqueados' = [bloqueados EXCEPT ![q][u] = Append(@, exec[q])]
          PROVE  bloqueados'[p][t] \in
                     {bloqueados[p][t], Append(bloqueados[p][t], exec[q])}
      BY <3>2 DEF TypeOK
    <3> QED
      BY <1>4, <3>1, <3>2 DEF Bloquea
  <2>2. Range(Append(bloqueados[p][t], exec[q])) =
            Range(bloqueados[p][t]) \cup {exec[q]}
    BY <1>1, <2>1, RangoAppend
  <2> QED
    BY <2>1, <2>2
<1>5. CASE Libera(p, t)
  <2>1. /\ bloqueados[p][t] # <<>>
        /\ bloqueados'[p][t] = Tail(bloqueados[p][t])
        /\ Cambia(Head(bloqueados[p][t]), "Blocked", "Ready")
    BY <1>5 DEF Libera, TypeOK
  <2>2. Range(bloqueados[p][t]) =
            {Head(bloqueados[p][t])} \cup Range(bloqueados'[p][t])
        /\ Head(bloqueados[p][t]) \in Hilo
    BY <1>1, <2>1, RangoTail
  <2>3. h # Head(bloqueados[p][t])
    BY <2>1, <2>2, CambiaSolo
  <2> QED
    BY <2>2, <2>3
<1>6. ASSUME NEW q \in Pids, NEW u \in Tids, Libera(q, u), q # p \/ u # t
      PROVE  bloqueados'[p][t] = bloqueados[p][t]
  BY <1>6 DEF Libera, TypeOK
<1>7. ASSUME NEW q \in Pids, BorraListas(q)
      PROVE  bloqueados'[p][t] = bloqueados[p][t]
  BY <1>7 DEF BorraListas, TypeOK
<1>8. UNCHANGED bloqueados
      \/ \E q \in Pids : \/ Bloquea(q) \/ BorraListas(q)
                         \/ \E u \in Tids : Libera(q, u)
  BY DEF Mueve, Quieto, Rota, Toma, Entra, Nace, Despierta, Cierra, Suelta,
     LimpiaListas, Ordena, Desaloja, Despacha
<1> QED
  BY <1>3, <1>4, <1>5, <1>6, <1>7, <1>8

LEMMA SigueCola ==
    ASSUME TypeOK, Mueve, NEW s \in Sems, NEW h \in Range(cola[s]),
           transicion'[h] = "Blocked"
    PROVE  h \in Range(cola'[s])
<1>1. cola[s] \in Seq(Hilo)
  BY DEF TypeOK
<1>2. h \in Hilo
  BY <1>1, RangoTipado
<1>3. CASE cola'[s] = cola[s]
  BY <1>3
<1>4. ASSUME NEW q \in Pids, Bloquea(q) PROVE h \in Range(cola'[s])
  <2>1. exec[q] \in Hilo /\ cola'[s] \in {cola[s], Append(cola[s], exec[q])}
    BY SMTT(60), <1>4 DEF Bloquea, TypeOK
  <2>2. Range(Append(cola[s], exec[q])) = Range(cola[s]) \cup {exec[q]}
    BY <1>1, <2>1, RangoAppend
  <2> QED
    BY <2>1, <2>2
<1>5. CASE Despierta(s)
  <2>1. /\ cola[s] # <<>> /\ cola'[s] = Tail(cola[s])
        /\ Llega(Head(cola[s]), "Blocked")
    BY <1>5 DEF Despierta, TypeOK
  <2>2. Range(cola[s]) = {Head(cola[s])} \cup Range(cola'[s])
        /\ Head(cola[s]) \in Hilo
    BY <1>1, <2>1, RangoTail
  <2>3. h # Head(cola[s])
    BY <2>1, <2>2, CambiaSolo DEF Llega
  <2> QED
    BY <2>2, <2>3
<1>6. ASSUME NEW r \in Sems \ {s}, Despierta(r) PROVE cola'[s] = cola[s]
  BY SMTT(60), <1>6 DEF Despierta, TypeOK
<1>7. UNCHANGED cola \/ (\E q \in Pids : Bloquea(q)) \/ \E r \in Sems : Despierta(r)
  BY DEF Mueve, Quieto, Rota, Toma, Entra, Nace, Cierra, Suelta, LimpiaListas,
     BorraListas, Ordena, Desaloja, Despacha, Libera
<1> QED
  BY <1>3, <1>4, <1>5, <1>6, <1>7

LEMMA LlegaBlocked ==
    ASSUME TypeOK, Mueve, NEW h \in Hilo, transicion[h] # "Blocked",
           transicion'[h] = "Blocked"
    PROVE  Espera(h)'
<1>1. ASSUME NEW de, NEW a, Cambia(h, de, a) PROVE a = "Blocked"
  BY <1>1, CambiaSolo
<1>2. PICK p \in Pids : Bloquea(p) /\ h = exec[p]
  <2>1. ~Nace(h) /\ \A de : ~Llega(h, de)
    BY <1>1 DEF Nace, Llega
  <2>2. ASSUME NEW p \in Pids
        PROVE  /\ h = exec[p] => ~Cierra(p)
               /\ h = Head(ready[p]) => ~Despacha(p)
               /\ \A t \in Tids : h = Head(bloqueados[p][t]) => ~Libera(p, t)
    BY <1>1 DEF Cierra, Despacha, Libera
  <2>3. ASSUME NEW p \in Pids, Desaloja(p)
        PROVE  h \notin {exec[p], Head(ready[p])}
    BY <2>3 DEF Desaloja, TypeOK
  <2> QED
    BY <2>1, <2>2, <2>3, QuienCambia DEF Entra, Despierta
<1>3. h.pid = p
  BY <1>2 DEF Bloquea
<1>4. ASSUME NEW s \in Sems, cola' = [cola EXCEPT ![s] = Append(@, h)]
      PROVE  h \in Range(cola'[s])
  BY <1>4, RangoAppend DEF TypeOK
<1>5. ASSUME NEW t \in Tids,
             bloqueados' = [bloqueados EXCEPT ![p][t] = Append(@, h)]
      PROVE  h \in Range(bloqueados'[p][t])
  <2>1. bloqueados[p][t] \in Seq(Hilo)
    BY DEF TypeOK
  <2>2. bloqueados'[p][t] = Append(bloqueados[p][t], h)
    BY <1>5 DEF TypeOK
  <2> QED
    BY <2>1, <2>2, RangoAppend
<1> QED
  BY <1>2, <1>3, <1>4, <1>5 DEF Bloquea, Espera

LEMMA SigueExit ==
    ASSUME TypeOK, Mueve, NEW p \in Pids, NEW h \in exit[p], ~LimpiaListas(p)
    PROVE  h \in exit'[p]
<1>1. ASSUME NEW q \in Pids, LimpiaListas(q) \/ Cierra(q) PROVE h \in exit'[p]
  BY SMTT(60), <1>1 DEF LimpiaListas, Cierra, TypeOK
<1>2. UNCHANGED exit \/ \E q \in Pids : LimpiaListas(q) \/ Cierra(q)
  BY DEF Mueve, Quieto, Rota, Toma, Entra, Nace, Despierta, Bloquea, Suelta,
     BorraListas, Ordena, Desaloja, Despacha, Libera
<1> QED
  BY <1>1, <1>2

LEMMA LlegaExit ==
    ASSUME TypeOK, Mueve, NEW h \in Hilo, transicion[h] # "Exit",
           transicion'[h] = "Exit"
    PROVE  h \in exit'[h.pid]
<1>1. ASSUME NEW de, NEW a, Cambia(h, de, a) PROVE a = "Exit"
  BY <1>1, CambiaSolo
<1>2. PICK p \in Pids : Cierra(p) /\ h = exec[p]
  <2>1. ~Nace(h) /\ \A de : ~Llega(h, de)
    BY <1>1 DEF Nace, Llega
  <2>2. ASSUME NEW p \in Pids
        PROVE  /\ h = exec[p] => ~Bloquea(p)
               /\ h = Head(ready[p]) => ~Despacha(p)
               /\ \A t \in Tids : h = Head(bloqueados[p][t]) => ~Libera(p, t)
    BY <1>1 DEF Bloquea, Despacha, Libera
  <2>3. ASSUME NEW p \in Pids, Desaloja(p)
        PROVE  h \notin {exec[p], Head(ready[p])}
    BY <2>3 DEF Desaloja, TypeOK
  <2> QED
    BY <2>1, <2>2, <2>3, QuienCambia DEF Entra, Despierta
<1> QED
  BY <1>2 DEF Cierra, TypeOK

-----------------------------------------------------------------------------
(* A step keeps every hilo of a program that is not closed in the          *)
(* structure of its state.                                                 *)
LEMMA HalladosPaso ==
    ASSUME TypeOK, ColasNew, Lugares, Vida, Hallados, [Next]_vars
    PROVE  Hallados'
<1> SUFFICES ASSUME NEW h \in Hilo, Vivo(h.pid)' PROVE Hallado(h)'
  BY DEF Hallados
<1>1. Mueve
  BY Movimiento
<1>2. h.pid \in Pids
  BY DEF Hilo
<1>3. Vivo(h.pid)
  BY <1>2, VivoSigue
<1>4. Hallado(h)
  BY <1>3 DEF Hallados
<1>5. ~LimpiaListas(h.pid) /\ ~BorraListas(h.pid)
  BY <1>3, VivoSinLimpieza DEF Vida
<1>6. ASSUME transicion'[h] = "New" PROVE h \in EsperaAdmision'
  BY <1>1, <1>4, <1>6, SigueNew, LlegaNew DEF Hallado
<1>7. ASSUME transicion'[h] = "Ready" PROVE h \in Range(ready'[h.pid])
  BY <1>1, <1>2, <1>4, <1>5, <1>7, SigueReady, LlegaReady DEF Hallado
<1>8. ASSUME transicion'[h] = "Execute" PROVE exec'[h.pid] = h
  <2>1. CASE transicion[h] # "Execute"
    BY <1>1, <1>8, <2>1, LlegaExecute
  <2>2. CASE transicion[h] = "Execute"
    <3>1. exec[h.pid] = h
      BY <1>4, <2>2 DEF Hallado
    <3>2. h # Nadie
      BY SUSEAssumption
    <3> QED
      BY <1>2, <1>8, <3>1, <3>2, ExecNoSePisa
  <2> QED
    BY <2>1, <2>2
<1>9. ASSUME transicion'[h] = "Blocked" PROVE Espera(h)'
  <2>1. CASE transicion[h] # "Blocked"
    BY <1>1, <1>9, <2>1, LlegaBlocked
  <2>2. ASSUME NEW t \in Tids, h \in Range(bloqueados[h.pid][t])
        PROVE  Espera(h)'
    BY <1>1, <1>2, <1>5, <1>9, <2>2, SigueJoin DEF Espera
  <2>3. ASSUME NEW s \in Sems, h \in Range(cola[s]) PROVE Espera(h)'
    BY <1>1, <1>9, <2>3, SigueCola DEF Espera
  <2> QED
    BY <1>4, <2>1, <2>2, <2>3 DEF Hallado
<1>10. ASSUME transicion'[h] = "Exit" PROVE h \in exit'[h.pid]
  BY <1>1, <1>2, <1>4, <1>5, <1>10, SigueExit, LlegaExit DEF Hallado
<1> QED
  BY <1>6, <1>7, <1>8, <1>9, <1>10 DEF Hallado, Espera

LEMMA HalladosSiempre == Spec => []Hallados
<1>1. Init => Hallados
  BY DEF Init, Hallados, Hallado
<1>2. TypeOK /\ ColasNew /\ Lugares /\ Vida /\ Hallados /\ [Next]_vars
      => Hallados'
  BY HalladosPaso
<1> QED
  BY <1>1, <1>2, TipoCorrecto, ColasNewSiempre, LugaresSiempre, VidaSiempre,
     PTL DEF Spec

(* The state written in Transiciones.log about a hilo of a connected       *)
(* program says which structure of SUSE.c holds it: no interleaving of     *)
(* planificarReady, of a schedule_next and of the connection thread        *)
(* overwrites the last pointer to it.                                      *)
THEOREM NoSePierden == Spec => []NadieSePierde
<1>1. Hallados => NadieSePierde
  <2> SUFFICES ASSUME NEW h \in Hilo, Hallado(h)
               PROVE  CASE transicion[h] = "New" -> h \in EsperaAdmision
                        [] transicion[h] = "Ready" -> h \in Range(ready[h.pid])
                        [] transicion[h] = "Execute" -> exec[h.pid] = h
                        [] transicion[h] = "Blocked" ->
                             \/ \E t \in Tids : h \in Range(bloqueados[h.pid][t])
                             \/ \E s \in Sems : h \in Range(cola[s])
                        [] transicion[h] = "Exit" -> h \in exit[h.pid]
                        [] OTHER -> TRUE
    BY DEF Hallados, NadieSePierde, Vivo
  <2>1. CASE transicion[h] \in {"New", "Ready", "Execute", "Blocked", "Exit"}
    BY <2>1 DEF Hallado
  <2>2. CASE transicion[h] \notin {"New", "Ready", "Execute", "Blocked", "Exit"}
    BY <2>2
  <2> QED
    BY <2>1, <2>2
<1> QED
  BY <1>1, HalladosSiempre, PTL

-----------------------------------------------------------------------------
(* The five states.                                                        *)

(* Only a program that connected has hilos.                                *)
HilosDeAlguien ==
    \A h \in Hilo : transicion[h] # "Inexistente" => socket[h.pid] # "libre"

LEMMA HilosDeAlguienPaso ==
    ASSUME TypeOK, ColasNew, Lugares, HilosDeAlguien, [Next]_vars
    PROVE  HilosDeAlguien'
<1> SUFFICES ASSUME NEW h \in Hilo, transicion'[h] # "Inexistente"
             PROVE  socket'[h.pid] # "libre"
  BY DEF HilosDeAlguien
<1>1. h.pid \in Pids /\ Mueve
  BY Movimiento DEF Hilo
<1>2. socket[h.pid] # "libre"
  <2>1. CASE transicion[h] # "Inexistente"
    BY <2>1 DEF HilosDeAlguien
  <2>2. CASE transicion[h] = "Inexistente"
    <3>1. ~Entra \/ h # enMano
      BY SMTT(60), <2>2 DEF Entra, Llega, Cambia
    <3>2. ASSUME NEW s \in Sems, Despierta(s) PROVE h # Head(cola[s])
      BY <2>2, <3>2 DEF Despierta, Llega, Cambia
    <3>3. ASSUME NEW p \in Pids
          PROVE  /\ Bloquea(p) \/ Cierra(p) => h # exec[p]
                 /\ Desaloja(p) => h \notin {exec[p], Head(ready[p])}
                 /\ Despacha(p) => h # Head(ready[p])
                 /\ \A t \in Tids : Libera(p, t) => h # Head(bloqueados[p][t])
      BY <2>2 DEF Bloquea, Cierra, Desaloja, Despacha, Libera, Cambia
    <3>4. Nace(h)
      BY <1>1, <2>2, <3>1, <3>2, <3>3, QuienCambia
    <3> QED
      BY <3>4 DEF Nace
  <2> QED
    BY <2>1, <2>2
<1>3. ASSUME NEW p \in Pids, CrearPrograma(p) \/ Desconectar(p)
      PROVE  socket'[h.pid] # "libre"
  BY <1>1, <1>2, <1>3 DEF CrearPrograma, Desconectar, TypeOK
<1> QED
  BY <1>2, <1>3, SocketCambia

(* What CincoEstados sees of a hilo: the last line about it, until its     *)
(* program closes.                                                         *)
EstadoDe(h) == IF Vivo(h.pid) THEN transicion[h] ELSE "Fuera"

LugarEsEstado == \A h \in Hilo : Lugar(h) = EstadoDe(h)

LEMMA LugarDe ==
    ASSUME TypeOK, Lugares, Hallados
    PROVE  LugarEsEstado
<1> SUFFICES ASSUME NEW h \in Hilo, Vivo(h.pid) PROVE Lugar(h) = transicion[h]
  BY DEF LugarEsEstado, EstadoDe, Lugar, Vivo
<1>1. h.pid \in Pids /\ transicion[h] \in Estados /\ socket[h.pid] # "cerrado"
  BY DEF Hilo, TypeOK, Vivo
<1>2. Hallado(h)
  BY DEF Hallados
<1>3. /\ h \in exit[h.pid] => transicion[h] = "Exit"
      /\ exec[h.pid] = h => transicion[h] \in {"Execute", "Exit"}
  <2>1. h # Nadie
    BY SUSEAssumption
  <2> QED
    BY <1>1, <2>1 DEF Lugares, LugarExit, LugarExec
<1>4. h \in Range(ready[h.pid]) => transicion[h] = "Ready"
  BY <1>1, DondeEsta
<1>5. Espera(h) => transicion[h] = "Blocked"
  BY <1>1, DondeEsta DEF Espera
<1>6. h \in EsperaAdmision => transicion[h] = "New"
  BY DondeEsta
<1>7. Lugar(h) = IF h \in exit[h.pid] THEN "Exit"
                 ELSE IF exec[h.pid] = h THEN "Execute"
                 ELSE IF h \in Range(ready[h.pid]) THEN "Ready"
                 ELSE IF Espera(h) THEN "Blocked"
                 ELSE IF h \in EsperaAdmision THEN "New"
                 ELSE "Inexistente"
  BY <1>1 DEF Lugar, Espera
<1>8. /\ transicion[h] = "Exit" => h \in exit[h.pid]
      /\ transicion[h] = "Execute" => exec[h.pid] = h
      /\ transicion[h] = "Ready" => h \in Range(ready[h.pid])
      /\ transicion[h] = "Blocked" => Espera(h)
      /\ transicion[h] = "New" => h \in EsperaAdmision
  BY <1>2 DEF Hallado, Espera
<1>9. CASE h \in exit[h.pid]
  BY <1>3, <1>7, <1>9
<1>10. CASE h \notin exit[h.pid] /\ exec[h.pid] = h
  BY <1>3, <1>7, <1>8, <1>10
<1>11. CASE h \notin exit[h.pid] /\ exec[h.pid] # h
  <2>1. CASE h \in Range(ready[h.pid])
    BY <1>4, <1>7, <1>11, <2>1
  <2>2. CASE h \notin Range(ready[h.pid]) /\ Espera(h)
    BY <1>5, <1>7, <1>11, <2>2
  <2>3. CASE h \notin Range(ready[h.pid]) /\ ~Espera(h)
    <3>1. CASE h \in EsperaAdmision
      BY <1>6, <1>7, <1>11, <2>3, <3>1
    <3>2. CASE h \notin EsperaAdmision
      <4>1. transicion[h] = "Inexistente"
        BY <1>1, <1>8, <1>11, <2>3, <3>2 DEF Estados
      <4> QED
        BY <1>7, <1>11, <2>3, <3>2, <4>1
    <3> QED
      BY <3>1, <3>2
  <2> QED
    BY <2>1, <2>2, <2>3
<1> QED
  BY <1>9, <1>10, <1>11

(* How the moves look from CincoEstados.  A hilo of a closed program is    *)
(* outside, whatever is done with it.                                      *)
LEMMA PasaDe ==
    ASSUME TypeOK, LugarEsEstado, LugarEsEstado', UNCHANGED socket,
           NEW h \in Hilo, NEW de, NEW a, Cambia(h, de, a),
           socket[h.pid] = "conectado"
    PROVE  E!Pasa(h, de, a)
<1>1. h.pid \in Pids /\ transicion[h] = de /\ transicion'[h] = a
      /\ \A g \in Hilo \ {h} : transicion'[g] = transicion[g]
  BY CambiaSolo DEF Hilo
<1>2. Lugar(h) = de /\ Lugar(h)' = a
  BY <1>1 DEF LugarEsEstado, EstadoDe, Vivo
<1>3. ASSUME NEW g \in Hilo \ {h} PROVE Lugar(g)' = Lugar(g)
  BY <1>1, <1>3 DEF LugarEsEstado, EstadoDe, Vivo
<1>4. [g \in Hilo |-> Lugar(g)'] =
          [[g \in Hilo |-> Lugar(g)] EXCEPT ![h] = a]
  BY <1>2, <1>3
<1> QED
  BY <1>1, <1>2, <1>4 DEF E!Pasa

LEMMA Ajeno ==
    ASSUME LugarEsEstado, LugarEsEstado', UNCHANGED socket,
           \A h \in Hilo : Vivo(h.pid) => transicion'[h] = transicion[h]
    PROVE  UNCHANGED E!varsEstados
<1>1. ASSUME NEW h \in Hilo PROVE Lugar(h)' = Lugar(h)
  BY <1>1 DEF LugarEsEstado, EstadoDe, Vivo
<1> QED
  BY <1>1 DEF E!varsEstados

LEMMA DeVivo ==
    ASSUME LugarEsEstado, NEW p, Vivo(p), NEW e,
           \A h \in Hilo : h.pid = p => transicion[h] # e
    PROVE  E!De(p, e) = {}
BY DEF E!De, E!Hilo, Hilo, LugarEsEstado, EstadoDe

LEMMA AbreOCierra ==
    ASSUME TypeOK, LugarEsEstado, LugarEsEstado', NEW p \in Pids,
           CrearPrograma(p) \/ Desconectar(p)
    PROVE  E!Siguiente
<1>1. UNCHANGED transicion
  BY DEF CrearPrograma, Desconectar
<1>2. CASE CrearPrograma(p)
  <2>1. socket[p] = "libre" /\ socket' = [socket EXCEPT ![p] = "conectado"]
    BY <1>2 DEF CrearPrograma
  <2>2. \A q \in Pids : Vivo(q)' <=> Vivo(q)
    BY <2>1 DEF Vivo, TypeOK
  <2>3. ASSUME NEW h \in Hilo PROVE Lugar(h)' = Lugar(h)
    BY <1>1, <2>2, <2>3 DEF LugarEsEstado, EstadoDe, Hilo
  <2>4. \A h \in Hilo : h.pid = p => transicion[h] # "Fuera"
    BY DEF TypeOK, Estados
  <2>5. E!De(p, "Fuera") = {}
    BY <2>1, <2>4, DeVivo DEF Vivo
  <2>6. [q \in Pids |-> (socket[q] = "conectado")'] =
            [[q \in Pids |-> socket[q] = "conectado"] EXCEPT ![p] = TRUE]
    BY <2>1 DEF TypeOK
  <2>7. E!Conecta(p)
    BY <2>1, <2>3, <2>5, <2>6 DEF E!Conecta
  <2> QED
    BY <2>7 DEF E!Siguiente
<1>3. CASE Desconectar(p)
  <2>1. socket[p] = "conectado" /\ socket' = [socket EXCEPT ![p] = "cerrado"]
    BY <1>3 DEF Desconectar, EnServicio
  <2>2. ASSUME NEW h \in Hilo
        PROVE  Lugar(h)' = IF h.pid = p THEN "Fuera" ELSE Lugar(h)
    <3>1. h.pid \in Pids
      BY DEF Hilo
    <3>2. CASE h.pid = p
      BY <2>1, <3>1, <3>2 DEF LugarEsEstado, EstadoDe, Vivo, TypeOK
    <3>3. CASE h.pid # p
      BY <1>1, <2>1, <3>1, <3>3 DEF LugarEsEstado, EstadoDe, Vivo, TypeOK
    <3> QED
      BY <3>2, <3>3
  <2>3. [q \in Pids |-> (socket[q] = "conectado")'] =
            [[q \in Pids |-> socket[q] = "conectado"] EXCEPT ![p] = FALSE]
    BY <2>1 DEF TypeOK
  <2>4. E!Desconecta(p)
    BY <2>1, <2>2, <2>3 DEF E!Desconecta, E!Hilo, Hilo
  <2> QED
    BY <2>4 DEF E!Siguiente
<1> QED
  BY <1>2, <1>3

(* A hilo that arrives from New is admitted; one that a signal wakes goes  *)
(* to ready, as its program has a list already.                            *)
LEMMA LlegaPasa ==
    ASSUME TypeOK, Vida, LugarEsEstado, LugarEsEstado', UNCHANGED socket,
           NEW h \in Hilo, NEW de \in {"New", "Blocked"}, Llega(h, de),
           socket[h.pid] = "conectado"
    PROVE  E!Siguiente
<1>1. /\ transicion[h] = de /\ Vivo(h.pid)
      /\ h.pid \notin listas => Cambia(h, de, "Execute")
      /\ h.pid \in listas => Cambia(h, de, "Ready")
  BY DEF Llega, Cambia, Vivo
<1>2. \A g \in Hilo : g.pid = h.pid /\ h.pid \notin listas
                      => transicion[g] \in {"Inexistente", "New"}
  BY <1>1 DEF Vida, ListaDeVivos
<1>3. h \in E!Hilo
  BY DEF E!Hilo, Hilo
<1>4. CASE h.pid \in listas
  <2>1. E!Pasa(h, de, "Ready")
    BY <1>1, <1>4, PasaDe
  <2> QED
    BY <1>3, <2>1 DEF E!Siguiente, E!Admite, E!Desbloquea
<1>5. CASE h.pid \notin listas
  <2>1. de = "New"
    BY <1>1, <1>2, <1>5
  <2>2. E!Pasa(h, "New", "Execute")
    BY <1>1, <1>5, <2>1, PasaDe
  <2>3. ASSUME NEW e \in {"Ready", "Execute", "Blocked", "Exit"}
        PROVE  E!De(h.pid, e) = {}
    BY <1>1, <1>2, <1>5, <2>3, DeVivo
  <2> QED
    BY <1>3, <2>2, <2>3 DEF E!Siguiente, E!Admite
<1> QED
  BY <1>4, <1>5

LEMMA AgendaPasa ==
    ASSUME TypeOK, Lugares, Vida, Hallados, LugarEsEstado, LugarEsEstado',
           [Next]_vars, UNCHANGED socket, NEW p \in Pids,
           Desaloja(p) \/ Despacha(p), socket[p] = "conectado"
    PROVE  E!Siguiente
<1>1. ready[p] # <<>>
  BY DEF Desaloja, Despacha
<1>2. PICK h \in Hilo : h = Head(ready[p]) /\ h \in Range(ready[p])
  BY <1>1, RangoTail DEF TypeOK
<1>3. h.pid = p /\ transicion[h] = "Ready"
  BY <1>2, EnListaReady, Zenon DEF Lugares
<1>4. h \in E!Hilo /\ Vivo(p) /\ Vivo(p)'
  BY <1>2 DEF E!Hilo, Hilo, Vivo
<1>5. CASE Despacha(p)
  <2>1. Cambia(h, "Ready", "Execute") /\ exec'[p] = h
    BY <1>2, <1>5 DEF Despacha, TypeOK
  <2>2. E!Pasa(h, "Ready", "Execute")
    BY <1>2, <1>3, <2>1, PasaDe
  <2>3. ASSUME NEW g \in Hilo, g.pid = p, transicion[g] = "Execute"
        PROVE  FALSE
    <3>1. exec[p] = g /\ g # Nadie /\ g # h
      BY <1>3, <1>4, <2>3, SUSEAssumption DEF Hallados, Hallado
    <3>2. transicion'[g] # "Execute"
      BY <1>4, <2>1, <3>1, ExecNoSePisa
    <3> QED
      BY <1>2, <2>1, <2>3, <3>1, <3>2, CambiaSolo
  <2>4. E!De(h.pid, "Execute") = {}
    BY <1>3, <1>4, <2>3, DeVivo
  <2>5. E!Ejecuta(h)
    BY <2>2, <2>4 DEF E!Ejecuta
  <2> QED
    BY <1>4, <2>5 DEF E!Siguiente
<1>6. CASE Desaloja(p)
  <2>1. PICK g \in Hilo :
            /\ g.pid = p /\ transicion[g] = "Execute"
            /\ transicion' = [transicion EXCEPT ![g] = "Ready", ![h] = "Execute"]
    BY <1>2, <1>6 DEF Desaloja
  <2>2. /\ transicion'[g] = "Ready" /\ transicion'[h] = "Execute"
        /\ \A f \in Hilo \ {g, h} : transicion'[f] = transicion[f]
    BY <1>2, <1>3, <2>1 DEF TypeOK
  <2>3. /\ Lugar(g) = "Execute" /\ Lugar(h) = "Ready"
        /\ Lugar(g)' = "Ready" /\ Lugar(h)' = "Execute"
    BY <1>2, <1>3, <1>4, <2>1, <2>2 DEF LugarEsEstado, EstadoDe
  <2>4. ASSUME NEW f \in Hilo \ {g, h} PROVE Lugar(f)' = Lugar(f)
    BY <2>2, <2>4 DEF LugarEsEstado, EstadoDe, Vivo
  <2>5. [f \in Hilo |-> Lugar(f)'] =
            [[f \in Hilo |-> Lugar(f)] EXCEPT ![g] = "Ready", ![h] = "Execute"]
    BY <1>2, <2>1, <2>3, <2>4
  <2>6. E!Desaloja(g, h)
    BY <1>2, <1>3, <2>1, <2>3, <2>5 DEF E!Desaloja
  <2>7. g \in E!Hilo
    BY <2>1 DEF E!Hilo, Hilo
  <2> QED
    BY <1>4, <2>6, <2>7 DEF E!Siguiente
<1> QED
  BY <1>5, <1>6

LEMMA PasoEstados ==
    ASSUME TypeOK, ColasNew, Lugares, Vida, Hallados, HilosDeAlguien,
           LugarEsEstado, LugarEsEstado', [Next]_vars
    PROVE  E!Siguiente \/ UNCHANGED E!varsEstados
<1>1. ASSUME NEW p \in Pids, CrearPrograma(p) \/ Desconectar(p)
      PROVE  E!Siguiente
  BY <1>1, AbreOCierra
<1>2. CASE UNCHANGED socket /\ \A h \in Hilo : Vivo(h.pid) =>
               transicion'[h] = transicion[h]
  BY <1>2, Ajeno
<1>3. ASSUME UNCHANGED socket, NEW h \in Hilo, Vivo(h.pid),
             transicion'[h] # transicion[h]
      PROVE  E!Siguiente
  <2>1. Mueve
    BY Movimiento
  <2>2. h \in E!Hilo /\ h.pid \in Pids /\ socket[h.pid] \in {"libre", "conectado"}
    BY <1>3 DEF E!Hilo, Hilo, Vivo, TypeOK
  <2>3. transicion[h] # "Inexistente" => socket[h.pid] = "conectado"
    BY <2>2 DEF HilosDeAlguien
  <2>4. CASE Nace(h)
    <3>1. E!Crea(h)
      BY <2>4, PasaDe, <1>3 DEF Nace, E!Crea
    <3> QED
      BY <2>2, <3>1 DEF E!Siguiente
  <2>5. CASE Entra /\ h = enMano
    <3>1. Llega(h, "New") /\ transicion[h] = "New"
      BY <2>5 DEF Entra, Llega, Cambia
    <3> QED
      BY <1>3, <2>3, <3>1, LlegaPasa
  <2>6. ASSUME NEW s \in Sems, Despierta(s), h = Head(cola[s])
        PROVE  E!Siguiente
    <3>1. Llega(h, "Blocked") /\ transicion[h] = "Blocked"
      BY ZenonT(60), <2>6 DEF Despierta, Llega, Cambia
    <3> QED
      BY SMTT(60), <1>3, <2>3, <3>1, LlegaPasa
  <2>7. ASSUME NEW p \in Pids, Bloquea(p), h = exec[p] PROVE E!Siguiente
    <3>1. Cambia(h, "Execute", "Blocked") /\ transicion[h] = "Execute"
      BY <2>7 DEF Bloquea, Cambia
    <3>2. E!Bloquea(h)
      BY <1>3, <2>3, <3>1, PasaDe DEF E!Bloquea
    <3> QED
      BY <2>2, <3>2 DEF E!Siguiente
  <2>8. ASSUME NEW p \in Pids, Cierra(p), h = exec[p] PROVE E!Siguiente
    <3>1. Cambia(h, "Execute", "Exit") /\ transicion[h] = "Execute"
      BY <2>8 DEF Cierra, Cambia
    <3>2. E!Termina(h)
      BY <1>3, <2>3, <3>1, PasaDe DEF E!Termina
    <3> QED
      BY <2>2, <3>2 DEF E!Siguiente
  <2>9. ASSUME NEW p \in Pids, Desaloja(p) \/ Despacha(p),
               h \in {exec[p], Head(ready[p])}, Desaloja(p) \/ h = Head(ready[p])
        PROVE  E!Siguiente
    <3>1. h.pid = p /\ transicion[h] # "Inexistente"
      <4>1. ready[p] # <<>>
        BY <2>9 DEF Desaloja, Despacha
      <4>2. Head(ready[p]) \in Range(ready[p])
        BY <4>1, RangoTail DEF TypeOK
      <4>3. Head(ready[p]).pid = p /\ transicion[Head(ready[p])] = "Ready"
        BY <4>2, EnListaReady DEF Lugares
      <4> QED
        BY <2>9, <4>3 DEF Desaloja
    <3> QED
      BY <1>3, <2>3, <2>9, <3>1, AgendaPasa
  <2>10. ASSUME NEW p \in Pids, NEW t \in Tids, Libera(p, t),
                h = Head(bloqueados[p][t])
         PROVE  E!Siguiente
    <3>1. Cambia(h, "Blocked", "Ready") /\ transicion[h] = "Blocked"
      BY <2>10 DEF Libera, Cambia
    <3>2. E!Desbloquea(h)
      BY <1>3, <2>3, <3>1, PasaDe DEF E!Desbloquea
    <3> QED
      BY <2>2, <3>2 DEF E!Siguiente
  <2> QED
    BY <1>3, <2>1, <2>4, <2>5, <2>6, <2>7, <2>8, <2>9, <2>10, QuienCambia
<1> QED
  BY <1>1, <1>2, <1>3, SocketCambia

LEMMA EstadosInicial ==
    ASSUME Init PROVE E!Inicial
<1>1. ASSUME NEW h \in Hilo PROVE Lugar(h) = "Inexistente"
  <2>1. h.pid \in Pids /\ h # Nadie
    BY SUSEAssumption DEF Hilo
  <2>2. h \notin EsperaAdmision
    BY RangoVacio DEF Init, EsperaAdmision
  <2>3. /\ socket[h.pid] = "libre" /\ h \notin exit[h.pid]
        /\ exec[h.pid] # h /\ ready[h.pid] = <<>>
        /\ \A t \in Tids : bloqueados[h.pid][t] = <<>>
        /\ \A s \in Sems : cola[s] = <<>>
    BY <2>1 DEF Init
  <2> QED
    BY <2>2, <2>3, RangoVacio DEF Lugar
<1>2. [p \in Pids |-> socket[p] = "conectado"] = [p \in Pids |-> FALSE]
  BY DEF Init
<1> QED
  BY <1>1, <1>2 DEF E!Inicial, E!Hilo, Hilo

LEMMA HilosDeAlguienSiempre == Spec => []HilosDeAlguien
<1>1. Init => HilosDeAlguien
  BY DEF Init, HilosDeAlguien
<1>2. TypeOK /\ ColasNew /\ Lugares /\ HilosDeAlguien /\ [Next]_vars
      => HilosDeAlguien'
  BY HilosDeAlguienPaso
<1> QED
  BY <1>1, <1>2, TipoCorrecto, ColasNewSiempre, LugaresSiempre, PTL DEF Spec

(* What Transiciones.log promises holds of the structures of SUSE.c: where *)
(* they hold each hilo changes only as CincoEstados lets its state change, *)
(* and a program has one hilo in exec at most, until it disconnects.       *)
THEOREM CumpleEstados == Spec => ImplementaEstados
<1>1. TypeOK /\ Lugares /\ Hallados => LugarEsEstado
  BY LugarDe
<1>2. Init => E!Inicial
  BY EstadosInicial
<1>3. TypeOK /\ ColasNew /\ Lugares /\ Vida /\ Hallados /\ HilosDeAlguien
      /\ LugarEsEstado /\ LugarEsEstado' /\ [Next]_vars
      => [E!Siguiente]_(E!varsEstados)
  BY PasoEstados
<1> QED
  BY <1>1, <1>2, <1>3, TipoCorrecto, ColasNewSiempre, LugaresSiempre,
     VidaSiempre, HalladosSiempre, HilosDeAlguienSiempre,
     PTL DEF Spec, ImplementaEstados, E!Especificacion

-----------------------------------------------------------------------------
(* The counter in ready.                                                   *)

CuentaReady == \A p \in Pids : Vivo(p) => enReady[p] = Len(ready[p])

LEMMA LargoAppend ==
    ASSUME NEW l \in Seq(Hilo), NEW h \in Hilo
    PROVE  Len(Append(l, h)) = Len(l) + 1 /\ Append(l, h) # <<>>
<1>1. Len(Append(l, h)) = Len(l) + 1 /\ Len(l) \in Nat
  BY AppendProperties, LenProperties
<1>2. Len(<<>>) = 0
  BY LenVacia
<1> QED
  BY <1>1, <1>2

LEMMA LargoTail ==
    ASSUME NEW l \in Seq(Hilo), l # <<>>
    PROVE  Len(Tail(l)) = Len(l) - 1 /\ Len(l) \in Nat
BY HeadTailProperties, LenProperties

(* The ways in which the list of ready and its counter change together.    *)
ReadyCambia(p) ==
    \/ UNCHANGED <<ready[p], enReady[p]>>
    \/ \E h \in Hilo : /\ ready'[p] = Append(ready[p], h)
                       /\ enReady'[p] = enReady[p] + 1
    \/ /\ ready[p] # <<>> /\ ready'[p] = Tail(ready[p])
       /\ enReady'[p] = enReady[p] - 1
       /\ agenda'[p] = "no"
    \/ \E h \in Hilo : /\ ready[p] # <<>>
                       /\ ready'[p] = Append(Tail(ready[p]), h)
                       /\ enReady'[p] = enReady[p]
    \/ /\ ready'[p] \in Ordenamientos(ready[p]) /\ enReady'[p] = enReady[p]
    \/ LimpiarReady /\ conexion.pid = p

LEMMA PasarReady ==
    ASSUME TypeOK, NEW h \in Hilo, PasarAReady(h), NEW p \in Pids
    PROVE  ReadyCambia(p)
<1>1. h.pid \in Pids
  BY DEF Hilo
<1>2. CASE UNCHANGED <<ready, enReady>>
  BY <1>2 DEF ReadyCambia
<1>3. CASE /\ ready' = [ready EXCEPT ![h.pid] = Append(@, h)]
           /\ enReady' = [enReady EXCEPT ![h.pid] = @ + 1]
  <2>1. CASE h.pid = p
    BY <1>3, <2>1 DEF ReadyCambia, TypeOK
  <2>2. CASE h.pid # p
    BY <1>3, <2>2 DEF ReadyCambia, TypeOK
  <2> QED
    BY <2>1, <2>2
<1> QED
  BY <1>2, <1>3 DEF PasarAReady

LEMMA LiberarReady ==
    ASSUME TypeOK, Lugares, Liberar, NEW p \in Pids
    PROVE  ReadyCambia(p)
<1>1. conexion.pid \in Pids /\ conexion.hilo \in Hilo
  BY DEF Liberar, TypeOK, ConexionEnCurso
<1>2. CASE UNCHANGED <<ready, enReady>>
  BY <1>2 DEF ReadyCambia
<1>3. CASE /\ Esperan # <<>>
           /\ ready' = [ready EXCEPT ![Head(Esperan).pid] =
                            Append(@, Head(Esperan))]
           /\ enReady' = [enReady EXCEPT ![Head(Esperan).pid] = @ + 1]
  <2>1. conexion.hilo.tid \in Tids
    BY <1>1 DEF Hilo
  <2>2. PICK h \in Hilo : h = Head(Esperan)
    BY <1>1, <1>3, <2>1, Cabezas, Zenon DEF Esperan
  <2>3. /\ ready' = [ready EXCEPT ![h.pid] = Append(@, h)]
        /\ enReady' = [enReady EXCEPT ![h.pid] = @ + 1]
    BY <1>3, <2>2, Zenon
  <2>4. CASE h.pid = p
    BY <2>3, <2>4 DEF ReadyCambia, TypeOK
  <2>5. CASE h.pid # p
    BY <2>3, <2>5 DEF ReadyCambia, TypeOK
  <2> QED
    BY <2>4, <2>5
<1> QED
  BY <1>2, <1>3 DEF Liberar

LEMMA AgendaReady ==
    ASSUME TypeOK, NEW q \in Pids, PasoAgenda(q), NEW p \in Pids
    PROVE  ReadyCambia(p)
<1>1. ASSUME NEW m, Cae(m) PROVE UNCHANGED <<ready, enReady>>
  BY <1>1 DEF Cae, varsReady, varsPrograma
<1>2. CASE UNCHANGED <<ready, enReady>>
  BY <1>2 DEF ReadyCambia
<1>3. CASE Recalcular(q) \/ Continuar(q) \/ QuedarSinHilos(q)
  BY <1>2, <1>3 DEF Recalcular, Continuar, QuedarSinHilos, varsReady,
     varsPrograma
<1>4. CASE CalcularCae(q) \/ Marcar(q) \/ TomarMutex(q)
  BY <1>1, <1>2, <1>4 DEF CalcularCae, Marcar, TomarMutex, varsReady
<1>5. CASE Replanificar(q)
  <2>1. ASSUME NEW s \in Ordenamientos(ready[q]),
               ready' = [ready EXCEPT ![q] = s], UNCHANGED enReady
        PROVE  ReadyCambia(p)
    <3>1. CASE q = p
      BY <2>1, <3>1 DEF ReadyCambia, TypeOK
    <3>2. CASE q # p
      BY <2>1, <3>2 DEF ReadyCambia, TypeOK
    <3> QED
      BY <3>1, <3>2
  <2> QED
    BY <1>1, <1>2, <1>5, <2>1 DEF Replanificar, varsPrograma
<1>6. CASE Desalojar(q)
  <2>1. exec[q] \in Hilo
    BY <1>6 DEF Desalojar, TypeOK, HiloONadie
  <2>2. /\ ready[q] # <<>> /\ UNCHANGED enReady
        /\ ready' = [ready EXCEPT ![q] = Append(Tail(@), exec[q])]
    BY <1>6 DEF Desalojar, EsMasCorto
  <2>3. CASE q = p
    BY <2>1, <2>2, <2>3 DEF ReadyCambia, TypeOK
  <2>4. CASE q # p
    BY <2>2, <2>4 DEF ReadyCambia, TypeOK
  <2> QED
    BY <2>3, <2>4
<1>7. ASSUME Despachar(q) PROVE ReadyCambia(p)
  <2>1. CASE q = p
    BY <1>7, <2>1 DEF Despachar, DescontarReady, ReadyCambia, TypeOK
  <2>2. CASE q # p
    BY <1>7, <2>2 DEF Despachar, DescontarReady, ReadyCambia, TypeOK
  <2> QED
    BY <2>1, <2>2
<1> QED
  BY <1>1, <1>2, <1>3, <1>4, <1>5, <1>6, <1>7 DEF PasoAgenda,
     DespacharSiguiente, Retomar

LEMMA SolicitudReady ==
    ASSUME TypeOK, NEW q \in Pids, Solicitud(q), NEW p \in Pids
    PROVE  ReadyCambia(p)
<1>1. ASSUME NEW m, Cae(m) PROVE UNCHANGED <<ready, enReady>>
  BY <1>1 DEF Cae, varsReady, varsPrograma
<1>2. CASE UNCHANGED <<ready, enReady>>
  BY <1>2 DEF ReadyCambia
<1>3. CASE CrearPrograma(q) \/ ScheduleNext(q) \/ Desconectar(q)
  BY <1>2, <1>3 DEF CrearPrograma, ScheduleNext, Desconectar, varsReady,
     varsPrograma
<1>4. ASSUME NEW t \in Tids,
             CrearHilo(q, t) \/ RealizarJoin(q, t) \/ RealizarClose(q, t)
      PROVE  UNCHANGED <<ready, enReady>>
  BY <1>1, <1>4 DEF CrearHilo, RealizarJoin, RealizarClose, varsReady,
     varsPrograma
<1>5. ASSUME NEW t \in Tids, NEW s \in Sems, SuseWait(q, t, s)
      PROVE  UNCHANGED <<ready, enReady>>
  BY <1>1, <1>5 DEF SuseWait, varsReady, varsPrograma
<1>6. ASSUME NEW s \in Sems, SuseSignal(q, s) PROVE ReadyCambia(p)
  <2>1. cola[s] # <<>> => Head(cola[s]) \in Hilo
    BY Cabezas
  <2>2. CASE cola[s] # <<>> /\ PasarAReady(Head(cola[s]))
    BY <2>1, <2>2, PasarReady
  <2>3. CASE UNCHANGED <<varsReady, varsPrograma>>
    BY <1>2, <2>3 DEF varsReady, varsPrograma
  <2> QED
    BY <1>1, <1>2, <1>6, <2>2, <2>3 DEF SuseSignal
<1> QED
  BY <1>2, <1>3, <1>4, <1>5, <1>6 DEF Solicitud

LEMMA PasoReady ==
    ASSUME TypeOK, Lugares, [Next]_vars, NEW p \in Pids
    PROVE  ReadyCambia(p)
<1>1. ASSUME NEW m, Cae(m) PROVE UNCHANGED <<ready, enReady>>
  BY <1>1 DEF Cae, varsReady, varsPrograma
<1>2. CASE UNCHANGED <<ready, enReady>>
  BY <1>2 DEF ReadyCambia
<1>3. CASE PasoConexion
  <2>1. CASE ContarNew \/ Despertar \/ Desmarcar \/ Descontar
    BY <1>2, <2>1 DEF ContarNew, Despertar, Desmarcar, Descontar, varsReady
  <2>2. CASE MetricasClose \/ DevolverClose \/ SoltarExec
    BY <1>1, <1>2, <2>2 DEF MetricasClose, DevolverClose, SoltarExec,
       varsReady, varsPrograma
  <2>3. CASE Liberar
    BY <2>3, LiberarReady
  <2>4. CASE LimpiarReady
    <3>1. CASE conexion.pid = p
      BY <2>4, <3>1 DEF ReadyCambia
    <3>2. CASE conexion.pid # p
      BY <2>4, <3>2 DEF LimpiarReady, ReadyCambia, TypeOK, varsPrograma
    <3> QED
      BY <3>1, <3>2
  <2>5. CASE LimpiarPrograma
    BY <1>2, <2>5 DEF LimpiarPrograma, varsReady
  <2> QED
    BY <1>3, <2>1, <2>2, <2>3, <2>4, <2>5 DEF PasoConexion
<1>4. CASE TomarNuevo \/ Admitir \/ MetricasTimer \/ DevolverTimer
  BY <1>1, <1>2, <1>4 DEF TomarNuevo, Admitir, MetricasTimer, DevolverTimer,
     varsReady, varsPrograma
<1>5. CASE PasarNuevo
  <2>1. enMano \in Hilo
    BY <1>5 DEF PasarNuevo, TypeOK
  <2> QED
    BY <1>1, <1>2, <1>5, <2>1, PasarReady DEF PasarNuevo
<1>6. ASSUME NEW q \in Pids, Recibir(q) PROVE UNCHANGED <<ready, enReady>>
  BY <1>6 DEF Recibir, varsReady, varsPrograma
<1>7. CASE UNCHANGED vars
  BY <1>2, <1>7 DEF vars, varsReady, varsPrograma
<1> QED
  BY <1>2, <1>3, <1>4, <1>5, <1>6, <1>7, AgendaReady, SolicitudReady
     DEF Next, PasoServidor, PasoPlanificador

LEMMA CuentaReadyPaso ==
    ASSUME TypeOK, Lugares, Vida, CuentaReady, [Next]_vars
    PROVE  CuentaReady'
<1> SUFFICES ASSUME NEW p \in Pids, Vivo(p)'
             PROVE  enReady'[p] = Len(ready'[p])
  BY DEF CuentaReady
<1>1. Vivo(p) /\ enReady[p] = Len(ready[p])
  BY VivoSigue DEF CuentaReady
<1>2. ready[p] \in Seq(Hilo) /\ Len(ready[p]) \in Nat
  BY LenProperties DEF TypeOK
<1>3. ASSUME NEW h \in Hilo, ready'[p] = Append(ready[p], h),
             enReady'[p] = enReady[p] + 1
      PROVE  enReady'[p] = Len(ready'[p])
  BY <1>1, <1>2, <1>3, LargoAppend
<1>4. CASE /\ ready[p] # <<>> /\ ready'[p] = Tail(ready[p])
           /\ enReady'[p] = enReady[p] - 1
  BY <1>1, <1>2, <1>4, LargoTail
<1>5. ASSUME NEW h \in Hilo, ready[p] # <<>>,
             ready'[p] = Append(Tail(ready[p]), h), enReady'[p] = enReady[p]
      PROVE  enReady'[p] = Len(ready'[p])
  <2>1. Tail(ready[p]) \in Seq(Hilo)
    BY <1>2, <1>5, RangoTail
  <2>2. /\ Len(ready'[p]) = Len(Tail(ready[p])) + 1
        /\ Len(Tail(ready[p])) = Len(ready[p]) - 1
    BY <1>2, <1>5, <2>1, LargoAppend, LargoTail
  <2> QED
    BY <1>1, <1>2, <1>5, <2>2
<1>6. CASE ready'[p] \in Ordenamientos(ready[p]) /\ enReady'[p] = enReady[p]
  BY <1>1, <1>2, <1>6, OrdenConserva
<1>7. CASE LimpiarReady /\ conexion.pid = p
  BY <1>1, <1>7 DEF LimpiarReady, Vida, LimpiezaAlFinal
<1> QED
  BY <1>1, <1>3, <1>4, <1>5, <1>6, <1>7, PasoReady DEF ReadyCambia

-----------------------------------------------------------------------------
(* The counter in new.                                                     *)

NuevosDe(p) == {h \in DePrograma(p) : transicion[h] = "New"}

(* A hilo that crearHilo has not counted in yet, and one that              *)
(* planificarReady has counted out already.                                *)
SinContar(p) == IF conexion.paso = "contarNew" /\ conexion.pid = p THEN 1 ELSE 0
Descontado(p) == IF planificador = "admitido" /\ enMano.pid = p THEN 1 ELSE 0

CuentaNew ==
    \A p \in Pids :
        /\ IsFiniteSet(NuevosDe(p))
        /\ Vivo(p) => enNew[p] + SinContar(p)
                          = Cardinality(NuevosDe(p)) - Descontado(p)

LEMMA NuevosIguales ==
    ASSUME TypeOK, Mueve, NEW p \in Pids, ~Entra,
           \A h \in Hilo : ~Nace(h)
    PROVE  NuevosDe(p)' = NuevosDe(p)
<1>1. ASSUME NEW h \in Hilo, transicion'[h] # transicion[h]
      PROVE  transicion[h] # "New" /\ transicion'[h] # "New"
  <2>1. transicion[h] # "New"
    BY <1>1, MueveConserva DEF Conserva
  <2>2. ASSUME transicion'[h] = "New" PROVE FALSE
    <3>1. ASSUME NEW de, NEW a, Cambia(h, de, a) PROVE a = "New"
      BY <2>2, <3>1, CambiaSolo
    <3>2. ASSUME NEW s \in Sems, Despierta(s) PROVE h # Head(cola[s])
      BY <3>1, <3>2 DEF Despierta, Llega
    <3>3. ASSUME NEW q \in Pids
          PROVE  /\ Bloquea(q) \/ Cierra(q) => h # exec[q]
                 /\ Despacha(q) => h # Head(ready[q])
                 /\ \A t \in Tids : Libera(q, t) => h # Head(bloqueados[q][t])
      BY <3>1 DEF Bloquea, Cierra, Despacha, Libera
    <3>4. ASSUME NEW q \in Pids, Desaloja(q)
          PROVE  h \notin {exec[q], Head(ready[q])}
      BY <2>2, <3>4 DEF Desaloja, TypeOK
    <3> QED
      BY <1>1, <3>2, <3>3, <3>4, QuienCambia
  <2> QED
    BY <2>1, <2>2
<1> QED
  BY <1>1 DEF NuevosDe, DePrograma

LEMMA NuevosNace ==
    ASSUME TypeOK, NEW h \in Hilo, Nace(h), NEW p \in Pids
    PROVE  /\ h \notin NuevosDe(p)
           /\ NuevosDe(p)' = IF h.pid = p THEN NuevosDe(p) \cup {h} ELSE NuevosDe(p)
<1>1. /\ transicion[h] = "Inexistente" /\ transicion'[h] = "New"
      /\ \A g \in Hilo \ {h} : transicion'[g] = transicion[g]
  BY CambiaSolo DEF Nace
<1> QED
  BY <1>1 DEF NuevosDe, DePrograma

LEMMA NuevosEntra ==
    ASSUME TypeOK, Entra, NEW p \in Pids
    PROVE  /\ enMano \in Hilo
           /\ enMano.pid = p => enMano \in NuevosDe(p)
           /\ NuevosDe(p)' = IF enMano.pid = p THEN NuevosDe(p) \ {enMano}
                             ELSE NuevosDe(p)
<1>1. PICK h \in Hilo : h = enMano /\ Llega(h, "New")
  BY DEF Entra, Llega
<1>2. /\ transicion[h] = "New" /\ transicion'[h] # "New"
      /\ \A g \in Hilo \ {h} : transicion'[g] = transicion[g]
  BY <1>1, CambiaSolo DEF Llega
<1>3. NuevosDe(p)' = IF h.pid = p THEN NuevosDe(p) \ {h} ELSE NuevosDe(p)
  BY <1>2 DEF NuevosDe, DePrograma
<1> QED
  BY <1>1, <1>2, <1>3 DEF NuevosDe, DePrograma

(* Who touches the counter or stands between a change of new and it.       *)
NewCambia ==
    \/ /\ UNCHANGED enNew
       /\ \A p \in Pids : UNCHANGED <<SinContar(p), Descontado(p)>>
    \/ \E h \in Hilo : Nace(h) /\ UNCHANGED <<enNew, varsPlanif>>
    \/ ContarNew
    \/ Admitir /\ enNew' = [enNew EXCEPT ![enMano.pid] = @ - 1]
       /\ planificador' = "admitido" /\ UNCHANGED <<enMano, conexion, transicion>>
       /\ enMano \in Hilo
    \/ Entra /\ UNCHANGED <<enNew, conexion>>

LEMMA NewTranquilo ==
    ASSUME UNCHANGED <<enNew, varsPlanif>>,
           conexion.paso # "contarNew", conexion'.paso # "contarNew"
    PROVE  NewCambia
BY DEF NewCambia, SinContar, Descontado, varsPlanif

LEMMA NewQuieto ==
    ASSUME UNCHANGED <<enNew, varsPlanif, conexion>>
    PROVE  NewCambia
BY DEF NewCambia, SinContar, Descontado, varsPlanif

LEMMA SolicitudNew ==
    ASSUME TypeOK, Lugares, NEW q \in Pids, Solicitud(q)
    PROVE  NewCambia
<1>1. ASSUME NEW m, Cae(m) PROVE NewCambia
  BY <1>1, NewQuieto DEF Cae, varsPrograma
<1>2. CASE CrearPrograma(q) \/ ScheduleNext(q)
  BY <1>2, NewQuieto DEF CrearPrograma, ScheduleNext, varsPrograma
<1>3. CASE Desconectar(q)
  BY <1>3, NewTranquilo DEF Desconectar, EnServicio, EnSelect, varsPrograma
<1>4. ASSUME NEW t \in Tids, CrearHilo(q, t) PROVE NewCambia
  <2>1. UNCHANGED <<enNew, varsPlanif>>
    BY <1>4 DEF CrearHilo, varsPrograma
  <2> QED
    BY <1>4, <2>1, MueveCrear DEF NewCambia
<1>5. ASSUME NEW t \in Tids, RealizarJoin(q, t) \/ RealizarClose(q, t)
      PROVE  NewCambia
  BY <1>1, <1>5, NewTranquilo, NewQuieto DEF RealizarJoin, RealizarClose,
     Solicita, EnServicio, EnSelect, varsPrograma
<1>6. ASSUME NEW t \in Tids, NEW s \in Sems, SuseWait(q, t, s) PROVE NewCambia
  BY <1>1, <1>6, NewQuieto DEF SuseWait, varsPrograma
<1>7. ASSUME NEW s \in Sems, SuseSignal(q, s) PROVE NewCambia
  BY <1>1, <1>7, NewTranquilo, NewQuieto DEF SuseSignal, Solicita, EnServicio,
     EnSelect, varsPrograma
<1> QED
  BY <1>2, <1>3, <1>4, <1>5, <1>6, <1>7 DEF Solicitud

LEMMA PasoNew ==
    ASSUME TypeOK, ColasNew, Lugares, [Next]_vars
    PROVE  NewCambia
<1>1. ASSUME NEW m, Cae(m) PROVE NewCambia
  BY <1>1, NewQuieto DEF Cae, varsPrograma
<1>2. CASE PasoConexion
  <2>1. CASE ContarNew
    BY <2>1 DEF NewCambia
  <2>2. CASE Despertar \/ Desmarcar \/ Descontar
    BY SMTT(60), <2>2, NewTranquilo DEF Despertar, Desmarcar, Descontar, EnSelect, TypeOK,
       Conexiones
  <2>3. CASE MetricasClose \/ DevolverClose \/ SoltarExec
    BY <1>1, <2>3, NewTranquilo DEF MetricasClose, DevolverClose, SoltarExec,
       TypeOK, Conexiones, varsPrograma
  <2>4. CASE Liberar
    BY <2>4, NewTranquilo, NewQuieto DEF Liberar, EnSelect
  <2>5. CASE LimpiarReady \/ LimpiarPrograma
    BY <2>5, NewTranquilo DEF LimpiarReady, LimpiarPrograma, EnSelect, TypeOK,
       Conexiones, varsPrograma
  <2> QED
    BY <1>2, <2>1, <2>2, <2>3, <2>4, <2>5 DEF PasoConexion
<1>3. CASE TomarNuevo
  <2>1. /\ planificador = "espera" /\ planificador' = "tomado"
        /\ UNCHANGED <<enNew, conexion>>
    BY <1>3 DEF TomarNuevo, varsPrograma
  <2> QED
    BY <2>1 DEF NewCambia, SinContar, Descontado
<1>4. CASE Admitir
  <2>1. enMano # Nadie => enMano \in Hilo
    BY DEF TypeOK, HiloONadie
  <2> QED
    BY <1>1, <1>4, <2>1 DEF Admitir, NewCambia
<1>5. CASE PasarNuevo
  <2>1. CASE Cae("programaInexistente")
    BY <1>1, <2>1
  <2>2. CASE /\ planificador = "admitido" /\ PasarAReady(enMano)
             /\ enMano' = Nadie /\ planificador' = "espera"
             /\ UNCHANGED <<enNew, bloqueados, varsFin, varsNew, varsSem, conexion>>
    <3>1. enMano \in Hilo /\ transicion[enMano] = "New"
      BY <2>2, SUSEAssumption DEF TypeOK, Lugares, LugarNew, EsperaAdmision
    <3>2. Llega(enMano, "New")
      BY <2>2, <3>1 DEF PasarAReady, Llega, Cambia
    <3>3. Entra
      BY <2>2, <3>2 DEF Entra, EnCierre, varsFin, varsNew, varsSem
    <3> QED
      BY <2>2, <3>3 DEF NewCambia
  <2> QED
    BY <1>5, <2>1, <2>2 DEF PasarNuevo
<1>6. CASE MetricasTimer \/ DevolverTimer
  BY <1>1, <1>6, NewQuieto DEF MetricasTimer, DevolverTimer, varsPrograma
<1>7. ASSUME NEW q \in Pids, PasoAgenda(q) \/ Recibir(q) PROVE NewCambia
  <2>1. CASE Recalcular(q) \/ Continuar(q) \/ QuedarSinHilos(q) \/ Recibir(q)
    BY <2>1, NewQuieto DEF Recalcular, Continuar, QuedarSinHilos, Recibir,
       varsPrograma
  <2>2. CASE Replanificar(q) \/ CalcularCae(q) \/ Marcar(q) \/ TomarMutex(q)
    BY <1>1, <2>2, NewQuieto DEF Replanificar, CalcularCae, Marcar, TomarMutex,
       varsPrograma
  <2>3. CASE Desalojar(q)
    BY <2>3, NewQuieto DEF Desalojar
  <2>4. CASE DespacharSiguiente(q) \/ Retomar(q)
    BY <1>1, <2>4, NewQuieto DEF DespacharSiguiente, Retomar, Despachar
  <2> QED
    BY <1>7, <2>1, <2>2, <2>3, <2>4 DEF PasoAgenda
<1>8. CASE UNCHANGED vars
  BY <1>8, NewQuieto DEF vars, varsPrograma
<1> QED
  BY <1>2, <1>3, <1>4, <1>5, <1>6, <1>7, <1>8, SolicitudNew
     DEF Next, PasoServidor, PasoPlanificador

LEMMA CuentaNewPaso ==
    ASSUME TypeOK, ColasNew, Lugares, CuentaNew, [Next]_vars
    PROVE  CuentaNew'
<1> SUFFICES ASSUME NEW p \in Pids
             PROVE  /\ IsFiniteSet(NuevosDe(p)')
                    /\ Vivo(p)' => enNew'[p] + SinContar(p)'
                           = Cardinality(NuevosDe(p)') - Descontado(p)'
  BY DEF CuentaNew
<1>1. /\ IsFiniteSet(NuevosDe(p)) /\ Cardinality(NuevosDe(p)) \in Nat
      /\ enNew \in [Pids -> Int] /\ enNew[p] \in Int
  BY FS_CardinalityType DEF CuentaNew, TypeOK
<1>2. Vivo(p)' => enNew[p] + SinContar(p)
                      = Cardinality(NuevosDe(p)) - Descontado(p)
  BY VivoSigue DEF CuentaNew
<1>3. Mueve
  BY Movimiento
<1>4. CASE /\ UNCHANGED enNew
           /\ \A q \in Pids : UNCHANGED <<SinContar(q), Descontado(q)>>
  <2>1. ASSUME NEW h \in Hilo, Nace(h) PROVE FALSE
    <3>1. h.pid \in Pids /\ SinContar(h.pid) = 0 /\ SinContar(h.pid)' = 1
      BY <2>1 DEF Nace, SinContar, EnSelect, Hilo
    <3> QED
      BY <1>4, <3>1
  <2>2. ASSUME Entra PROVE FALSE
    <3>1. /\ enMano.pid \in Pids /\ planificador = "admitido"
          /\ planificador' = "espera"
      BY <2>2 DEF Entra, Llega, Hilo
    <3>2. PICK q \in Pids : q = enMano.pid
      BY <3>1
    <3>3. Descontado(q) = 1 /\ Descontado(q)' = 0
      BY <3>1, <3>2 DEF Descontado
    <3> QED
      BY <1>4, <3>3
  <2>3. NuevosDe(p)' = NuevosDe(p)
    BY <1>3, <2>1, <2>2, NuevosIguales
  <2> QED
    BY <1>1, <1>2, <1>4, <2>3
<1>5. ASSUME NEW h \in Hilo, Nace(h), UNCHANGED <<enNew, varsPlanif>>
      PROVE  /\ IsFiniteSet(NuevosDe(p)')
             /\ Vivo(p)' => enNew'[p] + SinContar(p)'
                    = Cardinality(NuevosDe(p)') - Descontado(p)'
  <2>1. /\ h \notin NuevosDe(p)
        /\ NuevosDe(p)' = IF h.pid = p THEN NuevosDe(p) \cup {h} ELSE NuevosDe(p)
    BY <1>5, NuevosNace
  <2>2. /\ SinContar(p) = 0 /\ SinContar(p)' = IF h.pid = p THEN 1 ELSE 0
        /\ Descontado(p)' = Descontado(p)
    BY <1>5 DEF Nace, SinContar, Descontado, EnSelect, varsPlanif
  <2>3. /\ IsFiniteSet(NuevosDe(p) \cup {h})
        /\ Cardinality(NuevosDe(p) \cup {h}) = Cardinality(NuevosDe(p)) + 1
    BY <1>1, <2>1, FS_AddElement
  <2>4. Descontado(p) \in {0, 1}
    BY DEF Descontado
  <2> QED
    BY <1>1, <1>2, <1>5, <2>1, <2>2, <2>3, <2>4
<1>6. CASE ContarNew
  <2>1. UNCHANGED transicion /\ Descontado(p)' = Descontado(p)
    BY <1>6 DEF ContarNew, Descontado, varsPlanif
  <2>2. NuevosDe(p)' = NuevosDe(p)
    BY <2>1 DEF NuevosDe, DePrograma
  <2>3. /\ conexion.paso = "contarNew" /\ conexion.pid \in Pids
        /\ conexion' = EnSelect
        /\ enNew' = [enNew EXCEPT ![conexion.pid] = @ + 1]
    BY <1>6 DEF ContarNew, TypeOK, ConexionEnCurso
  <2>4. SinContar(p)' = 0
    BY <2>3 DEF SinContar, EnSelect
  <2>5. enNew'[p] = enNew[p] + SinContar(p)
    BY <1>1, <2>3 DEF SinContar
  <2>6. Descontado(p) \in {0, 1} /\ SinContar(p) \in {0, 1}
    BY DEF Descontado, SinContar
  <2> QED
    BY <1>1, <1>2, <2>1, <2>2, <2>4, <2>5, <2>6
<1>7. CASE /\ Admitir /\ enNew' = [enNew EXCEPT ![enMano.pid] = @ - 1]
           /\ planificador' = "admitido" /\ UNCHANGED <<enMano, conexion, transicion>>
           /\ enMano \in Hilo
  <2>1. /\ NuevosDe(p)' = NuevosDe(p) /\ SinContar(p)' = SinContar(p)
        /\ planificador = "tomado" /\ enMano.pid \in Pids
    BY <1>7 DEF NuevosDe, DePrograma, SinContar, Admitir, Hilo
  <2>2. Descontado(p) = 0 /\ Descontado(p)' \in {0, 1} /\ SinContar(p) \in {0, 1}
    BY <2>1 DEF Descontado, SinContar
  <2>3. enNew'[p] = enNew[p] - Descontado(p)'
    BY <1>1, <1>7, <2>1 DEF Descontado
  <2> QED
    BY <1>1, <1>2, <2>1, <2>2, <2>3
<1>8. CASE Entra /\ UNCHANGED <<enNew, conexion>>
  <2>1. /\ enMano \in Hilo /\ (enMano.pid = p => enMano \in NuevosDe(p))
        /\ NuevosDe(p)' = IF enMano.pid = p THEN NuevosDe(p) \ {enMano}
                          ELSE NuevosDe(p)
    BY <1>8, NuevosEntra
  <2>2. /\ SinContar(p)' = SinContar(p) /\ Descontado(p)' = 0
        /\ Descontado(p) = IF enMano.pid = p THEN 1 ELSE 0
    BY <1>8 DEF Entra, SinContar, Descontado
  <2>3. /\ IsFiniteSet(NuevosDe(p) \ {enMano})
        /\ enMano \in NuevosDe(p) => Cardinality(NuevosDe(p) \ {enMano})
                                         = Cardinality(NuevosDe(p)) - 1
    BY <1>1, FS_RemoveElement
  <2>4. SinContar(p) \in {0, 1}
    BY DEF SinContar
  <2> QED
    BY <1>1, <1>2, <1>8, <2>1, <2>2, <2>3, <2>4
<1> QED
  BY <1>4, <1>5, <1>6, <1>7, <1>8, PasoNew DEF NewCambia

LEMMA CuentaReadySiempre == Spec => []CuentaReady
<1>1. Init => CuentaReady
  BY LenVacia DEF Init, CuentaReady
<1>2. TypeOK /\ Lugares /\ Vida /\ CuentaReady /\ [Next]_vars => CuentaReady'
  BY CuentaReadyPaso
<1> QED
  BY <1>1, <1>2, TipoCorrecto, LugaresSiempre, VidaSiempre, PTL DEF Spec

LEMMA CuentaNewSiempre == Spec => []CuentaNew
<1>1. ASSUME Init PROVE CuentaNew
  <2> SUFFICES ASSUME NEW p \in Pids
               PROVE  /\ IsFiniteSet(NuevosDe(p))
                      /\ enNew[p] + SinContar(p)
                             = Cardinality(NuevosDe(p)) - Descontado(p)
    BY DEF CuentaNew
  <2>1. NuevosDe(p) = {}
    BY <1>1 DEF Init, NuevosDe, DePrograma
  <2>2. enNew[p] = 0 /\ SinContar(p) = 0 /\ Descontado(p) = 0
    BY <1>1 DEF Init, SinContar, Descontado, EnSelect
  <2> QED
    BY <2>1, <2>2, FS_EmptySet
<1>2. TypeOK /\ ColasNew /\ Lugares /\ CuentaNew /\ [Next]_vars => CuentaNew'
  BY CuentaNewPaso
<1> QED
  BY <1>1, <1>2, TipoCorrecto, ColasNewSiempre, LugaresSiempre, PTL DEF Spec

(* cantidadDeHilosEnReady and cantidadDeHilosEnNew of a connected program, *)
(* which the metrics print, agree with its list of ready and with the      *)
(* queue new, up to the hilo a thread of the server is moving: crearHilo   *)
(* counts it in after it is in the queue, planificarReady counts it out    *)
(* before it leaves.                                                       *)
THEOREM ContadoresExactos == Spec => []ContadoresAlDia
<1>1. ASSUME TypeOK, Lugares, Hallados, CuentaReady, CuentaNew
      PROVE  ContadoresAlDia
  <2> SUFFICES ASSUME NEW p \in Pids, Vivo(p)
               PROVE  /\ enReady[p] = Len(ready[p])
                      /\ enNew[p] + SinContar(p) = Cardinality(
                             {h \in DePrograma(p) : h \in EsperaAdmision})
                             - Descontado(p)
    BY DEF ContadoresAlDia, SinContar, Descontado, Vivo
  <2>1. ASSUME NEW h \in DePrograma(p)
        PROVE  h \in EsperaAdmision <=> transicion[h] = "New"
    BY <1>1, <2>1 DEF DePrograma, Lugares, LugarNew, Hallados, Hallado
  <2>2. {h \in DePrograma(p) : h \in EsperaAdmision} = NuevosDe(p)
    BY <2>1 DEF NuevosDe
  <2> QED
    BY <1>1, <2>2 DEF CuentaReady, CuentaNew
<1> QED
  BY <1>1, TipoCorrecto, LugaresSiempre, HalladosSiempre, CuentaReadySiempre,
     CuentaNewSiempre, PTL

-----------------------------------------------------------------------------
(* MAXIMOPROCESAMIENTO.                                                    *)

EnMarcha == {h \in Hilo : transicion[h] \in {"Ready", "Execute", "Blocked"}}

(* A hilo that has ended and has not given its unit back, and one that     *)
(* planificarReady admits: each is there or it is not.                     *)
Saliendo == {h \in Hilo : conexion.hilo = h
                          /\ conexion.paso \in {"metricas", "devolver"}}
Entrando == IF planificador = "admitido" THEN {enMano} ELSE {}

CuentaUnidades ==
    (\A p \in Pids : Vivo(p)) =>
        IsFiniteSet(EnProceso) /\ maximo + Cardinality(EnProceso) = Grado

LEMMA ProcesoPartes == EnProceso = EnMarcha \cup Saliendo \cup Entrando
BY DEF EnProceso, EnMarcha, Saliendo, Entrando

(* Only planificarReady and a close move a hilo in or out of the three     *)
(* states that hold a unit.                                                *)
LEMMA MarchaCambia ==
    ASSUME TypeOK, Mueve, NEW h \in Hilo,
           (h \in EnMarcha)' # (h \in EnMarcha)
    PROVE  (Entra /\ h = enMano) \/ \E p \in Pids : Cierra(p) /\ h = exec[p]
<1> DEFINE Marcha == {"Ready", "Execute", "Blocked"}
<1>1. (transicion'[h] \in Marcha) # (transicion[h] \in Marcha)
  BY DEF EnMarcha
<1>2. ASSUME NEW de, NEW a, Cambia(h, de, a)
      PROVE  (a \in Marcha) # (de \in Marcha)
  BY <1>1, <1>2, CambiaSolo
<1>3. ~Nace(h)
  BY <1>2 DEF Nace
<1>4. ASSUME NEW s \in Sems, Despierta(s) PROVE h # Head(cola[s])
  BY <1>2, <1>4 DEF Despierta, Llega
<1>5. ASSUME NEW q \in Pids
      PROVE  /\ Bloquea(q) => h # exec[q]
             /\ Despacha(q) => h # Head(ready[q])
             /\ \A t \in Tids : Libera(q, t) => h # Head(bloqueados[q][t])
  BY <1>2 DEF Bloquea, Despacha, Libera
<1>6. ASSUME NEW q \in Pids, Desaloja(q)
      PROVE  h \notin {exec[q], Head(ready[q])}
  BY <1>1, <1>6 DEF Desaloja, TypeOK
<1> QED
  BY <1>1, <1>3, <1>4, <1>5, <1>6, QuienCambia

(* Who touches the semaphore.                                              *)
UnidadesCambian ==
    \/ /\ UNCHANGED <<maximo, Saliendo, Entrando, EnMarcha>>
    \/ Admitir /\ maximo' = maximo - 1 /\ Entrando = {}
       /\ Entrando' = {enMano} /\ enMano \in Hilo
       /\ UNCHANGED <<Saliendo, EnMarcha, transicion>>
    \/ Entra /\ UNCHANGED <<maximo, Saliendo>>
    \/ (\E p \in Pids : Cierra(p) /\ Saliendo' = {exec[p]})
       /\ Saliendo = {} /\ UNCHANGED <<maximo, Entrando>>
    \/ DevolverClose
    \/ \E p \in Pids : Desconectar(p)

LEMMA UnidadesQuietas ==
    ASSUME TypeOK, Mueve, UNCHANGED <<maximo, varsPlanif>>,
           \/ UNCHANGED conexion
           \/ /\ conexion.paso \notin {"metricas", "devolver", "soltarExec"}
              /\ conexion'.paso \notin {"metricas", "devolver", "soltarExec"}
    PROVE  UnidadesCambian
<1>1. UNCHANGED <<Saliendo, Entrando>>
  BY DEF Saliendo, Entrando, varsPlanif
<1>2. ASSUME NEW p \in Pids PROVE ~Cierra(p)
  <2>1. UNCHANGED EnCierre
    BY DEF EnCierre
  <2> QED
    BY <2>1, SUSEAssumption DEF Cierra
<1>3. ~Entra
  BY DEF Entra, varsPlanif
<1>4. \A h \in Hilo : (h \in EnMarcha)' = (h \in EnMarcha)
  BY <1>2, <1>3, MarchaCambia
<1>5. UNCHANGED EnMarcha
  BY <1>4 DEF EnMarcha
<1> QED
  BY <1>1, <1>5 DEF UnidadesCambian

LEMMA UnidadesTranquilas ==
    ASSUME TypeOK, UNCHANGED <<maximo, varsPlanif, transicion>>,
           \/ /\ conexion.paso \notin {"metricas", "devolver"}
              /\ conexion'.paso \notin {"metricas", "devolver"}
           \/ /\ conexion.paso = "metricas" /\ conexion'.paso = "devolver"
              /\ conexion'.hilo = conexion.hilo
    PROVE  UnidadesCambian
<1>1. UNCHANGED <<Saliendo, Entrando, EnMarcha>>
  BY DEF Saliendo, Entrando, EnMarcha, varsPlanif
<1> QED
  BY <1>1 DEF UnidadesCambian

LEMMA SolicitudUnidades ==
    ASSUME TypeOK, ColasNew, Lugares, NEW q \in Pids, Solicitud(q), [Next]_vars
    PROVE  UnidadesCambian
<1>m. Mueve
  BY Movimiento
<1>0. Solicita(q) => conexion = EnSelect
  BY DEF Solicita, EnServicio
<1>1. ASSUME NEW m, Cae(m) PROVE UnidadesCambian
  BY <1>m, <1>1, UnidadesQuietas DEF Cae
<1>2. CASE CrearPrograma(q) \/ ScheduleNext(q)
  BY <1>m, <1>2, UnidadesQuietas DEF CrearPrograma, ScheduleNext
<1>3. CASE Desconectar(q)
  BY <1>3 DEF UnidadesCambian
<1>4. ASSUME NEW t \in Tids, CrearHilo(q, t) \/ RealizarJoin(q, t)
      PROVE  UnidadesCambian
  BY <1>m, <1>0, <1>4, UnidadesQuietas DEF CrearHilo, RealizarJoin, EnSelect
<1>5. ASSUME NEW t \in Tids, RealizarClose(q, t) PROVE UnidadesCambian
  <2>1. CASE exec[q] = Nadie
    BY <1>1, <1>5, <2>1 DEF RealizarClose
  <2>2. CASE exec[q] # Nadie
    <3>1. /\ conexion = EnSelect
          /\ conexion' = [paso |-> "metricas", pid |-> q, hilo |-> exec[q]]
          /\ UNCHANGED <<maximo, varsPlanif>> /\ exec[q] \in Hilo
      BY <1>0, <1>5, <2>2 DEF RealizarClose, TypeOK, HiloONadie
    <3>2. EnCierre' = exec[q] /\ EnCierre = Nadie
      BY <3>1 DEF EnCierre, EnSelect
    <3>3. Quieto \/ Cierra(q)
      BY <1>5, MueveClose
    <3>4. Cierra(q)
      BY <2>2, <3>2, <3>3 DEF Quieto
    <3>5. Saliendo = {} /\ Saliendo' = {exec[q]} /\ UNCHANGED Entrando
      BY <3>1 DEF Saliendo, Entrando, EnSelect, varsPlanif
    <3> QED
      BY <3>1, <3>4, <3>5 DEF UnidadesCambian
  <2> QED
    BY <2>1, <2>2
<1>6. ASSUME NEW t \in Tids, NEW s \in Sems, SuseWait(q, t, s)
      PROVE  UnidadesCambian
  BY <1>m, <1>1, <1>6, UnidadesQuietas DEF SuseWait
<1>7. ASSUME NEW s \in Sems, SuseSignal(q, s) PROVE UnidadesCambian
  <2>1. CASE UNCHANGED <<maximo, varsPlanif>>
             /\ conexion'.paso \in {"select", "despertar"}
    BY <1>m, <1>0, <1>7, <2>1, UnidadesQuietas DEF EnSelect, SuseSignal
  <2> QED
    BY <1>0, <1>1, <1>7, <2>1 DEF SuseSignal, EnSelect
<1> QED
  BY <1>2, <1>3, <1>4, <1>5, <1>6, <1>7 DEF Solicitud

LEMMA PasoUnidades ==
    ASSUME TypeOK, ColasNew, Lugares, [Next]_vars
    PROVE  UnidadesCambian
<1>m. Mueve
  BY Movimiento
<1>1. ASSUME NEW m, Cae(m) PROVE UnidadesCambian
  BY <1>m, <1>1, UnidadesQuietas DEF Cae
<1>2. CASE PasoConexion
  <2>1. CASE ContarNew \/ Despertar \/ Desmarcar \/ Descontar
    <3>1. /\ UNCHANGED <<maximo, varsPlanif>>
          /\ conexion.paso \in {"contarNew", "despertar", "desmarcar", "descontar"}
      BY <2>1 DEF ContarNew, Despertar, Desmarcar, Descontar
    <3>2. conexion'.paso \in {"select", "desmarcar", "descontar"}
      BY <2>1 DEF ContarNew, Despertar, Desmarcar, Descontar, EnSelect, TypeOK,
         Conexiones
    <3> QED
      BY <1>m, <3>1, <3>2, UnidadesQuietas
  <2>2. CASE MetricasClose
    BY <1>1, <2>2, UnidadesTranquilas DEF MetricasClose, TypeOK, Conexiones
  <2>3. CASE DevolverClose
    BY <2>3 DEF UnidadesCambian
  <2>4. CASE SoltarExec
    BY <2>4, UnidadesTranquilas DEF SoltarExec, TypeOK, Conexiones
  <2>5. CASE Liberar
    <3>1. /\ UNCHANGED <<maximo, varsPlanif>> /\ conexion.paso = "liberar"
          /\ conexion'.paso \in {"liberar", "select"}
      BY <2>5 DEF Liberar, EnSelect
    <3> QED
      BY <1>m, <3>1, UnidadesQuietas
  <2>6. CASE LimpiarReady
    <3>1. /\ UNCHANGED <<maximo, varsPlanif, transicion>> /\ conexion.paso = "limpiarReady"
          /\ conexion' = [conexion EXCEPT !.paso = "limpiarPrograma"]
      BY <2>6 DEF LimpiarReady
    <3>2. conexion \in Conexiones
      BY DEF TypeOK
    <3>3. conexion'.paso = "limpiarPrograma"
      BY <3>1, <3>2 DEF Conexiones
    <3> QED
      BY <3>1, <3>3, UnidadesTranquilas
  <2>7. CASE LimpiarPrograma
    <3>1. /\ UNCHANGED <<maximo, varsPlanif, transicion>>
          /\ conexion.paso = "limpiarPrograma" /\ conexion'.paso = "select"
      BY <2>7 DEF LimpiarPrograma, EnSelect
    <3> QED
      BY <3>1, UnidadesTranquilas
  <2> QED
    BY <1>2, <2>1, <2>2, <2>3, <2>4, <2>5, <2>6, <2>7 DEF PasoConexion
<1>3. CASE TomarNuevo
  <2>1. /\ planificador = "espera" /\ planificador' = "tomado"
        /\ UNCHANGED <<maximo, conexion, transicion>>
    BY <1>3 DEF TomarNuevo
  <2>2. UNCHANGED <<Saliendo, EnMarcha, Entrando>>
    BY <2>1 DEF Saliendo, EnMarcha, Entrando
  <2> QED
    BY <2>1, <2>2 DEF UnidadesCambian
<1>4. CASE Admitir
  <2>1. CASE /\ enMano # Nadie /\ maximo' = maximo - 1
             /\ planificador' = "admitido"
             /\ UNCHANGED <<transicion, conexion, enMano>>
    <3>1. enMano \in Hilo /\ planificador = "tomado"
      BY <1>4, <2>1 DEF Admitir, TypeOK, HiloONadie
    <3>2. /\ Entrando = {} /\ Entrando' = {enMano}
          /\ UNCHANGED <<Saliendo, EnMarcha>>
      BY <2>1, <3>1 DEF Saliendo, EnMarcha, Entrando
    <3> QED
      BY <1>4, <2>1, <3>1, <3>2 DEF UnidadesCambian
  <2> QED
    BY <1>1, <1>4, <2>1 DEF Admitir
<1>5. CASE PasarNuevo
  <2>1. CASE Cae("programaInexistente")
    BY <1>1, <2>1
  <2>2. CASE enMano' = Nadie /\ planificador' = "espera"
             /\ UNCHANGED <<conexion, maximo>>
    <3>1. PasoPlanificador /\ planificador = "admitido" /\ enMano # Nadie
      BY <1>5, SUSEAssumption DEF PasoPlanificador, PasarNuevo, TypeOK
    <3>2. Entra
      BY <2>2, <3>1, MuevePlanificador DEF Quieto, Toma
    <3>3. UNCHANGED Saliendo
      BY <2>2 DEF Saliendo
    <3> QED
      BY <2>2, <3>2, <3>3 DEF UnidadesCambian
  <2> QED
    BY <1>5, <2>1, <2>2 DEF PasarNuevo
<1>6. CASE MetricasTimer \/ DevolverTimer
  BY <1>m, <1>1, <1>6, UnidadesQuietas DEF MetricasTimer, DevolverTimer
<1>7. ASSUME NEW q \in Pids, PasoAgenda(q) \/ Recibir(q) PROVE UnidadesCambian
  <2>1. CASE Recalcular(q) \/ Continuar(q) \/ QuedarSinHilos(q) \/ Recibir(q)
    BY <1>m, <2>1, UnidadesQuietas DEF Recalcular, Continuar, QuedarSinHilos,
       Recibir
  <2>2. CASE Replanificar(q) \/ CalcularCae(q) \/ Marcar(q) \/ TomarMutex(q)
    BY <1>m, <1>1, <2>2, UnidadesQuietas DEF Replanificar, CalcularCae, Marcar,
       TomarMutex
  <2>3. CASE Desalojar(q)
    BY <1>m, <2>3, UnidadesQuietas DEF Desalojar
  <2>4. CASE DespacharSiguiente(q) \/ Retomar(q)
    BY <1>m, <1>1, <2>4, UnidadesQuietas DEF DespacharSiguiente, Retomar,
       Despachar
  <2> QED
    BY <1>7, <2>1, <2>2, <2>3, <2>4 DEF PasoAgenda
<1>8. CASE UNCHANGED vars
  BY <1>m, <1>8, UnidadesQuietas DEF vars
<1> QED
  BY <1>2, <1>3, <1>4, <1>5, <1>6, <1>7, <1>8, SolicitudUnidades
     DEF Next, PasoServidor, PasoPlanificador

(* The three parts have no hilo in common.                                 *)
LEMMA PartesAjenas ==
    ASSUME TypeOK, Lugares
    PROVE  /\ EnMarcha \cap Saliendo = {} /\ EnMarcha \cap Entrando = {}
           /\ Saliendo \cap Entrando = {}
<1>1. ASSUME NEW h \in Saliendo PROVE h \in Hilo /\ transicion[h] = "Exit"
  <2>1. h \in Hilo /\ EnCierre = h /\ h # Nadie
    BY <1>1, SUSEAssumption DEF Saliendo, EnCierre
  <2> QED
    BY <2>1 DEF Lugares, CierreQuieto
<1>2. ASSUME NEW h \in Entrando PROVE h \in Hilo /\ transicion[h] = "New"
  BY <1>2, SUSEAssumption DEF Entrando, TypeOK, Lugares, LugarNew, EsperaAdmision
<1> QED
  BY <1>1, <1>2 DEF EnMarcha

LEMMA CuentaUnidadesPaso ==
    ASSUME TypeOK, ColasNew, Lugares, CuentaUnidades, [Next]_vars
    PROVE  CuentaUnidades'
<1> SUFFICES ASSUME \A p \in Pids : Vivo(p)'
             PROVE  /\ IsFiniteSet(EnProceso')
                    /\ maximo' + Cardinality(EnProceso') = Grado
  BY DEF CuentaUnidades
<1>1. \A p \in Pids : Vivo(p)
  BY VivoSigue
<1>2. /\ IsFiniteSet(EnProceso) /\ maximo + Cardinality(EnProceso) = Grado
      /\ Cardinality(EnProceso) \in Nat /\ maximo \in Nat /\ Grado \in Nat
  BY <1>1, FS_CardinalityType, SUSEAssumption DEF CuentaUnidades, TypeOK
<1>3. /\ EnProceso = EnMarcha \cup Saliendo \cup Entrando
      /\ EnProceso' = EnMarcha' \cup Saliendo' \cup Entrando'
  BY DEF EnProceso, EnMarcha, Saliendo, Entrando
<1>4. ASSUME EnProceso' = EnProceso, UNCHANGED maximo
      PROVE  IsFiniteSet(EnProceso') /\ maximo' + Cardinality(EnProceso') = Grado
  BY <1>2, <1>4
<1>5. CASE UNCHANGED <<maximo, Saliendo, Entrando, EnMarcha>>
  BY <1>3, <1>4, <1>5
<1>6. CASE /\ Admitir /\ maximo' = maximo - 1 /\ Entrando = {}
           /\ Entrando' = {enMano} /\ enMano \in Hilo
           /\ UNCHANGED <<Saliendo, EnMarcha, transicion>>
  <2>1. EnProceso' = EnProceso \cup {enMano}
    BY <1>3, <1>6
  <2>2. transicion[enMano] = "New"
    BY <1>6, SUSEAssumption DEF Lugares, LugarNew, EsperaAdmision
  <2>3. enMano \notin EnMarcha
    BY <2>2 DEF EnMarcha
  <2>4. enMano \notin Saliendo
    <3>1. ASSUME enMano \in Saliendo PROVE EnCierre = enMano
      BY <3>1 DEF Saliendo, EnCierre
    <3> QED
      BY <1>6, <2>2, <3>1, SUSEAssumption DEF Lugares, CierreQuieto
  <2>5. enMano \notin EnProceso
    BY <1>3, <1>6, <2>3, <2>4
  <2>6. /\ IsFiniteSet(EnProceso \cup {enMano})
        /\ Cardinality(EnProceso \cup {enMano}) = Cardinality(EnProceso) + 1
    BY <1>2, <2>5, FS_AddElement
  <2> QED
    BY <1>2, <1>6, <2>1, <2>6
<1>7. CASE Entra /\ UNCHANGED <<maximo, Saliendo>>
  <2>1. PICK h \in Hilo : h = enMano /\ Llega(h, "New")
    BY <1>7 DEF Entra, Llega
  <2>2. /\ transicion[h] = "New" /\ transicion'[h] \in {"Ready", "Execute"}
        /\ \A g \in Hilo \ {h} : transicion'[g] = transicion[g]
    BY <2>1, CambiaSolo DEF Llega
  <2>3. EnMarcha' = EnMarcha \cup {h}
    BY <2>2 DEF EnMarcha
  <2>4. Entrando = {h} /\ Entrando' = {}
    BY <1>7, <2>1 DEF Entra, Entrando
  <2>5. EnProceso' = EnProceso
    BY <1>3, <1>7, <2>3, <2>4
  <2> QED
    BY <1>4, <1>7, <2>5
<1>8. ASSUME NEW p \in Pids, Cierra(p), Saliendo' = {exec[p]}, Saliendo = {},
             UNCHANGED <<maximo, Entrando>>
      PROVE  IsFiniteSet(EnProceso') /\ maximo' + Cardinality(EnProceso') = Grado
  <2>1. PICK h \in Hilo : h = exec[p] /\ Cambia(h, "Execute", "Exit")
    BY <1>8 DEF Cierra
  <2>2. /\ transicion[h] = "Execute" /\ transicion'[h] = "Exit"
        /\ \A g \in Hilo \ {h} : transicion'[g] = transicion[g]
    BY <2>1, CambiaSolo
  <2>3. EnMarcha' = EnMarcha \ {h} /\ h \in EnMarcha
    BY <2>2 DEF EnMarcha
  <2>4. EnProceso' = EnProceso
    BY <1>3, <1>8, <2>1, <2>3
  <2> QED
    BY <1>4, <1>8, <2>4
<1>9. CASE DevolverClose
  <2>1. /\ maximo' = maximo + 1 /\ conexion.paso = "devolver"
        /\ conexion'.paso = "soltarExec" /\ UNCHANGED <<transicion, varsPlanif>>
    BY <1>9 DEF DevolverClose, PostMaximo, TypeOK, Conexiones
  <2>2. PICK h \in Hilo : h = conexion.hilo
    BY <2>1 DEF TypeOK, ConexionEnCurso
  <2>3. Saliendo = {h} /\ Saliendo' = {} /\ UNCHANGED <<EnMarcha, Entrando>>
    BY <2>1, <2>2 DEF Saliendo, EnMarcha, Entrando, varsPlanif
  <2>4. h \notin EnMarcha /\ h \notin Entrando
    BY <2>3, PartesAjenas
  <2>5. EnProceso' = EnProceso \ {h} /\ h \in EnProceso
    BY <1>3, <2>3, <2>4
  <2>6. /\ IsFiniteSet(EnProceso \ {h})
        /\ Cardinality(EnProceso \ {h}) = Cardinality(EnProceso) - 1
    BY <1>2, <2>5, FS_RemoveElement
  <2> QED
    BY <1>2, <2>1, <2>5, <2>6
<1>10. ASSUME NEW p \in Pids, Desconectar(p) PROVE FALSE
  BY <1>10 DEF Desconectar, Vivo, TypeOK
<1> QED
  BY <1>5, <1>6, <1>7, <1>8, <1>9, <1>10, PasoUnidades DEF UnidadesCambian

(* MAX_MULTIPROG is neither exceeded nor wasted as long as no program      *)
(* disconnects: what is left of MAXIMOPROCESAMIENTO and the hilos that     *)
(* hold a unit of it add up to the configured degree.                      *)
THEOREM MultiprogramacionSiempre == Spec => []MultiprogramacionExacta
<1>1. ASSUME Init PROVE CuentaUnidades
  <2>1. EnProceso = {}
    BY <1>1 DEF Init, EnProceso, EnSelect
  <2> QED
    BY <1>1, <2>1, FS_EmptySet, SUSEAssumption DEF Init, CuentaUnidades
<1>2. TypeOK /\ ColasNew /\ Lugares /\ CuentaUnidades /\ [Next]_vars
      => CuentaUnidades'
  BY CuentaUnidadesPaso
<1>3. CuentaUnidades => MultiprogramacionExacta
  BY DEF CuentaUnidades, MultiprogramacionExacta, Vivo
<1> QED
  BY <1>1, <1>2, <1>3, TipoCorrecto, ColasNewSiempre, LugaresSiempre,
     PTL DEF Spec

-----------------------------------------------------------------------------
(* Blocking and waking the schedule_next of a program.                     *)

(* A signal that has made a hilo of p ready and has not come to the mark   *)
(* of p yet, and one that has unlocked the mutex of p.                     *)
PorDespertar(p) == conexion.paso = "despertar" /\ conexion.hilo.pid = p
PorDesmarcar(p) == conexion.paso = "desmarcar" /\ conexion.hilo.pid = p

(* The mutex is unlocked only for a schedule_next that waits for it and    *)
(* will find a hilo.  A signal reads the mark and clears it in two         *)
(* sections, so that the mark and the unlocked mutex overlap only between  *)
(* them; were they to overlap elsewhere a second signal would unlock the   *)
(* mutex of a program that does not sleep.                                 *)
Despierto(p) ==
    /\ mutexLibre[p] => agenda[p] = "mutex"
    /\ mutexLibre[p] \/ agenda[p] = "retomar" => ready[p] # <<>>
    /\ estaBloqueado[p] => agenda[p] = "mutex" \/ PorDesmarcar(p)
    /\ mutexLibre[p] /\ estaBloqueado[p] => PorDesmarcar(p)
    /\ (PorDespertar(p) \/ PorDesmarcar(p)) /\ agenda[p] # "no" =>
           ready[p] # <<>>
    /\ PorDesmarcar(p) => agenda[p] \in {"mutex", "retomar", "no"}

Despiertos == \A p \in Pids : Vivo(p) => Despierto(p)

(* A list with hilos is emptied only by the schedule_next that takes the   *)
(* last of them, and answers.                                              *)
LEMMA ReadySeVacia ==
    ASSUME TypeOK, Lugares, Vida, [Next]_vars, NEW p \in Pids, Vivo(p),
           ready[p] # <<>>, ready'[p] = <<>>
    PROVE  agenda'[p] = "no"
<1>1. ready[p] \in Seq(Hilo)
  BY DEF TypeOK
<1>2. \A h \in Hilo : ready'[p] # Append(ready[p], h)
  BY <1>1, LargoAppend
<1>3. \A h \in Hilo : ready'[p] # Append(Tail(ready[p]), h)
  BY <1>1, RangoTail, LargoAppend
<1>4. ASSUME ready'[p] \in Ordenamientos(ready[p]) PROVE FALSE
  <2>1. PICK s \in Ordenamientos(ready[p]) : s = <<>>
    BY <1>4
  <2>2. Range(s) = Range(ready[p])
    BY DEF Ordenamientos
  <2>3. Range(s) = {}
    BY <2>1, RangoVacio
  <2>4. Head(ready[p]) \in Range(ready[p])
    BY <1>1, RangoTail
  <2> QED
    BY <2>2, <2>3, <2>4
<1>5. ~(LimpiarReady /\ conexion.pid = p)
  BY DEF LimpiarReady, Vida, LimpiezaAlFinal
<1> QED
  BY <1>2, <1>3, <1>4, <1>5, PasoReady DEF ReadyCambia

(* Steps that touch neither the mutex, nor the mark, nor the place of the  *)
(* schedule_next of p.                                                     *)
LEMMA SigueDespierto ==
    ASSUME TypeOK, Lugares, Vida, [Next]_vars, NEW p \in Pids, Vivo(p),
           Despierto(p),
           UNCHANGED <<mutexLibre[p], estaBloqueado[p], agenda[p]>>,
           PorDespertar(p)' = PorDespertar(p),
           PorDesmarcar(p)' = PorDesmarcar(p)
    PROVE  Despierto(p)'
<1>1. ready[p] # <<>> /\ agenda[p] # "no" => ready'[p] # <<>>
  BY ReadySeVacia
<1> HIDE DEF PorDespertar, PorDesmarcar
<1>2. /\ mutexLibre[p] => agenda[p] = "mutex"
      /\ mutexLibre[p] \/ agenda[p] = "retomar" => ready[p] # <<>>
      /\ estaBloqueado[p] => agenda[p] = "mutex" \/ PorDesmarcar(p)
      /\ mutexLibre[p] /\ estaBloqueado[p] => PorDesmarcar(p)
      /\ (PorDespertar(p) \/ PorDesmarcar(p)) /\ agenda[p] # "no" =>
             ready[p] # <<>>
      /\ PorDesmarcar(p) => agenda[p] \in {"mutex", "retomar", "no"}
  BY DEF Despierto
<1> QED
  BY <1>1, <1>2 DEF Despierto

(* What the connection thread and the schedule_next of p do to the mark,   *)
(* to the mutex and to themselves.                                         *)
AvisoCambia(p) ==
    \/ /\ UNCHANGED <<mutexLibre[p], estaBloqueado[p], agenda[p]>>
       /\ PorDespertar(p)' = PorDespertar(p)
       /\ PorDesmarcar(p)' = PorDesmarcar(p)
    \/ /\ conexion = EnSelect /\ UNCHANGED <<mutexLibre[p], estaBloqueado[p]>>
       /\ \/ /\ conexion' = EnSelect /\ agenda[p] = "no"
             /\ agenda'[p] = "recalcular"
          \/ UNCHANGED agenda /\ \E s \in Sems : Despierta(s)
             /\ conexion'.paso = "despertar" /\ conexion'.hilo = Head(cola[s])
    \/ Despertar \/ Desmarcar
    \/ PasoAgenda(p)

LEMMA AvisoIgual ==
    ASSUME UNCHANGED <<mutexLibre, estaBloqueado, agenda>>,
           \/ UNCHANGED conexion
           \/ conexion.paso \notin {"despertar", "desmarcar"}
              /\ conexion'.paso \notin {"despertar", "desmarcar"},
           NEW p \in Pids
    PROVE  AvisoCambia(p)
BY DEF AvisoCambia, PorDespertar, PorDesmarcar

LEMMA SolicitudAviso ==
    ASSUME TypeOK, Lugares, NEW q \in Pids, Solicitud(q), NEW p \in Pids
    PROVE  AvisoCambia(p)
<1>0. Solicita(q) => conexion = EnSelect /\ agenda[q] = "no"
  BY DEF Solicita, EnServicio
<1>1. ASSUME NEW m, Cae(m) PROVE AvisoCambia(p)
  BY <1>1, AvisoIgual DEF Cae, varsPrograma
<1>2. CASE CrearPrograma(q)
  BY <1>2, AvisoIgual DEF CrearPrograma, varsPrograma
<1>3. CASE ScheduleNext(q)
  <2>1. /\ agenda' = [agenda EXCEPT ![q] = "recalcular"]
        /\ UNCHANGED <<mutexLibre, estaBloqueado, conexion>>
    BY <1>3 DEF ScheduleNext, varsPrograma
  <2>2. CASE q = p
    BY <1>0, <1>3, <2>1, <2>2 DEF ScheduleNext, AvisoCambia, TypeOK
  <2>3. CASE q # p
    BY <2>1, <2>3 DEF AvisoCambia, PorDespertar, PorDesmarcar, TypeOK
  <2> QED
    BY <2>2, <2>3
<1>4. CASE Desconectar(q)
  BY <1>4, AvisoIgual DEF Desconectar, EnServicio, EnSelect, varsPrograma
<1>5. ASSUME NEW t \in Tids,
             CrearHilo(q, t) \/ RealizarJoin(q, t) \/ RealizarClose(q, t)
      PROVE  AvisoCambia(p)
  BY <1>0, <1>1, <1>5, AvisoIgual DEF CrearHilo, RealizarJoin, RealizarClose,
     EnSelect, varsPrograma
<1>6. ASSUME NEW t \in Tids, NEW s \in Sems, SuseWait(q, t, s)
      PROVE  AvisoCambia(p)
  BY <1>1, <1>6, AvisoIgual DEF SuseWait, varsPrograma
<1>7. ASSUME NEW s \in Sems, SuseSignal(q, s) PROVE AvisoCambia(p)
  <2>1. Quieto \/ Despierta(s)
    BY <1>7, MueveSignal
  <2>2. CASE /\ conexion' = [paso |-> "despertar", pid |-> q, hilo |-> Head(cola[s])]
             /\ cola[s] # <<>> /\ cola' = [cola EXCEPT ![s] = Tail(@)]
             /\ UNCHANGED <<agenda, mutexLibre, estaBloqueado>>
    <3>0. cola[s] \in Seq(Hilo)
      BY DEF TypeOK
    <3>1. Tail(cola[s]) # cola[s]
      <4>1. Len(cola[s]) \in Nat /\ Len(Tail(cola[s])) = Len(cola[s]) - 1
        BY <2>2, <3>0, LargoTail
      <4>2. Len(cola[s]) # Len(cola[s]) - 1
        BY <4>1
      <4> QED
        BY <4>1, <4>2
    <3>2. cola' # cola
      BY <2>2, <3>1 DEF TypeOK
    <3>3. Despierta(s)
      BY <2>1, <3>2 DEF Quieto
    <3> QED
      BY <1>0, <1>7, <2>2, <3>3 DEF SuseSignal, AvisoCambia
  <2>3. CASE UNCHANGED <<conexion, agenda, varsPrograma>>
    BY <2>3, AvisoIgual DEF varsPrograma
  <2> QED
    BY <1>1, <1>7, <2>2, <2>3 DEF SuseSignal
<1> QED
  BY <1>2, <1>3, <1>4, <1>5, <1>6, <1>7 DEF Solicitud

LEMMA PasoAviso ==
    ASSUME TypeOK, Lugares, [Next]_vars, NEW p \in Pids
    PROVE  AvisoCambia(p)
<1>1. ASSUME NEW m, Cae(m) PROVE AvisoCambia(p)
  BY <1>1, AvisoIgual DEF Cae, varsPrograma
<1>2. CASE PasoConexion
  <2>1. CASE Despertar \/ Desmarcar
    BY <2>1 DEF AvisoCambia
  <2>2. CASE ContarNew \/ Descontar
    BY <2>2, AvisoIgual DEF ContarNew, Descontar, EnSelect
  <2>3. CASE MetricasClose \/ DevolverClose \/ SoltarExec
    BY <1>1, <2>3, AvisoIgual DEF MetricasClose, DevolverClose, SoltarExec,
       TypeOK, Conexiones, varsPrograma
  <2>4. CASE Liberar
    BY <2>4, AvisoIgual DEF Liberar, EnSelect
  <2>5. CASE LimpiarReady \/ LimpiarPrograma
    BY <2>5, AvisoIgual DEF LimpiarReady, LimpiarPrograma, EnSelect, TypeOK,
       Conexiones, varsPrograma
  <2> QED
    BY <1>2, <2>1, <2>2, <2>3, <2>4, <2>5 DEF PasoConexion
<1>3. CASE PasoPlanificador
  BY <1>1, <1>3, AvisoIgual DEF PasoPlanificador, TomarNuevo, Admitir,
     PasarNuevo, varsPrograma
<1>4. CASE MetricasTimer \/ DevolverTimer
  BY <1>1, <1>4, AvisoIgual DEF MetricasTimer, DevolverTimer, varsPrograma
<1>5. ASSUME NEW q \in Pids, PasoAgenda(q) PROVE AvisoCambia(p)
  <2>1. CASE q = p
    BY <1>5, <2>1 DEF AvisoCambia
  <2>2. CASE q # p
    <3>1. UNCHANGED agenda \/ \E a : agenda' = [agenda EXCEPT ![q] = a]
      BY <1>5 DEF PasoAgenda, Recalcular, Replanificar, CalcularCae, Desalojar,
         Continuar, DespacharSiguiente, Despachar, QuedarSinHilos, Marcar,
         TomarMutex, Retomar, Cae
    <3>2. UNCHANGED mutexLibre
          \/ mutexLibre' = [mutexLibre EXCEPT ![q] = FALSE]
      BY <1>5 DEF PasoAgenda, Recalcular, Replanificar, CalcularCae, Desalojar,
         Continuar, DespacharSiguiente, Despachar, QuedarSinHilos, Marcar,
         TomarMutex, Retomar, Cae, varsPrograma
    <3>3. UNCHANGED estaBloqueado
          \/ estaBloqueado' = [estaBloqueado EXCEPT ![q] = TRUE]
      BY <1>5 DEF PasoAgenda, Recalcular, Replanificar, CalcularCae, Desalojar,
         Continuar, DespacharSiguiente, Despachar, QuedarSinHilos, Marcar,
         TomarMutex, Retomar, Cae, varsPrograma
    <3>4. UNCHANGED conexion
      BY <1>5 DEF PasoAgenda, Recalcular, Replanificar, CalcularCae, Desalojar,
         Continuar, DespacharSiguiente, Despachar, QuedarSinHilos, Marcar,
         TomarMutex, Retomar, Cae
    <3>5. UNCHANGED <<mutexLibre[p], estaBloqueado[p], agenda[p]>>
      BY <2>2, <3>1, <3>2, <3>3 DEF TypeOK
    <3> QED
      BY <3>4, <3>5 DEF AvisoCambia, PorDespertar, PorDesmarcar
  <2> QED
    BY <2>1, <2>2
<1>6. ASSUME NEW q \in Pids, Recibir(q) PROVE AvisoCambia(p)
  BY <1>6, AvisoIgual DEF Recibir, varsPrograma
<1>7. CASE UNCHANGED vars
  BY <1>7, AvisoIgual DEF vars, varsPrograma
<1> QED
  BY <1>2, <1>3, <1>4, <1>5, <1>6, <1>7, SolicitudAviso DEF Next, PasoServidor

LEMMA DespiertoAgenda ==
    ASSUME TypeOK, Lugares, Vida, [Next]_vars, NEW p \in Pids, Vivo(p),
           Despierto(p), PasoAgenda(p)
    PROVE  Despierto(p)'
<1>1. UNCHANGED conexion
  BY DEF PasoAgenda, Recalcular, Replanificar, CalcularCae, Desalojar,
     Continuar, DespacharSiguiente, Despachar, QuedarSinHilos, Marcar,
     TomarMutex, Retomar, Cae
<1>2. PorDespertar(p)' = PorDespertar(p) /\ PorDesmarcar(p)' = PorDesmarcar(p)
  BY <1>1 DEF PorDespertar, PorDesmarcar
<1>3. ready[p] # <<>> /\ agenda'[p] # "no" => ready'[p] # <<>>
  BY ReadySeVacia
<1>4. ASSUME UNCHANGED <<mutexLibre, estaBloqueado, agenda>>
      PROVE  Despierto(p)'
  BY <1>2, <1>4, SigueDespierto
<1>5. ASSUME NEW m, Cae(m) PROVE Despierto(p)'
  BY <1>4, <1>5 DEF Cae, varsPrograma
<1>6. ASSUME UNCHANGED <<mutexLibre, estaBloqueado>>,
             agenda[p] \in {"recalcular", "replanificar", "calcular"},
             agenda'[p] \in {"replanificar", "calcular", "marcar", "no"},
             agenda'[p] = "marcar" => ready[p] = <<>>
      PROVE  Despierto(p)'
  <2> HIDE DEF PorDespertar, PorDesmarcar
  <2> QED
    BY <1>2, <1>3, <1>6 DEF Despierto
<1>7. CASE Recalcular(p)
  BY <1>6, <1>7 DEF Recalcular, varsPrograma, TypeOK
<1>8. CASE Replanificar(p)
  BY <1>5, <1>6, <1>8 DEF Replanificar, varsPrograma, TypeOK
<1>9. CASE CalcularCae(p)
  BY <1>5, <1>9 DEF CalcularCae
<1>10. CASE Desalojar(p) \/ Continuar(p) \/ QuedarSinHilos(p)
  BY <1>6, <1>10 DEF Desalojar, Continuar, QuedarSinHilos, Calcular,
     varsPrograma, TypeOK
<1>11. CASE DespacharSiguiente(p)
  BY <1>6, <1>11 DEF DespacharSiguiente, Despachar, Calcular, TypeOK
<1>12. CASE Marcar(p)
  <2>1. CASE /\ agenda[p] = "marcar" /\ agenda'[p] = "mutex"
             /\ estaBloqueado'[p] = TRUE /\ mutexLibre'[p] = mutexLibre[p]
    <3> HIDE DEF PorDespertar, PorDesmarcar
    <3> QED
      BY <1>2, <1>3, <2>1 DEF Despierto
  <2> QED
    BY <1>5, <1>12, <2>1 DEF Marcar, TypeOK
<1>13. CASE TomarMutex(p)
  <2>1. /\ agenda[p] = "mutex" /\ agenda'[p] = "retomar" /\ mutexLibre[p]
        /\ mutexLibre'[p] = FALSE /\ estaBloqueado'[p] = estaBloqueado[p]
    BY <1>13 DEF TomarMutex, TypeOK
  <2> HIDE DEF PorDespertar, PorDesmarcar
  <2> QED
    BY <1>2, <1>3, <2>1 DEF Despierto
<1>14. CASE Retomar(p)
  <2>1. CASE Despachar(p)
    <3>1. /\ agenda[p] = "retomar" /\ agenda'[p] = "no"
          /\ UNCHANGED <<mutexLibre, estaBloqueado>>
      BY <1>14, <2>1 DEF Retomar, Despachar, TypeOK
    <3> HIDE DEF PorDespertar, PorDesmarcar
    <3> QED
      BY <1>2, <3>1 DEF Despierto
  <2> QED
    BY <1>5, <1>14, <2>1 DEF Retomar
<1> QED
  BY <1>7, <1>8, <1>9, <1>10, <1>11, <1>12, <1>13, <1>14 DEF PasoAgenda

LEMMA DespiertoAviso ==
    ASSUME TypeOK, Lugares, Vida, [Next]_vars, NEW p \in Pids, Vivo(p),
           Despierto(p), Despertar \/ Desmarcar
    PROVE  Despierto(p)'
<1>1. UNCHANGED <<agenda, ready>>
  BY DEF Despertar, Desmarcar, varsReady
<1>2. CASE Despertar
  <2>1. PICK q \in Pids : q = conexion.hilo.pid
    BY <1>2 DEF Despertar, TypeOK, ConexionEnCurso, Hilo
  <2>2. /\ conexion.paso = "despertar" /\ conexion'.hilo = conexion.hilo
        /\ UNCHANGED estaBloqueado
    BY <1>2 DEF Despertar, TypeOK, Conexiones
  <2>3. \/ /\ estaBloqueado[q] /\ mutexLibre' = [mutexLibre EXCEPT ![q] = TRUE]
           /\ conexion'.paso = "desmarcar"
        \/ /\ ~estaBloqueado[q] /\ UNCHANGED mutexLibre
           /\ conexion'.paso = "descontar"
    BY <1>2, <2>1 DEF Despertar, TypeOK, Conexiones
  <2>4. CASE q = p
    <3>1. PorDespertar(p) /\ ~PorDesmarcar(p) /\ ~PorDespertar(p)'
      BY <2>1, <2>2, <2>3, <2>4 DEF PorDespertar, PorDesmarcar
    <3>2. CASE estaBloqueado[p]
      <4>1. PorDesmarcar(p)' /\ mutexLibre'[p] = TRUE
        BY <2>1, <2>2, <2>3, <2>4, <3>2 DEF PorDesmarcar, TypeOK
      <4> HIDE DEF PorDespertar, PorDesmarcar
      <4> QED
        BY <1>1, <2>2, <3>1, <3>2, <4>1 DEF Despierto
    <3>3. CASE ~estaBloqueado[p]
      <4>1. ~PorDesmarcar(p)' /\ UNCHANGED mutexLibre
        BY <2>3, <2>4, <3>3 DEF PorDesmarcar
      <4> HIDE DEF PorDespertar, PorDesmarcar
      <4> QED
        BY <1>1, <2>2, <3>1, <3>3, <4>1 DEF Despierto
    <3> QED
      BY <3>2, <3>3
  <2>5. CASE q # p
    <3>1. /\ ~PorDespertar(p) /\ ~PorDesmarcar(p)
          /\ ~PorDespertar(p)' /\ ~PorDesmarcar(p)'
      BY <2>1, <2>2, <2>5 DEF PorDespertar, PorDesmarcar
    <3>2. mutexLibre'[p] = mutexLibre[p]
      BY <2>3, <2>5 DEF TypeOK
    <3> HIDE DEF PorDespertar, PorDesmarcar
    <3> QED
      BY <1>1, <2>2, <3>1, <3>2 DEF Despierto
  <2> QED
    BY <2>4, <2>5
<1>3. CASE Desmarcar
  <2>1. PICK q \in Pids : q = conexion.hilo.pid
    BY <1>3 DEF Desmarcar, TypeOK, ConexionEnCurso, Hilo
  <2>2. /\ conexion.paso = "desmarcar" /\ conexion'.paso = "descontar"
        /\ UNCHANGED mutexLibre
        /\ estaBloqueado' = [estaBloqueado EXCEPT ![q] = FALSE]
    BY <1>3, <2>1 DEF Desmarcar, Desmarca, TypeOK, Conexiones
  <2>3. ~PorDespertar(p)' /\ ~PorDesmarcar(p)'
    BY <2>2 DEF PorDespertar, PorDesmarcar
  <2>4. CASE q = p
    <3>1. estaBloqueado'[p] = FALSE
      BY <2>2, <2>4 DEF TypeOK
    <3> HIDE DEF PorDespertar, PorDesmarcar
    <3> QED
      BY <1>1, <2>2, <2>3, <3>1 DEF Despierto
  <2>5. CASE q # p
    <3>1. ~PorDespertar(p) /\ ~PorDesmarcar(p)
      BY <2>1, <2>2, <2>5 DEF PorDespertar, PorDesmarcar
    <3>2. estaBloqueado'[p] = estaBloqueado[p]
      BY <2>2, <2>5 DEF TypeOK
    <3> HIDE DEF PorDespertar, PorDesmarcar
    <3> QED
      BY <1>1, <2>2, <2>3, <3>1, <3>2 DEF Despierto
  <2> QED
    BY <2>4, <2>5
<1> QED
  BY <1>2, <1>3

LEMMA DespiertoSenal ==
    ASSUME TypeOK, Lugares, Vida, [Next]_vars, NEW p \in Pids, Vivo(p),
           Despierto(p), conexion = EnSelect, UNCHANGED agenda,
           UNCHANGED <<mutexLibre[p], estaBloqueado[p]>>,
           NEW s \in Sems, Despierta(s), conexion'.paso = "despertar",
           conexion'.hilo = Head(cola[s])
    PROVE  Despierto(p)'
<1>1. ~PorDespertar(p) /\ ~PorDesmarcar(p) /\ ~PorDesmarcar(p)'
  BY DEF PorDespertar, PorDesmarcar, EnSelect
<1>2. ready[p] # <<>> /\ agenda[p] # "no" => ready'[p] # <<>>
  BY ReadySeVacia
<1>3. ASSUME PorDespertar(p)' PROVE ready'[p] # <<>>
  <2>1. PICK h \in Hilo : h = Head(cola[s]) /\ Llega(h, "Blocked")
    BY Cabezas DEF Despierta
  <2>2. h.pid = p /\ transicion[h] = "Blocked"
    BY <1>3, <2>1 DEF PorDespertar, Llega, Cambia
  <2>3. p \in listas
    BY <2>2 DEF Vida, ListaDeVivos
  <2>4. ready'[p] = Append(ready[p], h) /\ ready[p] \in Seq(Hilo)
    BY <2>1, <2>2, <2>3 DEF Llega, TypeOK
  <2> QED
    BY <2>4, LargoAppend
<1> HIDE DEF PorDespertar, PorDesmarcar
<1> QED
  BY <1>1, <1>2, <1>3 DEF Despierto

LEMMA DespiertosPaso ==
    ASSUME TypeOK, Lugares, Vida, Despiertos, [Next]_vars
    PROVE  Despiertos'
<1> SUFFICES ASSUME NEW p \in Pids, Vivo(p)' PROVE Despierto(p)'
  BY DEF Despiertos
<1>1. Vivo(p) /\ Despierto(p)
  BY VivoSigue DEF Despiertos
<1>2. ASSUME UNCHANGED <<mutexLibre[p], estaBloqueado[p]>>,
             conexion = EnSelect, conexion' = EnSelect, agenda[p] = "no",
             agenda'[p] = "recalcular"
      PROVE  Despierto(p)'
  BY <1>1, <1>2 DEF Despierto, PorDespertar, PorDesmarcar, EnSelect
<1> QED
  BY <1>1, <1>2, PasoAviso, SigueDespierto, DespiertoSenal, DespiertoAviso,
     DespiertoAgenda DEF AvisoCambia

LEMMA DespiertosSiempre == Spec => []Despiertos
<1>1. Init => Despiertos
  BY DEF Init, Despiertos, Despierto, PorDespertar, PorDesmarcar, EnSelect
<1>2. TypeOK /\ Lugares /\ Vida /\ Despiertos /\ [Next]_vars => Despiertos'
  BY DespiertosPaso
<1> QED
  BY <1>1, <1>2, TipoCorrecto, LugaresSiempre, VidaSiempre, PTL DEF Spec

(* A wake-up is not spent in vain: when mutexProgama of a connected        *)
(* program is unlocked, its schedule_next waits for it and will find a     *)
(* hilo in ready, although the signal, the mark and the sleep are sections *)
(* of two threads.                                                         *)
THEOREM DespertarSirve == Spec => []DespertarUtil
<1>1. Despiertos => DespertarUtil
  BY DEF Despiertos, Despierto, DespertarUtil, Vivo
<1> QED
  BY <1>1, DespiertosSiempre, PTL

(* estaBloqueado of a connected program never outlives its sleep, but      *)
(* between the unlock and the line that clears the mark.                   *)
THEOREM MarcaSiempreFresca == Spec => []MarcaFresca
<1>1. Despiertos => MarcaFresca
  BY DEF Despiertos, Despierto, MarcaFresca, PorDesmarcar, Vivo
<1> QED
  BY <1>1, DespiertosSiempre, PTL
=============================================================================
