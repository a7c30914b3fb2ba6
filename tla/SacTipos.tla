----------------------------- MODULE SacTipos --------------------------------
(***************************************************************************)
(* The file server, proved for any number of clients, any disk and any     *)
(* requests.  First superLockeador: what o_truncate's second wrlock leaves *)
(* behind is the only way a thread of the server ends a step with the lock.*)
(* Then the types: blocks, look-ups and what each thread is doing.         *)
(***************************************************************************)
EXTENDS SacProps, WellFoundedInduction, FiniteSetTheorems, SequenceTheorems, TLAPS

-----------------------------------------------------------------------------
(* superLockeador.                                                         *)
Campos == {"paso", "pedido", "camino", "nodo", "viejo", "tam", "pila"}

(* What a thread is doing: the step "truncate" is reached from a request   *)
(* to truncate and from no other.                                          *)
Coherente(h) ==
    /\ h = [x \in Campos |-> h[x]]
    /\ h.paso = "truncate" => h.pedido.op = "truncate"

HilosCoherentes ==
    /\ hilo = [c \in Clientes |-> hilo[c]]
    /\ \A c \in Clientes : Coherente(hilo[c])

(* A step of c: it goes on coherently, and takes the lock with it only     *)
(* when it ends a truncate.                                                *)
PasoDe(c) ==
    /\ \E h : Coherente(h) /\ hilo' = [hilo EXCEPT ![c] = h]
    /\ \/ duenio' \in {duenio, Nadie}
       \/ duenio' = c /\ hilo[c].pedido.op = "truncate" /\ hilo' = [hilo EXCEPT ![c] = Ocioso]

-----------------------------------------------------------------------------
LEMMA OciosoCoherente == Coherente(Ocioso)
BY DEF Coherente, Ocioso, Campos

(* Answering ends the request; what is left of the lock is as it was or    *)
(* free.                                                                   *)
LEMMA AlResponder ==
    ASSUME NEW c \in Clientes, NEW n, Responde(c, n), duenio' \in {duenio, Nadie}
    PROVE  PasoDe(c)
BY OciosoCoherente DEF Responde, PasoDe

LEMMA AlQuedarse ==
    ASSUME NEW c \in Clientes, HilosCoherentes, hilo' = hilo, duenio' \in {duenio, Nadie}
    PROVE  PasoDe(c)
<1>1. hilo' = [hilo EXCEPT ![c] = hilo[c]]
  BY DEF HilosCoherentes
<1> QED
  BY <1>1 DEF HilosCoherentes, PasoDe

(* Whatever fields change, the thread goes on to a step that is not        *)
(* "truncate", or stays at the one it was with the same request.           *)
LEMMA AlSeguir ==
    ASSUME NEW c \in Clientes, HilosCoherentes, NEW h,
           h = [x \in Campos |-> h[x]],
           \/ h.paso # "truncate"
           \/ h.paso = hilo[c].paso /\ h.pedido = hilo[c].pedido,
           hilo' = [hilo EXCEPT ![c] = h],
           duenio' \in {duenio, Nadie}
    PROVE  PasoDe(c)
<1>1. Coherente(h)
  BY DEF HilosCoherentes, Coherente
<1> QED
  BY <1>1 DEF PasoDe

LEMMA AlIrA ==
    ASSUME NEW c \in Clientes, HilosCoherentes, NEW paso, paso # "truncate",
           Sigue(c, paso), duenio' \in {duenio, Nadie}
    PROVE  PasoDe(c)
<1> DEFINE h == [hilo[c] EXCEPT !.paso = paso]
<1>1. hilo' = [hilo EXCEPT ![c] = h]
  BY DEF Sigue, HilosCoherentes
<1>2. h = [x \in Campos |-> h[x]] /\ h.paso = paso
  BY DEF HilosCoherentes, Coherente, Campos
<1> HIDE DEF h
<1> QED
  BY <1>1, <1>2, AlSeguir

LEMMA AlBuscar ==
    ASSUME NEW c \in Clientes, HilosCoherentes, NEW ruta, NEW paso, paso # "truncate",
           Busca(c, ruta, paso), duenio' \in {duenio, Nadie}
    PROVE  PasoDe(c)
<1> DEFINE h == [hilo[c] EXCEPT !.paso = paso, !.camino = ruta, !.nodo = 0]
<1>1. hilo' = [hilo EXCEPT ![c] = h]
  BY DEF Busca, HilosCoherentes
<1>2. h = [x \in Campos |-> h[x]] /\ h.paso = paso
  BY DEF HilosCoherentes, Coherente, Campos
<1> HIDE DEF h
<1> QED
  BY <1>1, <1>2, AlSeguir

LEMMA AlApilar ==
    ASSUME NEW c \in Clientes, HilosCoherentes, NEW pila, NEW paso, paso # "truncate",
           Apila(c, pila, paso), duenio' \in {duenio, Nadie}
    PROVE  PasoDe(c)
<1> DEFINE h == [hilo[c] EXCEPT !.pila = pila, !.paso = paso]
<1>1. hilo' = [hilo EXCEPT ![c] = h]
  BY DEF Apila, HilosCoherentes
<1>2. h = [x \in Campos |-> h[x]] /\ h.paso = paso
  BY DEF HilosCoherentes, Coherente, Campos
<1> HIDE DEF h
<1> QED
  BY <1>1, <1>2, AlSeguir

-----------------------------------------------------------------------------
(* Each action of a thread of the server.                                  *)
LEMMA PasoTomar ==
    ASSUME NEW c \in Clientes, HilosCoherentes, Tomar(c)
    PROVE  PasoDe(c)
<1> DEFINE p == Head(cola[c])
           h == [Ocioso EXCEPT !.pedido = p, !.paso = PrimerPaso(p.op),
                   !.camino = IF p.op = "truncate" /\ p.n < 0 THEN <<>> ELSE p.ruta]
<1>1. hilo' = [hilo EXCEPT ![c] = h] /\ duenio' = duenio
  BY DEF Tomar
<1>2. h = [x \in Campos |-> h[x]] /\ h.pedido = p /\ h.paso = PrimerPaso(p.op)
  BY DEF Ocioso, Campos
<1>3. PrimerPaso(p.op) = "truncate" => p.op = "truncate"
  BY DEF PrimerPaso
<1>4. Coherente(h)
  BY <1>2, <1>3 DEF Coherente
<1> HIDE DEF h
<1> QED
  BY <1>1, <1>4 DEF PasoDe

LEMMA PasoBajar ==
    ASSUME NEW c \in Clientes, HilosCoherentes, Bajar(c)
    PROVE  PasoDe(c)
<1> DEFINE h == [hilo[c] EXCEPT !.nodo = Hijo(@, Head(hilo[c].camino)),
                                !.camino = Tail(@)]
<1>1. hilo' = [hilo EXCEPT ![c] = h] /\ duenio' = Nadie
  BY DEF Bajar, HilosCoherentes, Suelta
<1>2. /\ h = [x \in Campos |-> h[x]]
      /\ h.paso = hilo[c].paso /\ h.pedido = hilo[c].pedido
  BY DEF HilosCoherentes, Coherente, Campos
<1> HIDE DEF h
<1> QED
  BY <1>1, <1>2, AlSeguir

LEMMA PasoCrear ==
    ASSUME NEW c \in Clientes, HilosCoherentes, Crear(c)
    PROVE  PasoDe(c)
<1>1. CASE YaExiste(c)
  BY <1>1, AlResponder DEF YaExiste
<1>2. CASE BuscarMadre(c)
  BY <1>2, AlBuscar DEF BuscarMadre
<1>3. CASE SinMadre(c)
  BY <1>3, AlResponder DEF SinMadre
<1>4. CASE TablaLlena(c)
  BY <1>4, AlResponder DEF TablaLlena, Suelta
<1>5. CASE CrearArchivo(c)
  <2> DEFINE n == Min(EntradasLibres)
             r == ConBloque(TomarYAgregar(Archivo(n, Last(Pedido(c).ruta), Nodo(c)), disco),
                            disco)
  <2>1. Cae(r.fin) \/ (duenio' = Nadie /\ Responde(c, 1))
    BY <1>5 DEF CrearArchivo, Suelta
  <2> QED
    BY <2>1, AlResponder, AlQuedarse DEF Cae
<1>6. CASE CrearDirectorio(c)
  BY <1>6, AlResponder DEF CrearDirectorio, Suelta
<1> QED
  BY <1>1, <1>2, <1>3, <1>4, <1>5, <1>6 DEF Crear

LEMMA PasoConsultar ==
    ASSUME NEW c \in Clientes, HilosCoherentes, Consultar(c)
    PROVE  PasoDe(c)
<1>1. CASE Atributos(c)
  BY <1>1, AlResponder DEF Atributos, Suelta
<1>2. CASE SinDirectorio(c)
  BY <1>2, AlIrA DEF SinDirectorio
<1>3. CASE Listar(c)
  BY <1>3, AlResponder DEF Listar, Suelta
<1>4. CASE Leer(c)
  BY <1>4, AlResponder DEF Leer, Suelta
<1> QED
  BY <1>1, <1>2, <1>3, <1>4 DEF Consultar

(* o_truncate is the one that keeps the lock.                              *)
LEMMA PasoTruncar ==
    ASSUME NEW c \in Clientes, HilosCoherentes, Truncar(c)
    PROVE  PasoDe(c)
<1>1. hilo[c].paso = "truncate" /\ hilo[c].pedido.op = "truncate"
  BY DEF Truncar, En, HilosCoherentes, Coherente
<1> DEFINE n == Nodo(c)
           tam == Pedido(c).n
           hasta == tam \div TB
           r == IF tam > tabla[n].tam
                THEN DarleEspacio(tabla[n], disco, tam - tabla[n].tam)
                ELSE EliminarNodos(tabla[n], disco, ModoTras(hasta), hasta)
<1>2. Cae(r.fin) \/ (duenio' = c /\ Responde(c, 1))
  BY DEF Truncar
<1>3. (hilo' = hilo /\ duenio' = duenio) \/ (duenio' = c /\ Responde(c, 1))
  BY <1>2 DEF Cae
<1>4. CASE hilo' = hilo /\ duenio' = duenio
  BY <1>4, AlQuedarse
<1>5. CASE duenio' = c /\ Responde(c, 1)
  BY <1>1, <1>5, OciosoCoherente DEF PasoDe, Responde
<1> QED
  BY <1>3, <1>4, <1>5

LEMMA PasoCambiar ==
    ASSUME NEW c \in Clientes, HilosCoherentes, Cambiar(c)
    PROVE  PasoDe(c)
<1>1. CASE LeerTam(c)
  <2> DEFINE h == [hilo[c] EXCEPT !.tam = tabla[Nodo(c)].tam, !.paso = "escribir"]
  <2>1. hilo' = [hilo EXCEPT ![c] = h] /\ duenio' = duenio
    BY <1>1 DEF LeerTam, HilosCoherentes
  <2>2. h = [x \in Campos |-> h[x]] /\ h.paso = "escribir"
    BY DEF HilosCoherentes, Coherente, Campos
  <2> HIDE DEF h
  <2> QED
    BY <2>1, <2>2, AlSeguir
<1>2. CASE EscribirSinArchivo(c)
  BY <1>2, AlQuedarse DEF EscribirSinArchivo, Cae
<1>3. CASE Escribir(c)
  <2> DEFINE r == Escribe(tabla[Nodo(c)], disco, hilo[c].tam, Pedido(c).off, Pedido(c).n)
  <2>1. Cae(r.fin) \/ (duenio' = Nadie /\ Responde(c, 1))
    BY <1>3 DEF Escribir, Suelta
  <2> QED
    BY <2>1, AlQuedarse, AlResponder DEF Cae
<1>4. CASE NoTrunca(c)
  BY <1>4, AlResponder DEF NoTrunca
<1>5. CASE Truncar(c)
  BY <1>5, PasoTruncar
<1> QED
  BY <1>1, <1>2, <1>3, <1>4, <1>5 DEF Cambiar

LEMMA PasoDesligar ==
    ASSUME NEW c \in Clientes, HilosCoherentes, Desligar(c)
    PROVE  PasoDe(c)
<1>1. CASE SubirModo(c)
  BY <1>1, AlIrA DEF SubirModo
<1>2. CASE BorrarBloques(c)
  <2>1. \/ hilo' = hilo /\ duenio' = duenio
        \/ duenio' = Nadie /\ Sigue(c, "bajarModo")
    BY <1>2 DEF BorrarBloques, Cae, Suelta
  <2> QED
    BY <2>1, AlQuedarse, AlIrA
<1>3. CASE BorrarFuera(c)
  <2>1. \/ hilo' = hilo /\ duenio' = duenio
        \/ duenio' = Nadie /\ Sigue(c, "bajarModo")
    BY <1>3 DEF BorrarFuera, Cae, Suelta
  <2> QED
    BY <2>1, AlQuedarse, AlIrA
<1>4. CASE BajarModo(c)
  BY <1>4, AlBuscar DEF BajarModo
<1>5. CASE NadaQueQuitar(c)
  BY <1>5, AlResponder DEF NadaQueQuitar
<1>6. CASE Quitar(c)
  BY <1>6, AlResponder DEF Quitar, Suelta
<1> QED
  BY <1>1, <1>2, <1>3, <1>4, <1>5, <1>6 DEF Desligar

LEMMA PasoRenombrar ==
    ASSUME NEW c \in Clientes, HilosCoherentes, Renombrar(c)
    PROVE  PasoDe(c)
<1>1. CASE SinViejo(c)
  BY <1>1, AlResponder DEF SinViejo
<1>2. CASE BuscarViejo(c)
  BY <1>2, AlBuscar DEF BuscarViejo
<1>3. CASE BuscarDestino(c)
  <2> DEFINE h == [hilo[c] EXCEPT !.paso = "mover", !.viejo = Nodo(c),
                                  !.camino = Front(Pedido(c).ruta2), !.nodo = 0]
  <2>1. hilo' = [hilo EXCEPT ![c] = h] /\ duenio' = duenio
    BY <1>3 DEF BuscarDestino, HilosCoherentes
  <2>2. h = [x \in Campos |-> h[x]] /\ h.paso = "mover"
    BY DEF HilosCoherentes, Coherente, Campos
  <2> HIDE DEF h
  <2> QED
    BY <2>1, <2>2, AlSeguir
<1>4. CASE Mover(c)
  BY <1>4, AlResponder DEF Mover, Suelta
<1>5. CASE MoverFuera(c)
  <2>1. (hilo' = hilo /\ duenio' = duenio) \/ (duenio' = Nadie /\ Responde(c, 1))
    BY <1>5 DEF MoverFuera, Cae, Suelta
  <2> QED
    BY <2>1, AlQuedarse, AlResponder
<1> QED
  BY <1>1, <1>2, <1>3, <1>4, <1>5 DEF Renombrar

LEMMA PasoBorrarCarpeta ==
    ASSUME NEW c \in Clientes, HilosCoherentes, BorrarCarpeta(c)
    PROVE  PasoDe(c)
<1>1. CASE SinCarpeta(c)
  BY <1>1, AlResponder DEF SinCarpeta
<1>2. CASE Vaciar(c)
  BY <1>2, AlApilar DEF Vaciar
<1>3. CASE Saltear(c)
  BY <1>3, AlApilar DEF Saltear
<1>4. CASE MirarArchivo(c)
  BY <1>4, AlIrA DEF MirarArchivo
<1>5. CASE BorrarArchivo(c)
  <2> DEFINE r == EliminarNodos(tabla[Cima(c).i - 1], disco, modo, 0)
  <2>1. Cae(r.fin) \/ (duenio' = Nadie /\ Sigue(c, "revisar"))
    BY <1>5 DEF BorrarArchivo, Suelta
  <2> QED
    BY <2>1, AlQuedarse, AlIrA DEF Cae
<1>6. CASE BorrarPrimero(c)
  <2>1. \/ hilo' = hilo /\ duenio' = duenio
        \/ duenio' = Nadie /\ Sigue(c, "revisar")
    BY <1>6 DEF BorrarPrimero, Cae, Suelta
  <2> QED
    BY <2>1, AlQuedarse, AlIrA
<1>7. CASE Revisar(c)
  BY <1>7, AlApilar DEF Revisar
<1>8. CASE MirarDirectorio(c)
  BY <1>8, AlApilar DEF MirarDirectorio
<1>9. CASE CerrarDirectorio(c)
  <2>1. duenio' = Nadie
    BY <1>9 DEF CerrarDirectorio, Suelta
  <2>2. \/ Responde(c, 1)
        \/ Apila(c, [Tail(hilo[c].pila) EXCEPT ![1].i = @ + 1], "mirar")
    BY <1>9 DEF CerrarDirectorio
  <2> QED
    BY <2>1, <2>2, AlResponder, AlApilar
<1> QED
  BY <1>1, <1>2, <1>3, <1>4, <1>5, <1>6, <1>7, <1>8, <1>9 DEF BorrarCarpeta

LEMMA PasoServidor ==
    ASSUME NEW c \in Clientes, HilosCoherentes, Servidor(c)
    PROVE  PasoDe(c)
BY PasoTomar, PasoBajar, PasoCrear, PasoConsultar, PasoCambiar, PasoDesligar,
   PasoRenombrar, PasoBorrarCarpeta DEF Servidor

-----------------------------------------------------------------------------
(* The clients: only one that unmounts ends its thread of the server.      *)
LEMMA PasoCliente ==
    ASSUME NEW c \in Clientes, HilosCoherentes, Cliente(c)
    PROVE  \E d \in Clientes : PasoDe(d)
<1>1. CASE Pide(c) \/ Lee(c) \/ Desmonta(c)
  BY <1>1, AlQuedarse DEF Pide, Lee, Desmonta, vars
<1>2. CASE Cierra(c)
  <2> DEFINE h == [hilo[c] EXCEPT !.paso = "fin"]
  <2>1. hilo' = [hilo EXCEPT ![c] = h] /\ duenio' = duenio
    BY <1>2 DEF Cierra, HilosCoherentes
  <2>2. h = [x \in Campos |-> h[x]] /\ h.paso = "fin"
    BY DEF HilosCoherentes, Coherente, Campos
  <2> HIDE DEF h
  <2> QED
    BY <2>1, <2>2, AlSeguir
<1> QED
  BY <1>1, <1>2 DEF Cliente

LEMMA PasoSistema ==
    ASSUME HilosCoherentes, NextSistema
    PROVE  \E c \in Clientes : PasoDe(c)
BY PasoCliente, PasoServidor DEF NextSistema

LEMMA CoherenteInit == InitSistema => HilosCoherentes
BY OciosoCoherente DEF InitSistema, Init, HilosCoherentes

LEMMA CoherentePaso ==
    ASSUME HilosCoherentes, [NextSistema]_varsSistema
    PROVE  HilosCoherentes'
<1>1. CASE NextSistema
  <2> PICK c \in Clientes : PasoDe(c)
    BY <1>1, PasoSistema
  <2> PICK h : Coherente(h) /\ hilo' = [hilo EXCEPT ![c] = h]
    BY DEF PasoDe
  <2> QED
    BY DEF HilosCoherentes
<1>2. CASE UNCHANGED varsSistema
  BY <1>2 DEF varsSistema, vars, HilosCoherentes
<1> QED
  BY <1>1, <1>2

LEMMA RetienePaso ==
    ASSUME HilosCoherentes, [NextSistema]_varsSistema,
           duenio' # duenio, duenio' # Nadie
    PROVE  hilo[duenio'].pedido.op = "truncate" /\ hilo'[duenio'].paso = "libre"
<1>1. CASE NextSistema
  <2> PICK c \in Clientes : PasoDe(c)
    BY <1>1, PasoSistema
  <2>1. /\ duenio' = c /\ hilo[c].pedido.op = "truncate"
        /\ hilo' = [hilo EXCEPT ![c] = Ocioso]
    BY DEF PasoDe
  <2>2. hilo'[c] = Ocioso
    BY <2>1 DEF HilosCoherentes
  <2> QED
    BY <2>1, <2>2 DEF Ocioso
<1>2. CASE UNCHANGED varsSistema
  BY <1>2 DEF varsSistema, vars
<1> QED
  BY <1>1, <1>2

(* With any clients, disk and requests, a thread of the server that ends a *)
(* step with the lock has just answered a truncate: every other operation  *)
(* of operaciones.c releases what it takes on every way out.               *)
THEOREM CandadoSiempre == SpecSistema => SoloTruncarRetiene
<1>1. InitSistema => HilosCoherentes
  BY CoherenteInit
<1>2. HilosCoherentes /\ [NextSistema]_varsSistema => HilosCoherentes'
  BY CoherentePaso
<1>3. HilosCoherentes /\ [NextSistema]_varsSistema =>
        [duenio' # duenio /\ duenio' # Nadie =>
           hilo[duenio'].pedido.op = "truncate" /\ hilo'[duenio'].paso = "libre"]_varsSistema
  BY RetienePaso
<1> QED
  BY <1>1, <1>2, <1>3, PTL DEF SpecSistema, SoloTruncarRetiene

-----------------------------------------------------------------------------
(* Types.                                                                  *)

(* Induction over the naturals, for the sets of those of which something   *)
(* holds.                                                                  *)
Precede == OpToRel(<, Nat)

LEMMA PrecedeEsMenor == \A x, y \in Nat : <<y, x>> \notin Precede => x <= y
<1> SUFFICES ASSUME NEW x \in Nat, NEW y \in Nat, ~(x <= y) PROVE <<y, x>> \in Precede
  OBVIOUS
<1>1. y < x
  OBVIOUS
<1> QED
  BY <1>1 DEF Precede, OpToRel

LEMMA HayMenor ==
    ASSUME NEW S, S \subseteq Nat, S # {}
    PROVE  \E x \in S : \A y \in S : x <= y
<1>1. \E x \in S : \A y \in S : <<y, x>> \notin Precede
  BY NatLessThanWellFounded, WFMin DEF Precede
<1> QED
  BY <1>1, PrecedeEsMenor, Zenon

LEMMA MinDeNaturales ==
    ASSUME NEW S, S \subseteq Nat, S # {}
    PROVE  Min(S) \in S /\ \A y \in S : Min(S) <= y
BY HayMenor, Zenon DEF Min

LEMMA Induccion ==
    ASSUME NEW S, 0 \in S, \A k \in S \cap Nat : k + 1 \in S
    PROVE  Nat \subseteq S
<1> DEFINE T == Nat \ S
<1>1. SUFFICES ASSUME T # {} PROVE FALSE
  OBVIOUS
<1>2. PICK x \in T : \A y \in T : x <= y
  BY <1>1, HayMenor
<1>3. x \in Nat \ {0} /\ x - 1 \in Nat
  OBVIOUS
<1>4. x - 1 \in S
  BY <1>2, <1>3
<1>5. (x - 1) + 1 \in S
  BY <1>3, <1>4
<1>6. (x - 1) + 1 = x
  OBVIOUS
<1> QED
  BY <1>5, <1>6

LEMMA InduccionHasta ==
    ASSUME NEW n \in Nat, NEW S, 0 \in S, \A k \in 0..n - 1 : k \in S => k + 1 \in S
    PROVE  0..n \subseteq S
<1> DEFINE T == {k \in Nat : k > n \/ k \in S}
<1>1. 0 \in T
  OBVIOUS
<1>2. \A k \in T \cap Nat : k + 1 \in T
  <2> SUFFICES ASSUME NEW k \in Nat, k \in T PROVE k + 1 \in T
    OBVIOUS
  <2>1. CASE k >= n
    BY <2>1
  <2>2. CASE k < n
    <3>1. k \in 0..n - 1 /\ k \in S
      BY <2>2
    <3> QED
      BY <3>1
  <2> QED
    BY <2>1, <2>2
<1>3. Nat \subseteq T
  BY <1>1, <1>2, Induccion
<1> QED
  BY <1>3

(* A function on 0..n given by its first value and by each next one from   *)
(* the one before exists: what a recursive definition over it chooses.     *)
Recurre(z, a, G, n) ==
    z = [i \in 0..n |-> IF i = 0 THEN a ELSE G[<<z[i - 1], i>>]]

LEMMA HayRecursiva ==
    ASSUME NEW S, NEW a \in S, NEW G \in [S \X Nat -> S], NEW n \in Nat
    PROVE  \E z \in [0..n -> S] : Recurre(z, a, G, n)
<1> DEFINE Es(k, z) == /\ z[0] = a
                       /\ \A i \in 1..k : z[i] = G[<<z[i - 1], i>>]
           T == {k \in Nat : \E z \in [0..k -> S] : Es(k, z)}
<1>1. 0 \in T
  <2>1. Es(0, [i \in 0..0 |-> a])
    OBVIOUS
  <2> QED
    BY <2>1
<1>2. \A k \in T \cap Nat : k + 1 \in T
  <2> SUFFICES ASSUME NEW k \in Nat, k \in T PROVE k + 1 \in T
    OBVIOUS
  <2>1. PICK z \in [0..k -> S] : Es(k, z)
    OBVIOUS
  <2> DEFINE y == [i \in 0..k + 1 |-> IF i = k + 1 THEN G[<<z[k], k + 1>>] ELSE z[i]]
  <2>2. z[k] \in S /\ <<z[k], k + 1>> \in S \X Nat
    OBVIOUS
  <2>3. y \in [0..k + 1 -> S]
    BY <2>2
  <2>4. \A i \in 0..k : y[i] = z[i]
    OBVIOUS
  <2>5. y[k + 1] = G[<<y[k], k + 1>>]
    <3>1. y[k] = z[k] /\ y[k + 1] = G[<<z[k], k + 1>>]
      OBVIOUS
    <3> HIDE DEF y
    <3> QED
      BY <3>1
  <2> HIDE DEF y
  <2>6. Es(k + 1, y)
    <3>1. y[0] = a
      BY <2>1, <2>4
    <3>2. ASSUME NEW i \in 1..k + 1 PROVE y[i] = G[<<y[i - 1], i>>]
      <4>1. CASE i = k + 1
        <5>1. i - 1 = k
          BY <4>1
        <5> QED
          BY <2>5, <4>1, <5>1
      <4>2. CASE i \in 1..k
        <5>1. i \in 0..k /\ i - 1 \in 0..k
          BY <4>2
        <5> QED
          BY <2>1, <2>4, <4>2, <5>1
      <4> QED
        BY <4>1, <4>2
    <3> QED
      BY <3>1, <3>2
  <2> QED
    BY <2>3, <2>6
<1>3. n \in T
  BY <1>1, <1>2, Induccion
<1>4. PICK z \in [0..n -> S] : Es(n, z)
  BY <1>3
<1>5. \A i \in 0..n : z[i] = IF i = 0 THEN a ELSE G[<<z[i - 1], i>>]
  BY <1>4
<1>6. z = [i \in 0..n |-> IF i = 0 THEN a ELSE G[<<z[i - 1], i>>]]
  BY <1>5
<1> QED
  BY <1>6 DEF Recurre

LEMMA MaxDeDos ==
    ASSUME NEW a \in Int, NEW b \in Int
    PROVE  Max({a, b}) = IF a >= b THEN a ELSE b
<1>1. \E x \in {a, b} : \A y \in {a, b} : x >= y
  OBVIOUS
<1>2. Max({a, b}) \in {a, b} /\ \A y \in {a, b} : Max({a, b}) >= y
  BY <1>1, Zenon DEF Max
<1> QED
  BY <1>2

LEMMA MinDeDos ==
    ASSUME NEW a \in Int, NEW b \in Int
    PROVE  Min({a, b}) = IF a <= b THEN a ELSE b
<1>1. \E x \in {a, b} : \A y \in {a, b} : x <= y
  OBVIOUS
<1>2. Min({a, b}) \in {a, b} /\ \A y \in {a, b} : Min({a, b}) <= y
  BY <1>1, Zenon DEF Min
<1> QED
  BY <1>2

-----------------------------------------------------------------------------
(* The disk: a bitmap, a count, and blocks that hold numbers of blocks of  *)
(* the data area, or what no block has for its number.                     *)
Contenido == {i \in Int : i \in Datos \/ i <= 0}
Disco ==
    [usados : SUBSET Datos, libres : 0..Cardinality(Datos),
     cont : [Datos -> [0..P - 1 -> Contenido]]]

(* What a function of SacBloques gives back.                               *)
Fines == Grave \cup {"ok", "sinEspacio", "sinLibres", "sigue"}
Resultado(r) == r.f \in Entrada /\ r.d \in Disco /\ r.fin \in Fines

LEMMA CardDatos == Cardinality(Datos) \in Nat
BY SacBloquesAssumption, FS_CardinalityType

LEMMA LibreEnDatos ==
    ASSUME NEW d \in Disco, d.usados # Datos
    PROVE  Libre(d) \in Datos /\ Libre(d) \notin d.usados
<1>1. Datos \ d.usados \subseteq Nat /\ Datos \ d.usados # {}
  BY SacBloquesAssumption DEF Disco
<1> QED
  BY <1>1, MinDeNaturales DEF Libre

LEMMA TomadoTipo ==
    ASSUME NEW d \in Disco, d.usados # Datos
    PROVE  Tomado(d) \in Disco /\ Tomado(d) = [d EXCEPT !.usados = d.usados \cup {Libre(d)}]
BY LibreEnDatos DEF Tomado, Disco

(* Fields of an entry and of the disk may be replaced one at a time.       *)
LEMMA EntradaCampos ==
    ASSUME NEW f \in Entrada
    PROVE  /\ f = [estado |-> f.estado, nombre |-> f.nombre, padre |-> f.padre,
                   tam |-> f.tam, ind |-> f.ind]
           /\ f.estado \in {"borrado", "ocupado", "directorio"}
           /\ f.nombre \in Nombres \cup {""} /\ f.padre \in Nodos \cup {0, NoHay}
           /\ f.tam \in Nat /\ f.ind \in [0..PB - 1 -> Datos \cup {Cabecera}]
BY DEF Entrada

LEMMA EntradaConInd ==
    ASSUME NEW f \in Entrada, NEW i \in [0..PB - 1 -> Datos \cup {Cabecera}]
    PROVE  [f EXCEPT !.ind = i] \in Entrada
BY DEF Entrada

LEMMA EntradaConTam ==
    ASSUME NEW f \in Entrada, NEW t \in Nat
    PROVE  [f EXCEPT !.tam = t] \in Entrada
BY DEF Entrada

LEMMA EntradaConEstado ==
    ASSUME NEW f \in Entrada, NEW x \in {"borrado", "ocupado", "directorio"}
    PROVE  [f EXCEPT !.estado = x] \in Entrada
BY DEF Entrada

LEMMA DiscoCampos ==
    ASSUME NEW d \in Disco
    PROVE  /\ d = [usados |-> d.usados, libres |-> d.libres, cont |-> d.cont]
           /\ d.usados \subseteq Datos /\ d.libres \in 0..Cardinality(Datos)
           /\ d.cont \in [Datos -> [0..P - 1 -> Contenido]]
BY DEF Disco

LEMMA DiscoConCont ==
    ASSUME NEW d \in Disco, NEW k \in [Datos -> [0..P - 1 -> Contenido]]
    PROVE  [d EXCEPT !.cont = k] \in Disco
BY DEF Disco

LEMMA CambiaBloque ==
    ASSUME NEW k \in [Datos -> [0..P - 1 -> Contenido]], NEW b,
           NEW v \in [0..P - 1 -> Contenido]
    PROVE  [k EXCEPT ![b] = v] \in [Datos -> [0..P - 1 -> Contenido]]
OBVIOUS

LEMMA CambiaNumero ==
    ASSUME NEW k \in [Datos -> [0..P - 1 -> Contenido]], NEW b, NEW i, NEW v \in Contenido
    PROVE  [k EXCEPT ![b][i] = v] \in [Datos -> [0..P - 1 -> Contenido]]
<1>1. [k EXCEPT ![b][i] = v] = [k EXCEPT ![b] = [k[b] EXCEPT ![i] = v]]
  OBVIOUS
<1>2. \A x \in Datos : [k[x] EXCEPT ![i] = v] \in [0..P - 1 -> Contenido]
  OBVIOUS
<1> QED
  BY <1>1, <1>2

LEMMA BloquesEscritos ==
    /\ Ceros \in [0..P - 1 -> Contenido]
    /\ \A b \in Datos : [Ceros EXCEPT ![0] = b] \in [0..P - 1 -> Contenido]
    /\ \A q \in Nat : Bytes(q) \in [0..P - 1 -> Contenido]
<1>1. 0 \in Contenido /\ Datos \subseteq Contenido
  BY SacBloquesAssumption DEF Contenido
<1>2. Ceros \in [0..P - 1 -> Contenido]
  BY <1>1 DEF Ceros
<1>3. \A b \in Datos : [Ceros EXCEPT ![0] = b] \in [0..P - 1 -> Contenido]
  BY <1>1, <1>2
<1>4. \A q \in Nat : -1 - q \in Contenido
  BY DEF Contenido
<1>5. \A q \in Nat : Bytes(q) \in [0..P - 1 -> Contenido]
  BY <1>4 DEF Bytes
<1> QED
  BY <1>2, <1>3, <1>5

-----------------------------------------------------------------------------
(* Taking a block.                                                         *)
LEMMA NuevoPunteroTipo ==
    ASSUME NEW f \in Entrada, NEW d \in Disco, NEW b \in Datos, d.usados # Datos
    PROVE  Resultado(NuevoPuntero(f, d, b))
<1> DEFINE nuevo == Libre(d)
           pe == Puntero(f.tam)
           i1 == [f.ind EXCEPT ![pe] = nuevo]
           i2 == [i1 EXCEPT ![pe + 1] = Cabecera]
           k == [d.cont EXCEPT ![nuevo] = [Ceros EXCEPT ![0] = b]]
           r == NuevoPuntero(f, d, b)
<1>1. nuevo \in Datos
  BY LibreEnDatos
<1>2. i2 \in [0..PB - 1 -> Datos \cup {Cabecera}]
  <2>1. i1 \in [0..PB - 1 -> Datos \cup {Cabecera}]
    BY <1>1, EntradaCampos
  <2> QED
    BY <2>1
<1>3. k \in [Datos -> [0..P - 1 -> Contenido]]
  BY DiscoCampos, BloquesEscritos, CambiaBloque
<1>4. r = Fin([f EXCEPT !.ind = i2], [Tomado(d) EXCEPT !.cont = k], "ok")
  <2>1. [f EXCEPT !.ind[pe] = nuevo, !.ind[pe + 1] = Cabecera] = [f EXCEPT !.ind = i2]
    BY EntradaCampos
  <2>2. [Tomado(d) EXCEPT !.cont[nuevo] = [Ceros EXCEPT ![0] = b]]
            = [Tomado(d) EXCEPT !.cont = k]
    BY TomadoTipo, DiscoCampos
  <2> QED
    BY <2>1, <2>2 DEF NuevoPuntero
<1>5. [Tomado(d) EXCEPT !.cont = k] \in Disco
  BY <1>3, TomadoTipo, DiscoConCont
<1> HIDE DEF k, i2
<1>6. r.f = [f EXCEPT !.ind = i2] /\ r.d = [Tomado(d) EXCEPT !.cont = k] /\ r.fin = "ok"
  BY <1>4 DEF Fin
<1>7. [f EXCEPT !.ind = i2] \in Entrada
  BY <1>2, EntradaConInd
<1> QED
  BY <1>5, <1>6, <1>7 DEF Resultado, Fines

LEMMA AgregarBloqueTipo ==
    ASSUME NEW f \in Entrada, NEW d \in Disco, NEW b \in Datos
    PROVE  Resultado(AgregarBloque(f, d, b))
<1> DEFINE pe == Puntero(f.tam)
           de == Posicion(f.tam)
           r == AgregarBloque(f, d, b)
           k == [d.cont EXCEPT ![f.ind[pe]][de] = b]
<1>1. k \in [Datos -> [0..P - 1 -> Contenido]]
  BY DiscoCampos, CambiaNumero, SacBloquesAssumption DEF Contenido
<1>2. [d EXCEPT !.cont[f.ind[pe]][de] = b] = [d EXCEPT !.cont = k]
  BY DiscoCampos
<1> HIDE DEF k
<1>3. \/ r = Fin(f, d, "sinEspacio") \/ r = Fin(f, d, "lleno") \/ r = Fin(f, d, "cabecera")
      \/ d.usados # Datos /\ r = NuevoPuntero(f, d, b)
      \/ r = Fin(f, [d EXCEPT !.cont = k], "ok")
  BY <1>2 DEF AgregarBloque
<1>4. [d EXCEPT !.cont = k] \in Disco
  BY <1>1, DiscoConCont
<1> QED
  BY <1>3, <1>4, NuevoPunteroTipo DEF Resultado, Fin, Fines, Grave

LEMMA TomarYAgregarTipo ==
    ASSUME NEW f \in Entrada, NEW d \in Disco
    PROVE  Resultado(TomarYAgregar(f, d))
<1>1. CASE d.usados = Datos
  BY <1>1 DEF TomarYAgregar, Fin, Resultado, Fines, Grave
<1>2. CASE d.usados # Datos
  BY <1>2, TomadoTipo, LibreEnDatos, AgregarBloqueTipo DEF TomarYAgregar
<1> QED
  BY <1>1, <1>2

-----------------------------------------------------------------------------
(* Freeing blocks.                                                         *)
LEMMA DivTipo ==
    ASSUME NEW a \in Nat, NEW b \in Nat \ {0}
    PROVE  a \div b \in Nat /\ a % b \in 0..b - 1 /\ a % b \in Nat
OBVIOUS

LEMMA UltimaTipo == \A t \in Nat : Ultima(t) \in Int /\ Ultima(t) >= -1
<1> SUFFICES ASSUME NEW t \in Nat PROVE Ultima(t) \in Int /\ Ultima(t) >= -1
  OBVIOUS
<1>1. t + TB - 1 \in Nat
  BY SacBloquesAssumption
<1>2. (t + TB - 1) \div TB \in Nat
  BY <1>1, DivTipo, SacBloquesAssumption
<1> QED
  BY <1>2 DEF Ultima

LEMMA SeBorranTipo ==
    ASSUME NEW f \in Entrada, NEW m, NEW hasta \in Nat
    PROVE  /\ IsFiniteSet(SeBorran(f, m, hasta)) /\ Cardinality(SeBorran(f, m, hasta)) \in Nat
           /\ SeBorran(f, m, hasta) \subseteq 0..Ultima(f.tam)
<1> DEFINE u == Ultima(f.tam)
           qs == SeBorran(f, m, hasta)
<1>1. u \in Int
  BY UltimaTipo, EntradaCampos
<1>2. qs \subseteq 0..u
  <2> DEFINE desde == IF u \div P < hasta \div P THEN 0 ELSE hasta + 1
  <2>1. desde \in Nat
    OBVIOUS
  <2>2. qs = IF m = 1 /\ hasta = 0 THEN 0..u ELSE {q \in desde..u : q % P # 0}
    BY DEF SeBorran
  <2> HIDE DEF desde, u, qs
  <2>3. desde..u \subseteq 0..u
    BY <1>1, <2>1
  <2> QED
    BY <2>2, <2>3
<1>3. IsFiniteSet(0..u)
  BY <1>1, FS_Interval
<1>4. IsFiniteSet(qs)
  BY <1>2, <1>3, FS_Subset
<1> QED
  BY <1>2, <1>4, FS_CardinalityType

LEMMA EliminarNodosTipo ==
    ASSUME NEW f \in Entrada, NEW d \in Disco, NEW m, NEW hasta \in Nat
    PROVE  Resultado(EliminarNodos(f, d, m, hasta))
<1> DEFINE qs == SeBorran(f, m, hasta)
           ps == PunterosQueSeBorran(f, m, hasta)
           bloques == {Numero(f, d, q) : q \in qs}
           punteros == {f.ind[p] : p \in ps \cup {q \div P : q \in qs}}
           liberados == bloques \cup {f.ind[p] : p \in ps}
           ind == [p \in DOMAIN f.ind |-> IF p \in ps THEN Cabecera ELSE f.ind[p]]
           libres == Min({d.libres + Cardinality(qs), Cardinality(Datos)})
           r == EliminarNodos(f, d, m, hasta)
<1>1. /\ r.f = [f EXCEPT !.ind = ind]
      /\ r.d = [d EXCEPT !.usados = d.usados \ liberados, !.libres = libres]
      /\ r.fin = IF Desborda(f, m, hasta) THEN "desborde"
                 ELSE IF Cabecera \in punteros THEN "cabecera"
                 ELSE IF \E b \in bloques : b < 0 THEN "basura" ELSE "ok"
  BY DiscoCampos DEF EliminarNodos
<1>2. ind \in [0..PB - 1 -> Datos \cup {Cabecera}]
  <2>1. f.ind \in [0..PB - 1 -> Datos \cup {Cabecera}]
    BY EntradaCampos
  <2> QED
    BY <2>1
<1>3. libres \in 0..Cardinality(Datos)
  <2>1. Cardinality(qs) \in Nat
    BY SeBorranTipo
  <2>2. d.libres \in 0..Cardinality(Datos)
    BY DiscoCampos
  <2> QED
    BY <2>1, <2>2, CardDatos, MinDeDos
<1> HIDE DEF ind, libres, liberados, bloques, punteros, ps, qs
<1>4. r.f \in Entrada
  BY <1>1, <1>2, EntradaConInd
<1>5. r.d \in Disco
  BY <1>1, <1>3 DEF Disco
<1> QED
  BY <1>1, <1>4, <1>5 DEF Resultado, Fines, Grave

-----------------------------------------------------------------------------
(* Making room: the rounds of darleEspacioNuevo are a function of their    *)
(* number.                                                                 *)
LEMMA RestoTipo == \A t \in Nat : Resto(t) \in 1..TB
<1> SUFFICES ASSUME NEW t \in Nat PROVE Resto(t) \in 1..TB
  OBVIOUS
<1>1. t % TB \in 0..TB - 1
  BY DivTipo, SacBloquesAssumption
<1> QED
  BY <1>1, SacBloquesAssumption DEF Resto

LEMMA VueltasTipo == \A t, n \in Nat : Vueltas(t, n) \in Nat
BY DivTipo, SacBloquesAssumption DEF Vueltas

(* One round of darleEspacioNuevo, from what the last one left.            *)
Agranda(f, x, i) ==
    IF x.fin \in Grave THEN x
    ELSE TomarYAgregar([x.f EXCEPT !.tam = f.tam + Resto(f.tam) + (i - 1) * TB], x.d)

Resultados == {r \in [f : Entrada, d : Disco, fin : Fines] : TRUE}

LEMMA EnResultados ==
    ASSUME NEW f \in Entrada, NEW d \in Disco, NEW fin \in Fines
    PROVE  Fin(f, d, fin) \in Resultados
BY DEF Fin, Resultados

LEMMA TomarYAgregarForma ==
    ASSUME NEW f \in Entrada, NEW d \in Disco
    PROVE  TomarYAgregar(f, d) \in Resultados
<1>1. TomarYAgregar(f, d) = Fin(TomarYAgregar(f, d).f, TomarYAgregar(f, d).d,
                                TomarYAgregar(f, d).fin)
  BY DEF TomarYAgregar, AgregarBloque, NuevoPuntero, Fin
<1> QED
  BY SMTT(60), <1>1, TomarYAgregarTipo, EnResultados DEF Resultado

LEMMA AgrandaTipo ==
    ASSUME NEW f \in Entrada, NEW x \in Resultados, NEW i \in Nat \ {0}
    PROVE  Agranda(f, x, i) \in Resultados
<1>1. x.f \in Entrada /\ x.d \in Disco
  BY DEF Resultados
<1>2. (i - 1) * TB \in Nat
  BY SacBloquesAssumption
<1>3. f.tam + Resto(f.tam) + (i - 1) * TB \in Nat
  <2>1. f.tam \in Nat
    BY EntradaCampos
  <2>2. Resto(f.tam) \in Nat
    BY <2>1, RestoTipo, SacBloquesAssumption
  <2> QED
    BY <1>2, <2>1, <2>2
<1>4. [x.f EXCEPT !.tam = f.tam + Resto(f.tam) + (i - 1) * TB] \in Entrada
  BY <1>1, <1>3, EntradaConTam
<1> QED
  BY <1>1, <1>4, TomarYAgregarForma DEF Agranda

LEMMA AgrandadosDef ==
    ASSUME NEW f \in Entrada, NEW d \in Disco, NEW size \in Nat
    PROVE  LET z == Agrandados(f, d, size)
               V == Vueltas(f.tam, size)
           IN  /\ z \in [0..V -> Resultados]
               /\ z[0] = Fin(f, d, "ok")
               /\ \A i \in 1..V : z[i] = Agranda(f, z[i - 1], i)
<1> DEFINE V == Vueltas(f.tam, size)
           a == Fin(f, d, "ok")
           S == Resultados
           Es(z) == z = [i \in 0..V |-> IF i = 0 THEN a ELSE Agranda(f, z[i - 1], i)]
           G == [q \in S \X Nat |-> IF q[2] = 0 THEN q[1] ELSE Agranda(f, q[1], q[2])]
           z == Agrandados(f, d, size)
<1>1. V \in Nat
  BY VueltasTipo, EntradaCampos
<1>2. a \in S
  BY EnResultados DEF Fines
<1>3. G \in [S \X Nat -> S]
  <2>1. \A q \in S \X Nat : q[2] # 0 => Agranda(f, q[1], q[2]) \in S
    BY AgrandaTipo
  <2> QED
    BY <2>1
<1>4. \A x \in S : \A i \in Nat \ {0} : G[<<x, i>>] = Agranda(f, x, i)
  OBVIOUS
<1>5. z = CHOOSE y : Es(y)
  BY DEF Agrandados, Agranda
<1> HIDE DEF V, a, S, G
<1>6. \E y : Es(y)
  <2>1. PICK y \in [0..V -> S] : Recurre(y, a, G, V)
    BY <1>1, <1>2, <1>3, HayRecursiva
  <2>2. \A i \in 0..V : i # 0 => i \in Nat \ {0} /\ i - 1 \in 0..V /\ y[i - 1] \in S
    BY <1>1
  <2>3. \A i \in 0..V : i # 0 => G[<<y[i - 1], i>>] = Agranda(f, y[i - 1], i)
    BY <1>4, <2>2
  <2>4. Es(y)
    BY <2>1, <2>3 DEF Recurre
  <2> QED
    BY <2>4
<1>7. Es(z)
  BY <1>5, <1>6
<1>8. z[0] = a /\ \A i \in 1..V : z[i] = Agranda(f, z[i - 1], i)
  BY <1>1, <1>7
<1>9. \A i \in 0..V : z[i] \in S
  <2> DEFINE T == {k \in Nat : z[k] \in S}
  <2>1. 0 \in T
    BY <1>2, <1>8
  <2>2. \A k \in 0..V - 1 : k \in T => k + 1 \in T
    <3> SUFFICES ASSUME NEW k \in 0..V - 1, k \in T PROVE k + 1 \in T
      OBVIOUS
    <3>1. k + 1 \in 1..V /\ k + 1 \in Nat \ {0} /\ (k + 1) - 1 = k
      BY <1>1
    <3>2. z[k + 1] = Agranda(f, z[k], k + 1)
      BY <1>8, <3>1
    <3>3. Agranda(f, z[k], k + 1) \in S
      BY <3>1, AgrandaTipo DEF S
    <3> QED
      BY <3>1, <3>2, <3>3
  <2> HIDE DEF z
  <2>3. 0..V \subseteq T
    BY <1>1, <2>1, <2>2, InduccionHasta
  <2> QED
    BY <2>3
<1>10. z \in [0..V -> S]
  BY <1>7, <1>9
<1> QED
  BY <1>8, <1>10 DEF V, a, S

LEMMA DarleEspacioTipo ==
    ASSUME NEW f \in Entrada, NEW d \in Disco, NEW size \in Nat
    PROVE  Resultado(DarleEspacio(f, d, size))
<1> DEFINE V == Vueltas(f.tam, size)
           x == Agrandados(f, d, size)[V]
<1>1. x \in Resultados
  <2>1. V \in Nat
    BY VueltasTipo, EntradaCampos
  <2> QED
    BY <2>1, AgrandadosDef
<1> HIDE DEF x
<1>2. DarleEspacio(f, d, size) \in
        {Fin(f, d, "sinEspacio"), Fin(f, d, "lleno"),
         Fin(x.f, x.d, IF x.fin \in Grave THEN x.fin ELSE "ok")}
  BY DEF DarleEspacio, x
<1> QED
  BY <1>1, <1>2 DEF Resultado, Resultados, Fin, Fines, Grave

-----------------------------------------------------------------------------
(* Writing: each round is typed as the one before.                         *)
(* What the two loops over the blocks of a file return is a file, a disk    *)
(* and how it ended, nothing else.                                         *)
LEMMA DarleEspacioPartes ==
    ASSUME NEW f, NEW d, NEW size
    PROVE  \E g, e, fin : DarleEspacio(f, d, size) = [f |-> g, d |-> e, fin |-> fin]
<1> DEFINE r == Resto(f.tam)
           z == Agrandados(f, d, size)[Vueltas(f.tam, size)]
           corto == size < r \/ d.libres * TB < size - r
           lleno == size >= r /\ d.libres * TB >= size - r /\ NoTermina(f.tam, size)
           res == CASE corto -> Fin(f, d, "sinEspacio")
                    [] lleno -> Fin(f, d, "lleno")
                    [] OTHER -> Fin(z.f, z.d, IF z.fin \in Grave THEN z.fin ELSE "ok")
<1>1. DarleEspacio(f, d, size) = res
  BY Zenon DEF DarleEspacio
<1> HIDE DEF r, z, corto, lleno
<1>2. \E g, e, fin : res = Fin(g, e, fin)
  BY SMTT(60)
<1> QED
  BY <1>1, <1>2, Zenon DEF Fin

LEMMA EliminarNodosPartes ==
    ASSUME NEW f, NEW d, NEW m, NEW hasta
    PROVE  \E g, e, fin : EliminarNodos(f, d, m, hasta) = [f |-> g, d |-> e, fin |-> fin]
BY ZenonT(60) DEF EliminarNodos

Escrituras == [f : Entrada, d : Disco, tam : Nat, off : Nat, n : Nat, fin : Fines]

LEMMA EspacioTipo == \A t \in Nat : EspacioEnBloque(t) \in 0..TB
<1> SUFFICES ASSUME NEW t \in Nat PROVE EspacioEnBloque(t) \in 0..TB
  OBVIOUS
<1>1. Resto(t) \in Nat
  BY RestoTipo, SacBloquesAssumption
<1>2. Resto(t) % TB \in 0..TB - 1
  BY <1>1, DivTipo, SacBloquesAssumption
<1> QED
  BY <1>2, SacBloquesAssumption DEF EspacioEnBloque

LEMMA DestinoTipo ==
    ASSUME NEW r \in Escrituras
    PROVE  Resultado(Destino(r))
<1> DEFINE b == Numero(r.f, r.d, r.off \div TB)
           x == TomarYAgregar(r.f, r.d)
           y == Destino(r)
<1>1. r.f \in Entrada /\ r.d \in Disco
  BY DEF Escrituras
<1>2. Resultado(x)
  BY <1>1, TomarYAgregarTipo
<1>3. \/ y.f = r.f /\ y.d = r.d /\ y.fin \in {"sinLibres", Juicio({b})}
      \/ y.f = x.f /\ y.d = x.d /\ y.fin = x.fin
  BY DEF Destino
<1> HIDE DEF x, b
<1>4. Juicio({b}) \in Fines
  BY DEF Juicio, Fines, Grave
<1> QED
  BY <1>1, <1>2, <1>3, <1>4 DEF Resultado, Fines

LEMMA NuevoTamTipo ==
    ASSUME NEW t \in Nat, NEW off \in Nat, NEW n \in Nat, NEW lugar \in Nat
    PROVE  NuevoTam(t, off, n, lugar) \in Nat
<1>1. Max({t, off + n}) \in Nat
  BY MaxDeDos
<1> QED
  BY <1>1, SacBloquesAssumption DEF NuevoTam

LEMMA AsientaTipo ==
    ASSUME NEW r \in Escrituras, NEW x, x.f \in Entrada, x.d \in Disco, NEW lugar \in Nat
    PROVE  Asienta(r, x, lugar) \in Escrituras
<1> DEFINE k == Cuantos(r.n, lugar)
           tam == NuevoTam(x.f.tam, r.off, r.n, lugar)
           cont == [x.d.cont EXCEPT ![x.b] = Bytes(r.off \div TB)]
           fin == IF k = r.n THEN "ok" ELSE IF k = 0 THEN "colgado" ELSE "sigue"
<1>1. r.tam \in Nat /\ r.off \in Nat /\ r.n \in Nat
  BY DEF Escrituras
<1>2. k \in Nat /\ r.n - k \in Nat
  BY <1>1 DEF Cuantos
<1>3. tam \in Nat
  BY <1>1, EntradaCampos, NuevoTamTipo
<1>4. cont \in [Datos -> [0..P - 1 -> Contenido]]
  <2>1. Bytes(r.off \div TB) \in [0..P - 1 -> Contenido]
    BY <1>1, DivTipo, SacBloquesAssumption, BloquesEscritos
  <2> QED
    BY <2>1, DiscoCampos, CambiaBloque
<1>5. [x.d EXCEPT !.cont[x.b] = Bytes(r.off \div TB)] = [x.d EXCEPT !.cont = cont]
  BY DiscoCampos
<1>6. Asienta(r, x, lugar) =
        [f |-> [x.f EXCEPT !.tam = tam], d |-> [x.d EXCEPT !.cont = cont],
         tam |-> IF tam # x.f.tam THEN tam ELSE r.tam,
         off |-> r.off + k, n |-> r.n - k, fin |-> fin]
  BY <1>5 DEF Asienta
<1>7. fin \in Fines
  BY DEF Fines, Grave
<1> HIDE DEF k, tam, cont, fin
<1>8. [x.f EXCEPT !.tam = tam] \in Entrada /\ [x.d EXCEPT !.cont = cont] \in Disco
  BY <1>3, <1>4, EntradaConTam, DiscoConCont
<1>9. (IF tam # x.f.tam THEN tam ELSE r.tam) \in Nat /\ r.off + k \in Nat
  BY <1>1, <1>2, <1>3
<1> QED
  BY <1>2, <1>6, <1>7, <1>8, <1>9 DEF Escrituras

LEMMA LugarTipo == \A r \in Escrituras : Lugar(r) \in Nat
BY EspacioTipo, SacBloquesAssumption DEF Lugar, Escrituras

LEMMA VueltaTipo ==
    ASSUME NEW r \in Escrituras
    PROVE  Vuelta(r) \in Escrituras
<1>1. Destino(r).f \in Entrada /\ Destino(r).d \in Disco /\ Destino(r).fin \in Fines
  BY DestinoTipo DEF Resultado
<1>2. Asienta(r, Destino(r), Lugar(r)) \in Escrituras
  BY <1>1, AsientaTipo, LugarTipo
<1>3. [r EXCEPT !.f = Destino(r).f, !.d = Destino(r).d, !.fin = Destino(r).fin] \in Escrituras
  BY <1>1 DEF Escrituras
<1> QED
  BY <1>2, <1>3 DEF Vuelta

LEMMA EscribeTipo ==
    ASSUME NEW f \in Entrada, NEW d \in Disco, NEW tam \in Nat, NEW off \in Nat, NEW n \in Nat
    PROVE  Resultado(Escribe(f, d, tam, off, n))
<1> DEFINE otra(r) == IF r.fin = "sigue" THEN Vuelta(r) ELSE r
           r0 == [f |-> f, d |-> d, tam |-> tam, off |-> off, n |-> n, fin |-> "sigue"]
           r3 == otra(otra(otra(r0)))
<1>1. r0 \in Escrituras
  BY DEF Escrituras, Fines
<1>2. \A r \in Escrituras : otra(r) \in Escrituras
  BY VueltaTipo
<1>3. Escribe(f, d, tam, off, n) = Fin(r3.f, r3.d, r3.fin)
  BY DEF Escribe
<1> HIDE DEF otra, r0
<1>4. r3 \in Escrituras
  BY <1>1, <1>2
<1> HIDE DEF r3
<1> QED
  BY <1>3, <1>4 DEF Escrituras, Resultado, Fin

-----------------------------------------------------------------------------
(* Looking a path up in a table t, from any node: the nodes it goes        *)
(* through.                                                                *)
Donde == Nodos \cup {0, NoHay}

EsHijoEn(t, n, padre, nombre) ==
    t[n].padre = padre /\ t[n].nombre = nombre /\ t[n].estado # "borrado"

HijoEn(t, padre, nombre) ==
    LET hijos == {n \in Nodos : EsHijoEn(t, n, padre, nombre)}
    IN  IF hijos = {} THEN NoHay ELSE Min(hijos)

Bajadas(t, n, r) ==
    LET nodo[i \in 0..Len(r)] == IF i = 0 THEN n ELSE HijoEn(t, nodo[i - 1], r[i])
    IN  nodo

Baja(t, n, r) == Bajadas(t, n, r)[Len(r)]

LEMMA HijoEsHijoEn == \A p, x : Hijo(p, x) = HijoEn(tabla, p, x)
<1> SUFFICES ASSUME NEW p, NEW x PROVE Hijo(p, x) = HijoEn(tabla, p, x)
  OBVIOUS
<1>1. \A n : EsHijo(n, p, x) = EsHijoEn(tabla, n, p, x)
  BY DEF EsHijo, EsHijoEn
<1>2. {n \in Nodos : EsHijo(n, p, x)} = {n \in Nodos : EsHijoEn(tabla, n, p, x)}
  BY <1>1
<1> QED
  BY <1>2 DEF Hijo, HijoEn

LEMMA ResuelveEsBaja == \A r : Resuelve(r) = Baja(tabla, 0, r)
<1> SUFFICES ASSUME NEW r PROVE Resuelve(r) = Baja(tabla, 0, r)
  OBVIOUS
<1> DEFINE Es(z) == z = [i \in 0..Len(r) |-> IF i = 0 THEN 0 ELSE Hijo(z[i - 1], r[i])]
           EsEn(z) == z = [i \in 0..Len(r) |->
                             IF i = 0 THEN 0 ELSE HijoEn(tabla, z[i - 1], r[i])]
<1>1. ASSUME NEW z PROVE Es(z) <=> EsEn(z)
  <2>1. [i \in 0..Len(r) |-> IF i = 0 THEN 0 ELSE Hijo(z[i - 1], r[i])]
         = [i \in 0..Len(r) |-> IF i = 0 THEN 0 ELSE HijoEn(tabla, z[i - 1], r[i])]
    BY HijoEsHijoEn, Zenon
  <2> QED
    BY <2>1
<1>2. (CHOOSE z : Es(z)) = (CHOOSE z : EsEn(z))
  <2> HIDE DEF Es, EsEn
  <2> QED
    BY <1>1
<1> QED
  BY <1>2 DEF Resuelve, Baja, Bajadas

LEMMA HijoEnTipo == \A t, n, x : HijoEn(t, n, x) \in Nodos \cup {NoHay}
<1> SUFFICES ASSUME NEW t, NEW n, NEW x PROVE HijoEn(t, n, x) \in Nodos \cup {NoHay}
  OBVIOUS
<1> DEFINE S == {m \in Nodos : EsHijoEn(t, m, n, x)}
<1>1. CASE S = {}
  BY <1>1 DEF HijoEn
<1>2. CASE S # {}
  <2>1. S \subseteq Nat /\ S \subseteq Nodos
    BY DEF Nodos
  <2>2. Min(S) \in S
    BY <1>2, <2>1, MinDeNaturales
  <2> QED
    BY <1>2, <2>1, <2>2 DEF HijoEn
<1> QED
  BY <1>1, <1>2

LEMMA HijoTipo == \A n, x : Hijo(n, x) \in Nodos \cup {NoHay}
BY HijoEnTipo, HijoEsHijoEn

Descenso(z, t, n, r) ==
    z[0] = n /\ \A i \in 1..Len(r) : z[i] = HijoEn(t, z[i - 1], r[i])

LEMMA BajadasDef ==
    ASSUME NEW t, NEW n \in Donde, NEW r \in Seq(Nombres)
    PROVE  /\ Bajadas(t, n, r) \in [0..Len(r) -> Donde]
           /\ Descenso(Bajadas(t, n, r), t, n, r)
<1> DEFINE V == Len(r)
           S == Donde
           Es(z) == z = [i \in 0..V |-> IF i = 0 THEN n ELSE HijoEn(t, z[i - 1], r[i])]
           G == [q \in S \X Nat |-> HijoEn(t, q[1], r[q[2]])]
           z == Bajadas(t, n, r)
<1>1. V \in Nat
  BY LenProperties
<1>2. \A x, y : HijoEn(t, x, y) \in S
  BY HijoEnTipo DEF Donde
<1>3. G \in [S \X Nat -> S]
  BY <1>2
<1>4. \A x \in S : \A i \in Nat : G[<<x, i>>] = HijoEn(t, x, r[i])
  OBVIOUS
<1>5. z = CHOOSE y : Es(y)
  BY DEF Bajadas
<1> HIDE DEF V, S, G
<1>6. \E y : Es(y)
  <2>1. n \in S
    BY DEF S
  <2>2. PICK y \in [0..V -> S] : Recurre(y, n, G, V)
    BY <1>1, <1>3, <2>1, HayRecursiva
  <2>3. \A i \in 0..V : i # 0 => i \in Nat /\ y[i - 1] \in S
    BY <1>1
  <2>4. \A i \in 0..V : i # 0 => G[<<y[i - 1], i>>] = HijoEn(t, y[i - 1], r[i])
    BY <1>4, <2>3
  <2>5. Es(y)
    BY <2>2, <2>4 DEF Recurre
  <2> QED
    BY <2>5
<1>7. Es(z)
  BY <1>5, <1>6
<1>8. z[0] = n /\ \A i \in 1..V : z[i] = HijoEn(t, z[i - 1], r[i])
  BY <1>1, <1>7
<1>9. \A i \in 0..V : z[i] \in S
  <2>1. \A i \in 0..V : i = 0 \/ i \in 1..V
    BY <1>1
  <2>2. n \in S
    BY DEF S
  <2> HIDE DEF z
  <2> QED
    BY <1>2, <1>8, <2>1, <2>2
<1>10. z \in [0..V -> S]
  BY <1>7, <1>9
<1> QED
  BY <1>8, <1>10 DEF V, S, Descenso

LEMMA BajaVacia == \A t : \A n \in Donde : Baja(t, n, <<>>) = n
<1> SUFFICES ASSUME NEW t, NEW n \in Donde PROVE Baja(t, n, <<>>) = n
  OBVIOUS
<1>1. <<>> \in Seq(Nombres) /\ Len(<<>>) = 0
  BY EmptySeq
<1>2. Descenso(Bajadas(t, n, <<>>), t, n, <<>>)
  BY <1>1, BajadasDef
<1> QED
  BY <1>1, <1>2 DEF Baja, Descenso

LEMMA ResuelveRaiz == Resuelve(<<>>) = 0
BY BajaVacia, ResuelveEsBaja DEF Donde

LEMMA BajaTipo ==
    ASSUME NEW t, NEW n \in Donde, NEW r \in Seq(Nombres)
    PROVE  Baja(t, n, r) \in Donde
<1>1. Bajadas(t, n, r) \in [0..Len(r) -> Donde]
  BY BajadasDef
<1>2. Len(r) \in 0..Len(r)
  BY LenProperties
<1> QED
  BY <1>1, <1>2 DEF Baja

-----------------------------------------------------------------------------
(* The requests: those that act on an entry do not name the root.          *)
Legal ==
    {p \in Peticion : p.op \notin {"getattr", "readdir", "rmdir"} => p.ruta # <<>>}

LEMMA PeticionCampos ==
    ASSUME NEW p \in Peticion
    PROVE  /\ p.ruta \in Seq(Nombres)
           /\ p.op \in {"create", "mkdir", "unlink", "rmdir", "read", "readdir", "getattr",
                        "truncate", "rename", "write"}
           /\ p.op = "truncate" => p.n \in Int
           /\ p.op = "rename" => p.ruta2 \in Seq(Nombres) /\ p.ruta2 # <<>>
           /\ p.op = "write" => p.off \in Nat /\ p.n \in Nat \ {0}
                                /\ (p.off % TB) + p.n <= TB
BY DEF Peticion

LEMMA PuedeLegal ==
    ASSUME NEW p \in Peticion, Puede(p)
    PROVE  p \in Legal
<1> SUFFICES ASSUME p.ruta = <<>>, p.op \notin {"getattr", "readdir", "rmdir"} PROVE FALSE
  BY DEF Legal
<1>1. Resuelve(p.ruta) = 0 /\ Tipo(Resuelve(p.ruta)) = "directorio"
  BY ResuelveRaiz DEF Tipo, NoHay
<1>2. CASE p.op \in {"create", "mkdir"}
  <2>1. Resuelve(p.ruta) = NoHay
    BY <1>2 DEF Puede
  <2> QED
    BY <1>1, <2>1 DEF NoHay
<1>3. CASE p.op \in {"read", "unlink", "truncate", "write"}
  BY <1>1, <1>3 DEF Puede
<1>4. CASE p.op = "rename"
  <2>1. p.ruta2 \in Seq(Nombres) /\ Len(p.ruta2) \in Nat
    BY <1>4, PeticionCampos, LenProperties
  <2>2. Len(p.ruta) = 0 /\ SubSeq(p.ruta, 1, 0) = <<>> /\ SubSeq(p.ruta2, 1, 0) = <<>>
    BY SubSeqEmpty, EmptySeq
  <2>3. IsPrefix(p.ruta, p.ruta2)
    BY <2>1, <2>2 DEF IsPrefix
  <2> QED
    BY <1>4, <2>3 DEF Puede
<1> QED
  BY <1>2, <1>3, <1>4, PeticionCampos

LEMMA FrontTipo ==
    ASSUME NEW S, NEW s \in Seq(S), s # <<>>
    PROVE  /\ Front(s) \in Seq(S) /\ Len(Front(s)) = Len(s) - 1
           /\ \A i \in 1..Len(s) - 1 : Front(s)[i] = s[i]
           /\ Last(s) \in S
<1>1. Len(s) \in Nat \ {0}
  BY EmptySeq
<1>2. \A i \in 1..Len(s) : s[i] \in S
  BY ElementOfSeq
<1>3. Len(s) - 1 \in Nat /\ \A i \in 1..Len(s) - 1 : s[i] \in S
  BY <1>1, <1>2
<1>4. /\ SubSeq(s, 1, Len(s) - 1) \in Seq(S)
      /\ Len(SubSeq(s, 1, Len(s) - 1)) = IF 1 <= Len(s) - 1 THEN Len(s) - 1 - 1 + 1 ELSE 0
      /\ \A i \in 1..(Len(s) - 1) - 1 + 1 : SubSeq(s, 1, Len(s) - 1)[i] = s[1 + i - 1]
  BY <1>3, SubSeqProperties
<1>5. /\ (IF 1 <= Len(s) - 1 THEN Len(s) - 1 - 1 + 1 ELSE 0) = Len(s) - 1
      /\ (Len(s) - 1) - 1 + 1 = Len(s) - 1 /\ \A i \in Int : 1 + i - 1 = i
  BY SMTT(60), <1>1
<1>6. Last(s) \in S
  BY <1>1, <1>2 DEF Last
<1> QED
  BY <1>4, <1>5, <1>6 DEF Front

-----------------------------------------------------------------------------
(* What request a thread serves at each step.                              *)
DeQuien(paso) ==
    CASE paso \in {"libre", "fin", "nada"} -> {"nada"}
      [] paso \in {"existe", "madre"} -> {"create", "mkdir"}
      [] paso \in {"leerTam", "escribir"} -> {"write"}
      [] paso \in {"subirModo", "borrarBloques", "bajarModo", "quitar"} -> {"unlink"}
      [] paso \in {"viejo", "mover"} -> {"rename"}
      [] paso \in {"mirar", "borrarArchivo", "revisar"} -> {"rmdir"}
      [] paso = "listar" -> {"readdir"}
      [] OTHER -> {paso}

Nada == [op |-> "nada"]
Nivel == [dir : Nodos \cup {0}, i : Nat \ {0}]

(* The node that is written or read under the lock is one of the table:    *)
(* the path had a name at least.                                           *)
ConEntrada(h) ==
    /\ \/ h.paso \in {"leerTam", "subirModo", "borrarBloques"}
       \/ h.paso = "truncate" /\ h.pedido.n >= 0
       => h.camino # <<>> \/ h.nodo # 0
    /\ h.paso = "escribir" => h.camino = <<>> /\ h.nodo \in Nodos

ConPila(h) ==
    /\ h.pila \in Seq(Nivel)
    /\ h.paso \in {"mirar", "borrarArchivo", "revisar"} => h.pila # <<>>
    /\ h.paso \in {"borrarArchivo", "revisar"} => h.pila[1].i \in Nodos

EsHilo(h) == h = [x \in Campos |-> h[x]]

HiloBien(h) ==
    /\ EsHilo(h)
    /\ h.pedido \in Legal \cup {Nada} /\ h.pedido.op \in DeQuien(h.paso)
    /\ h.camino \in Seq(Nombres)
    /\ h.nodo \in Donde /\ h.viejo \in Donde /\ h.tam \in Nat
    /\ ConEntrada(h)
    /\ ConPila(h)

Memoria == tabla \in [Nodos -> Entrada] /\ disco \in Disco /\ modo \in {0, 1}
Red == cola \in [Clientes -> Seq(Legal)] /\ eco \in [Clientes -> Nat]
Otros == duenio \in Clientes \cup {Nadie} /\ caida \in Grave \cup {"no", "fuera"}
Hilos == hilo = [c \in Clientes |-> hilo[c]] /\ \A c \in Clientes : HiloBien(hilo[c])
Servidos == Memoria /\ Red /\ Otros /\ Hilos

LEMMA OciosoBien == HiloBien(Ocioso)
<1>1. /\ Ocioso.paso = "libre" /\ Ocioso.pedido = Nada
      /\ Ocioso.camino = <<>> /\ Ocioso.nodo = 0 /\ Ocioso.viejo = 0 /\ Ocioso.tam = 0
      /\ Ocioso.pila = <<>>
  BY DEF Ocioso, Campos, Nada
<1>2. <<>> \in Seq(Nombres) /\ <<>> \in Seq(Nivel)
  BY EmptySeq
<1>3. Nada.op \in DeQuien("libre")
  BY DEF Nada, DeQuien
<1>4. ConEntrada(Ocioso) /\ ConPila(Ocioso)
  BY <1>1, <1>2 DEF ConEntrada, ConPila
<1>5. Ocioso.pedido \in Legal \cup {Nada} /\ Ocioso.pedido.op \in DeQuien(Ocioso.paso)
  BY <1>1, <1>3
<1>6. Ocioso.camino \in Seq(Nombres) /\ Ocioso.nodo \in Donde /\ Ocioso.viejo \in Donde
      /\ Ocioso.tam \in Nat
  BY <1>1, <1>2 DEF Donde
<1>7. EsHilo(Ocioso)
  BY OciosoCoherente DEF Coherente, EsHilo
<1> QED
  BY <1>4, <1>5, <1>6, <1>7, Zenon DEF HiloBien

LEMMA HilosSiguen ==
    ASSUME Hilos, NEW c \in Clientes, NEW h, HiloBien(h), hilo' = [hilo EXCEPT ![c] = h]
    PROVE  Hilos'
<1>1. \A d \in Clientes : hilo'[d] = IF d = c THEN h ELSE hilo[d]
  BY DEF Hilos
<1>2. hilo' = [d \in Clientes |-> hilo'[d]]
  BY DEF Hilos
<1>3. \A d \in Clientes : HiloBien(hilo'[d])
  BY <1>1 DEF Hilos
<1> QED
  BY <1>2, <1>3 DEF Hilos

LEMMA HilosIguales == Hilos /\ hilo' = hilo => Hilos'
BY DEF Hilos

(* The fields of a thread that a step changes, and what it must keep.      *)
LEMMA HiloCampos ==
    ASSUME NEW h, HiloBien(h)
    PROVE  /\ EsHilo(h)
           /\ h.camino \in Seq(Nombres) /\ h.nodo \in Donde /\ h.viejo \in Donde /\ h.tam \in Nat
           /\ h.pila \in Seq(Nivel)
BY DEF HiloBien, ConPila

LEMMA PedidoDe ==
    ASSUME NEW h, HiloBien(h), h.paso \notin {"libre", "fin", "nada"}
    PROVE  h.pedido \in Legal /\ h.pedido \in Peticion /\ h.pedido.op \in DeQuien(h.paso)
<1>1. Nada \notin Legal /\ Nada.op = "nada"
  BY PeticionCampos DEF Legal, Nada
<1>2. "nada" \notin DeQuien(h.paso)
  <2>1. h.pedido \in Legal \/ h.pedido = Nada
    BY DEF HiloBien
  <2> QED
    BY DEF DeQuien
<1> QED
  BY <1>1, <1>2 DEF HiloBien, Legal

(* The ways a step changes what its thread is doing, field by field.       *)
Deja(c, paso, camino, nodo, viejo, tam, pila) ==
    \E h :
        /\ hilo' = [hilo EXCEPT ![c] = h]
        /\ EsHilo(h)
        /\ h.pedido = hilo[c].pedido
        /\ h.paso = paso /\ h.camino = camino /\ h.nodo = nodo
        /\ h.viejo = viejo /\ h.tam = tam /\ h.pila = pila

LEMMA HiloDe ==
    ASSUME Hilos, NEW c \in Clientes
    PROVE  HiloBien(hilo[c]) /\ EsHilo(hilo[c]) /\ hilo = [d \in Clientes |-> hilo[d]]
BY DEF Hilos, HiloBien

LEMMA SigueDeja ==
    ASSUME Hilos, NEW c \in Clientes, NEW paso, Sigue(c, paso)
    PROVE  Deja(c, paso, hilo[c].camino, hilo[c].nodo, hilo[c].viejo, hilo[c].tam, hilo[c].pila)
<1> DEFINE h == [hilo[c] EXCEPT !.paso = paso]
<1>1. hilo' = [hilo EXCEPT ![c] = h]
  BY HiloDe DEF Sigue
<1>2. EsHilo(h) /\ h.pedido = hilo[c].pedido /\ h.paso = paso /\ h.camino = hilo[c].camino
      /\ h.nodo = hilo[c].nodo /\ h.viejo = hilo[c].viejo /\ h.tam = hilo[c].tam
      /\ h.pila = hilo[c].pila
  BY ZenonT(60), HiloDe DEF EsHilo, Campos
<1> QED
  BY <1>1, <1>2 DEF Deja

LEMMA BuscaDeja ==
    ASSUME Hilos, NEW c \in Clientes, NEW ruta, NEW paso, Busca(c, ruta, paso)
    PROVE  Deja(c, paso, ruta, 0, hilo[c].viejo, hilo[c].tam, hilo[c].pila)
<1> DEFINE h == [hilo[c] EXCEPT !.paso = paso, !.camino = ruta, !.nodo = 0]
<1>1. hilo' = [hilo EXCEPT ![c] = h]
  BY HiloDe DEF Busca
<1>2. EsHilo(h) /\ h.pedido = hilo[c].pedido /\ h.paso = paso /\ h.camino = ruta
      /\ h.nodo = 0 /\ h.viejo = hilo[c].viejo /\ h.tam = hilo[c].tam
      /\ h.pila = hilo[c].pila
  BY ZenonT(60), HiloDe DEF EsHilo, Campos
<1> QED
  BY <1>1, <1>2 DEF Deja

LEMMA ApilaDeja ==
    ASSUME Hilos, NEW c \in Clientes, NEW pila, NEW paso, Apila(c, pila, paso)
    PROVE  Deja(c, paso, hilo[c].camino, hilo[c].nodo, hilo[c].viejo, hilo[c].tam, pila)
<1> DEFINE h == [hilo[c] EXCEPT !.pila = pila, !.paso = paso]
<1>1. hilo' = [hilo EXCEPT ![c] = h]
  BY HiloDe DEF Apila
<1>2. EsHilo(h) /\ h.pedido = hilo[c].pedido /\ h.paso = paso /\ h.camino = hilo[c].camino
      /\ h.nodo = hilo[c].nodo /\ h.viejo = hilo[c].viejo /\ h.tam = hilo[c].tam
      /\ h.pila = pila
  BY ZenonT(60), HiloDe DEF EsHilo, Campos
<1> QED
  BY <1>1, <1>2 DEF Deja

LEMMA BajarDeja ==
    ASSUME Hilos, NEW c \in Clientes, Bajar(c)
    PROVE  Deja(c, hilo[c].paso, Tail(hilo[c].camino),
                Hijo(hilo[c].nodo, Head(hilo[c].camino)),
                hilo[c].viejo, hilo[c].tam, hilo[c].pila)
<1> DEFINE h == [hilo[c] EXCEPT !.nodo = Hijo(@, Head(hilo[c].camino)), !.camino = Tail(@)]
<1>1. hilo' = [hilo EXCEPT ![c] = h]
  BY HiloDe DEF Bajar
<1>2. EsHilo(h) /\ h.pedido = hilo[c].pedido /\ h.paso = hilo[c].paso
      /\ h.camino = Tail(hilo[c].camino)
      /\ h.nodo = Hijo(hilo[c].nodo, Head(hilo[c].camino))
      /\ h.viejo = hilo[c].viejo /\ h.tam = hilo[c].tam
      /\ h.pila = hilo[c].pila
  BY ZenonT(60), HiloDe DEF EsHilo, Campos
<1> QED
  BY <1>1, <1>2 DEF Deja

LEMMA LeerTamDeja ==
    ASSUME Hilos, NEW c \in Clientes, LeerTam(c)
    PROVE  Deja(c, "escribir", hilo[c].camino, hilo[c].nodo, hilo[c].viejo,
                tabla[hilo[c].nodo].tam, hilo[c].pila)
<1> DEFINE h == [hilo[c] EXCEPT !.tam = tabla[hilo[c].nodo].tam, !.paso = "escribir"]
<1>1. hilo' = [hilo EXCEPT ![c] = h]
  BY HiloDe DEF LeerTam, Nodo
<1>2. EsHilo(h) /\ h.pedido = hilo[c].pedido /\ h.paso = "escribir"
      /\ h.camino = hilo[c].camino
      /\ h.nodo = hilo[c].nodo /\ h.viejo = hilo[c].viejo
      /\ h.tam = tabla[hilo[c].nodo].tam /\ h.pila = hilo[c].pila
  BY ZenonT(60), HiloDe DEF EsHilo, Campos
<1> QED
  BY <1>1, <1>2 DEF Deja

LEMMA BuscarDestinoDeja ==
    ASSUME Hilos, NEW c \in Clientes, BuscarDestino(c)
    PROVE  Deja(c, "mover", Front(hilo[c].pedido.ruta2), 0, hilo[c].nodo, hilo[c].tam,
                hilo[c].pila)
<1> DEFINE h == [hilo[c] EXCEPT !.paso = "mover", !.viejo = hilo[c].nodo,
                                !.camino = Front(hilo[c].pedido.ruta2), !.nodo = 0]
<1>1. hilo' = [hilo EXCEPT ![c] = h]
  BY HiloDe DEF BuscarDestino, Nodo, Pedido
<1>2. EsHilo(h) /\ h.pedido = hilo[c].pedido /\ h.paso = "mover"
      /\ h.camino = Front(hilo[c].pedido.ruta2)
      /\ h.nodo = 0 /\ h.viejo = hilo[c].nodo
      /\ h.tam = hilo[c].tam /\ h.pila = hilo[c].pila
  BY ZenonT(60), HiloDe DEF EsHilo, Campos
<1> QED
  BY <1>1, <1>2 DEF Deja

LEMMA DejaBien ==
    ASSUME Hilos, NEW c \in Clientes, NEW paso, NEW camino \in Seq(Nombres),
           NEW nodo \in Donde, NEW viejo \in Donde, NEW tam \in Nat, NEW pila \in Seq(Nivel),
           Deja(c, paso, camino, nodo, viejo, tam, pila),
           hilo[c].pedido.op \in DeQuien(paso),
           \/ paso \in {"leerTam", "subirModo", "borrarBloques"}
           \/ paso = "truncate" /\ hilo[c].pedido.n >= 0
           => camino # <<>> \/ nodo # 0,
           paso = "escribir" => camino = <<>> /\ nodo \in Nodos,
           paso \in {"mirar", "borrarArchivo", "revisar"} => pila # <<>>,
           paso \in {"borrarArchivo", "revisar"} => pila[1].i \in Nodos
    PROVE  Hilos'
<1>1. PICK h :
        /\ hilo' = [hilo EXCEPT ![c] = h]
        /\ EsHilo(h)
        /\ h.pedido = hilo[c].pedido
        /\ h.paso = paso /\ h.camino = camino /\ h.nodo = nodo
        /\ h.viejo = viejo /\ h.tam = tam /\ h.pila = pila
  BY DEF Deja
<1>2. hilo[c].pedido \in Legal \cup {Nada}
  BY DEF Hilos, HiloBien
<1>3. ConEntrada(h)
  BY <1>1 DEF ConEntrada
<1>4. ConPila(h)
  BY <1>1 DEF ConPila
<1>5. HiloBien(h)
  BY <1>1, <1>2, <1>3, <1>4 DEF HiloBien
<1> QED
  BY <1>1, <1>5, HilosSiguen

-----------------------------------------------------------------------------
(* Answering, falling, and what a step leaves as it was.                   *)
LEMMA TrasResponder ==
    ASSUME Servidos, NEW c \in Clientes, NEW n \in Nat, Responde(c, n), cola' = cola,
           duenio' \in {duenio, Nadie, c}, caida' = caida
    PROVE  Red' /\ Otros' /\ Hilos'
<1>1. Hilos'
  BY OciosoBien, HilosSiguen DEF Servidos, Responde
<1>2. Red'
  BY DEF Responde, Servidos, Red
<1>3. Otros'
  BY DEF Servidos, Otros
<1> QED
  BY <1>1, <1>2, <1>3

LEMMA TrasCaer ==
    ASSUME Servidos, NEW causa \in Grave \cup {"fuera"}, Cae(causa)
    PROVE  Servidos'
<1>1. Hilos'
  BY HilosIguales DEF Cae, Servidos
<1> QED
  BY <1>1 DEF Cae, varsRed, Servidos, Memoria, Red, Otros

LEMMA MismaMemoria ==
    ASSUME Memoria, tabla' = tabla, disco' = disco, modo' \in {modo, 0, 1}
    PROVE  Memoria'
BY DEF Memoria

LEMMA MismaRed ==
    ASSUME Red, Otros, cola' = cola, eco' = eco, caida' = caida, NEW c \in Clientes,
           duenio' \in {duenio, Nadie, c}
    PROVE  Red' /\ Otros'
BY DEF Red, Otros

LEMMA MemoriaGuarda ==
    ASSUME Memoria, NEW n, NEW r, Resultado(r), Guarda(n, r), modo' \in {modo, 0, 1}
    PROVE  Memoria'
BY DEF Memoria, Guarda, Resultado

LEMMA HiloTipo ==
    ASSUME Servidos, NEW c \in Clientes
    PROVE  /\ hilo[c].camino \in Seq(Nombres) /\ hilo[c].nodo \in Donde
           /\ hilo[c].viejo \in Donde /\ hilo[c].tam \in Nat /\ hilo[c].pila \in Seq(Nivel)
           /\ hilo[c].pedido.op \in DeQuien(hilo[c].paso)
           /\ ConEntrada(hilo[c]) /\ ConPila(hilo[c])
BY DEF Servidos, Hilos, HiloBien, ConPila

LEMMA PedidoTipo ==
    ASSUME Servidos, NEW c \in Clientes, hilo[c].paso \notin {"libre", "fin", "nada"}
    PROVE  Pedido(c) \in Legal /\ Pedido(c) \in Peticion /\ Pedido(c).op \in DeQuien(hilo[c].paso)
BY PedidoDe DEF Servidos, Hilos, Pedido

-----------------------------------------------------------------------------
(* Each action of a thread of the server keeps the types.                  *)
LEMMA TomarTipo ==
    ASSUME Servidos, NEW c \in Clientes, Tomar(c)
    PROVE  Servidos'
<1> DEFINE p == Head(cola[c])
           camino == IF p.op = "truncate" /\ p.n < 0 THEN <<>> ELSE p.ruta
           h == [Ocioso EXCEPT !.pedido = p, !.paso = PrimerPaso(p.op), !.camino = camino]
<1>1. hilo' = [hilo EXCEPT ![c] = h] /\ cola' = [cola EXCEPT ![c] = Tail(@)]
  BY DEF Tomar
<1>2. cola[c] \in Seq(Legal) /\ cola[c] # <<>>
  BY DEF Tomar, Servidos, Red
<1>3. p \in Legal /\ p \in Peticion /\ Tail(cola[c]) \in Seq(Legal)
  BY <1>2, HeadTailProperties DEF Legal
<1>4. /\ h.pedido = p /\ h.paso = PrimerPaso(p.op) /\ h.camino = camino
      /\ h.nodo = 0 /\ h.viejo = 0 /\ h.tam = 0 /\ h.pila = <<>>
  BY DEF Ocioso
<1>5. EsHilo(h)
  BY DEF Ocioso, EsHilo, Campos
<1>6. p.op \in DeQuien(PrimerPaso(p.op))
  BY <1>3, PeticionCampos DEF PrimerPaso, DeQuien
<1>7. camino \in Seq(Nombres)
  BY <1>3, PeticionCampos, EmptySeq
<1>8. PrimerPaso(p.op) \notin {"escribir", "mirar", "borrarArchivo", "revisar"}
  BY <1>3, PeticionCampos DEF PrimerPaso
<1>9. \/ PrimerPaso(p.op) \in {"leerTam", "subirModo", "borrarBloques"}
      \/ PrimerPaso(p.op) = "truncate" /\ p.n >= 0
      => camino # <<>>
  <2>1. p.op \notin {"getattr", "readdir", "rmdir"} => p.ruta # <<>>
    BY <1>3 DEF Legal
  <2>2. /\ PrimerPaso(p.op) \in {"leerTam", "subirModo", "borrarBloques"}
            => p.op \in {"write", "unlink"}
        /\ PrimerPaso(p.op) = "truncate" => p.op = "truncate"
    BY <1>3, PeticionCampos DEF PrimerPaso
  <2>3. p.op = "truncate" => p.n \in Int
    BY <1>3, PeticionCampos
  <2> QED
    BY <2>1, <2>2, <2>3
<1> HIDE DEF h, camino
<1>10. ConEntrada(h)
  BY <1>4, <1>8, <1>9 DEF ConEntrada
<1>11. ConPila(h)
  BY <1>4, <1>8, EmptySeq DEF ConPila
<1>12. HiloBien(h)
  <2>1. 0 \in Donde
    BY DEF Donde
  <2> QED
    BY <1>3, <1>4, <1>5, <1>6, <1>7, <1>10, <1>11, <2>1 DEF HiloBien
<1>13. Hilos'
  BY <1>1, <1>12, HilosSiguen DEF Servidos
<1>14. Red'
  BY <1>1, <1>3 DEF Servidos, Red, Tomar
<1> QED
  BY <1>13, <1>14 DEF Tomar, Servidos, Memoria, Otros, varsDisco

LEMMA BajarTipo ==
    ASSUME Servidos, NEW c \in Clientes, Bajar(c)
    PROVE  Servidos'
<1> DEFINE h == hilo[c]
           nodo == Hijo(h.nodo, Head(h.camino))
<1>1. h.camino \in Seq(Nombres) /\ h.camino # <<>>
  BY HiloTipo DEF Bajar
<1>2. Tail(h.camino) \in Seq(Nombres)
  BY <1>1, HeadTailProperties
<1>3. nodo \in Donde /\ nodo # 0
  <2>1. nodo \in Nodos \cup {NoHay}
    BY HijoTipo
  <2> QED
    BY <2>1 DEF Donde, Nodos, NoHay
<1>4. h.paso # "escribir"
  BY <1>1, HiloTipo DEF ConEntrada
<1>5. h.paso \in {"mirar", "borrarArchivo", "revisar"} => h.pila # <<>>
  BY HiloTipo DEF ConPila
<1>6. h.paso \in {"borrarArchivo", "revisar"} => h.pila[1].i \in Nodos
  BY HiloTipo DEF ConPila
<1>7. Deja(c, h.paso, Tail(h.camino), nodo, h.viejo, h.tam, h.pila)
  BY BajarDeja DEF Servidos
<1>8. h.viejo \in Donde /\ h.tam \in Nat /\ h.pila \in Seq(Nivel)
      /\ h.pedido.op \in DeQuien(h.paso)
  BY HiloTipo
<1> HIDE DEF nodo
<1>9. Hilos'
  BY <1>2, <1>3, <1>4, <1>5, <1>6, <1>7, <1>8, DejaBien DEF Servidos
<1> QED
  BY <1>9, MismaMemoria, MismaRed DEF Bajar, Suelta, Servidos, varsDisco, varsRed

(* Going on, and looking a path up, from a step that is not of those that  *)
(* ask for more.                                                           *)
LEMMA SigueTipo ==
    ASSUME Servidos, NEW c \in Clientes, NEW paso, Sigue(c, paso),
           hilo[c].pedido.op \in DeQuien(paso),
           paso \in {"leerTam", "subirModo", "borrarBloques"} =>
              hilo[c].camino # <<>> \/ hilo[c].nodo # 0,
           paso \notin {"truncate", "escribir"},
           paso \in {"mirar", "borrarArchivo", "revisar"} =>
              hilo[c].pila # <<>> /\ hilo[c].pila[1].i \in Nodos
    PROVE  Hilos'
<1>1. Deja(c, paso, hilo[c].camino, hilo[c].nodo, hilo[c].viejo, hilo[c].tam, hilo[c].pila)
  BY SigueDeja DEF Servidos
<1>2. /\ hilo[c].camino \in Seq(Nombres) /\ hilo[c].nodo \in Donde
      /\ hilo[c].viejo \in Donde /\ hilo[c].tam \in Nat /\ hilo[c].pila \in Seq(Nivel)
  BY HiloTipo
<1> QED
  BY <1>1, <1>2, DejaBien DEF Servidos

LEMMA BuscaTipo ==
    ASSUME Servidos, NEW c \in Clientes, NEW ruta \in Seq(Nombres), NEW paso,
           Busca(c, ruta, paso),
           hilo[c].pedido.op \in DeQuien(paso),
           paso \in {"madre", "quitar", "viejo"}
    PROVE  Hilos'
<1>1. Deja(c, paso, ruta, 0, hilo[c].viejo, hilo[c].tam, hilo[c].pila)
  BY BuscaDeja DEF Servidos
<1>2. hilo[c].viejo \in Donde /\ hilo[c].tam \in Nat /\ hilo[c].pila \in Seq(Nivel)
  BY HiloTipo
<1>3. 0 \in Donde
  BY DEF Donde
<1> QED
  BY <1>1, <1>2, <1>3, DejaBien DEF Servidos

LEMMA ApilaTipo ==
    ASSUME Servidos, NEW c \in Clientes, NEW pila \in Seq(Nivel), pila # <<>>,
           Apila(c, pila, "mirar"), hilo[c].pedido.op = "rmdir"
    PROVE  Hilos'
<1>1. Deja(c, "mirar", hilo[c].camino, hilo[c].nodo, hilo[c].viejo, hilo[c].tam, pila)
  BY ApilaDeja DEF Servidos
<1>2. /\ hilo[c].camino \in Seq(Nombres) /\ hilo[c].nodo \in Donde
      /\ hilo[c].viejo \in Donde /\ hilo[c].tam \in Nat
  BY HiloTipo
<1>3. hilo[c].pedido.op \in DeQuien("mirar")
  BY DEF DeQuien
<1> QED
  BY <1>1, <1>2, <1>3, DejaBien DEF Servidos

LEMMA MemoriaTabla ==
    ASSUME Memoria, tabla' \in [Nodos -> Entrada], disco' = disco, modo' \in {modo, 0, 1}
    PROVE  Memoria'
BY DEF Memoria

LEMMA OcupaTipo ==
    ASSUME Servidos, NEW n \in Nodos, NEW nombre \in Nombres, NEW madre \in Donde
    PROVE  /\ Archivo(n, nombre, madre) \in Entrada
           /\ Directorio(n, nombre, madre) \in Entrada
<1>1. tabla[n] \in Entrada
  BY DEF Servidos, Memoria
<1> DEFINE ind == [tabla[n].ind EXCEPT ![0] = Cabecera]
<1>2. ind \in [0..PB - 1 -> Datos \cup {Cabecera}]
  BY <1>1, EntradaCampos
<1>3. [tabla[n] EXCEPT !.estado = "ocupado", !.nombre = nombre, !.padre = madre,
                       !.tam = 0, !.ind = ind] \in Entrada
  BY <1>1, <1>2 DEF Entrada, Donde
<1>4. Archivo(n, nombre, madre)
        = [tabla[n] EXCEPT !.estado = "ocupado", !.nombre = nombre, !.padre = madre,
                           !.tam = 0, !.ind = ind]
  BY <1>1 DEF Entrada, Archivo
<1>5. Directorio(n, nombre, madre) \in Entrada
  BY <1>1 DEF Entrada, Donde, Directorio
<1> QED
  BY <1>3, <1>4, <1>5

LEMMA ConBloqueTipo ==
    ASSUME NEW r \in Resultados, NEW d
    PROVE  Resultado(ConBloque(r, d))
<1>1. r.f \in Entrada /\ r.d \in Disco /\ r.fin \in Fines
  BY DEF Resultados
<1> DEFINE cont == [r.d.cont EXCEPT ![Libre(d)] = Ceros]
<1>2. cont \in [Datos -> [0..P - 1 -> Contenido]]
  BY <1>1, DiscoCampos, BloquesEscritos, CambiaBloque
<1>3. [r.d EXCEPT !.cont = cont] \in Disco
  BY <1>1, <1>2, DiscoConCont
<1>4. [r EXCEPT !.d.cont[Libre(d)] = Ceros] = [r EXCEPT !.d = [r.d EXCEPT !.cont = cont]]
  BY <1>1, DiscoCampos DEF Resultados
<1> HIDE DEF cont
<1>5. [r EXCEPT !.d = [r.d EXCEPT !.cont = cont]].f = r.f
      /\ [r EXCEPT !.d = [r.d EXCEPT !.cont = cont]].d = [r.d EXCEPT !.cont = cont]
      /\ [r EXCEPT !.d = [r.d EXCEPT !.cont = cont]].fin = r.fin
  BY DEF Resultados
<1> QED
  BY <1>1, <1>3, <1>4, <1>5 DEF ConBloque, Resultado

LEMMA MinLibre ==
    EntradasLibres # {} =>
        /\ Min(EntradasLibres) \in Nodos /\ tabla[Min(EntradasLibres)].estado = "borrado"
<1>1. EntradasLibres \subseteq Nat
  BY DEF EntradasLibres, Nodos
<1>2. EntradasLibres # {} => Min(EntradasLibres) \in EntradasLibres
  BY <1>1, MinDeNaturales
<1> QED
  BY <1>2 DEF EntradasLibres

LEMMA CrearTipo ==
    ASSUME Servidos, NEW c \in Clientes, Crear(c)
    PROVE  Servidos'
<1>1. CASE YaExiste(c)
  BY <1>1, TrasResponder, MismaMemoria DEF YaExiste, Servidos, varsDisco
<1>2. CASE SinMadre(c)
  BY <1>2, TrasResponder, MismaMemoria DEF SinMadre, Servidos, varsDisco
<1>3. CASE TablaLlena(c)
  BY <1>3, TrasResponder, MismaMemoria DEF TablaLlena, Servidos, varsDisco, Suelta
<1>4. CASE BuscarMadre(c)
  <2>1. Pedido(c) \in Legal /\ Pedido(c) \in Peticion
        /\ Pedido(c).op \in {"create", "mkdir"}
    BY <1>4, PedidoTipo DEF BuscarMadre, En, DeQuien
  <2>2. Pedido(c).ruta \in Seq(Nombres) /\ Pedido(c).ruta # <<>>
    BY <2>1, PeticionCampos DEF Legal
  <2>3. Front(Pedido(c).ruta) \in Seq(Nombres)
    BY <2>2, FrontTipo
  <2>4. hilo[c].pedido.op \in DeQuien("madre")
    BY <2>1 DEF DeQuien, Pedido
  <2>5. Hilos'
    BY <1>4, <2>3, <2>4, BuscaTipo DEF BuscarMadre
  <2> QED
    BY <1>4, <2>5, MismaMemoria, MismaRed DEF BuscarMadre, Servidos, varsDisco, varsRed
<1>5. ASSUME CrearArchivo(c) \/ CrearDirectorio(c)
      PROVE  /\ Last(Pedido(c).ruta) \in Nombres /\ Nodo(c) \in Donde
             /\ Min(EntradasLibres) \in Nodos
  <2>1. hilo[c].paso = "madre" /\ EntradasLibres # {}
    BY <1>5 DEF CrearArchivo, CrearDirectorio, En
  <2>2. Pedido(c) \in Legal /\ Pedido(c) \in Peticion
        /\ Pedido(c).op \in {"create", "mkdir"}
    BY <2>1, PedidoTipo DEF DeQuien
  <2>3. Pedido(c).ruta \in Seq(Nombres) /\ Pedido(c).ruta # <<>>
    BY <2>2, PeticionCampos DEF Legal
  <2> QED
    BY <2>1, <2>3, FrontTipo, HiloTipo, MinLibre DEF Nodo
<1>6. CASE CrearArchivo(c)
  <2> DEFINE n == Min(EntradasLibres)
             f == Archivo(n, Last(Pedido(c).ruta), Nodo(c))
             r == ConBloque(TomarYAgregar(f, disco), disco)
  <2>1. f \in Entrada /\ disco \in Disco
    BY <1>5, <1>6, OcupaTipo DEF Servidos, Memoria
  <2>2. Resultado(r)
    BY <2>1, TomarYAgregarForma, ConBloqueTipo
  <2>3. \/ r.fin \in Grave /\ Cae(r.fin)
        \/ /\ Guarda(n, r) /\ duenio' = Nadie /\ Responde(c, 1) /\ modo' = modo
           /\ cola' = cola /\ caida' = caida
    BY <1>6 DEF CrearArchivo, Suelta
  <2> HIDE DEF r, n
  <2> QED
    BY <2>2, <2>3, TrasCaer, TrasResponder, MemoriaGuarda DEF Servidos
<1>7. CASE CrearDirectorio(c)
  <2> DEFINE n == Min(EntradasLibres)
             f == Directorio(n, Last(Pedido(c).ruta), Nodo(c))
  <2>1. f \in Entrada
    BY <1>5, <1>7, OcupaTipo
  <2>2. tabla' = [tabla EXCEPT ![n] = f]
    BY <1>7 DEF CrearDirectorio
  <2> HIDE DEF f, n
  <2>3. tabla' \in [Nodos -> Entrada]
    BY <2>1, <2>2 DEF Servidos, Memoria
  <2> QED
    BY <1>7, <2>3, TrasResponder, MemoriaTabla DEF CrearDirectorio, Servidos, Suelta
<1> QED
  BY <1>1, <1>2, <1>3, <1>4, <1>6, <1>7 DEF Crear

LEMMA ConsultarTipo ==
    ASSUME Servidos, NEW c \in Clientes, Consultar(c)
    PROVE  Servidos'
<1>1. CASE Atributos(c)
  BY <1>1, TrasResponder, MismaMemoria DEF Atributos, Servidos, varsDisco, Suelta
<1>2. CASE Listar(c)
  BY <1>2, TrasResponder, MismaMemoria DEF Listar, Servidos, varsDisco, Suelta
<1>3. CASE Leer(c)
  <2>1. duenio' \in {duenio, Nadie}
    BY <1>3 DEF Leer, Suelta
  <2>2. \E n \in Nat : Responde(c, n)
    BY <1>3 DEF Leer
  <2> QED
    BY <1>3, <2>1, <2>2, TrasResponder, MismaMemoria DEF Leer, Servidos, varsDisco
<1>4. CASE SinDirectorio(c)
  <2>1. Pedido(c).op = "readdir"
    BY <1>4, PedidoTipo DEF SinDirectorio, En, DeQuien
  <2>2. hilo[c].pedido.op \in DeQuien("listar")
    BY <2>1 DEF Pedido, DeQuien
  <2>3. Hilos'
    BY <1>4, <2>2, SigueTipo DEF SinDirectorio
  <2>4. Red' /\ Otros' /\ Memoria'
    BY <1>4 DEF SinDirectorio, Servidos, Red, Otros, Memoria, varsDisco
  <2> QED
    BY <2>3, <2>4 DEF Servidos
<1> QED
  BY <1>1, <1>2, <1>3, <1>4 DEF Consultar

LEMMA TruncarTipo ==
    ASSUME Servidos, NEW c \in Clientes, Truncar(c)
    PROVE  Servidos'
<1> DEFINE n == Nodo(c)
           tam == Pedido(c).n
           crece == tam > tabla[n].tam
           hasta == tam \div TB
           r == IF crece THEN DarleEspacio(tabla[n], disco, tam - tabla[n].tam)
                ELSE EliminarNodos(tabla[n], disco, ModoTras(hasta), hasta)
           s == IF r.fin = "ok" THEN [r EXCEPT !.f.tam = tam] ELSE r
<1>1. hilo[c].paso = "truncate" /\ hilo[c].camino = <<>> /\ Nodo(c) # NoHay
  BY DEF Truncar, En
<1>2. tam \in Nat
  <2>1. Pedido(c) \in Peticion /\ Pedido(c).op = "truncate"
    BY <1>1, PedidoTipo DEF DeQuien
  <2>2. Pedido(c).n \in Int
    BY <2>1, PeticionCampos
  <2> QED
    BY <2>2 DEF Truncar
<1>3. n \in Nodos
  <2>1. ConEntrada(hilo[c]) /\ hilo[c].nodo \in Donde
    BY HiloTipo
  <2> QED
    BY <1>1, <1>2, <2>1 DEF ConEntrada, Nodo, Donde, Pedido
<1>4. tabla[n] \in Entrada /\ disco \in Disco /\ modo \in {0, 1}
  BY <1>3 DEF Servidos, Memoria
<1>5. Resultado(r)
  <2>1. hasta \in Nat
    BY <1>2, DivTipo, SacBloquesAssumption
  <2>2. crece => tam - tabla[n].tam \in Nat
    <3>1. tabla[n].tam \in Nat
      BY <1>4, EntradaCampos
    <3> HIDE DEF tam, n
    <3> QED
      BY <1>2, <3>1
  <2>3. CASE crece
    BY <1>4, <2>2, <2>3, DarleEspacioTipo
  <2>4. CASE ~crece
    BY SMTT(60), <1>4, <2>1, <2>4, EliminarNodosTipo
  <2> QED
    BY <2>3, <2>4
<1>6. \/ r.fin \in Grave /\ Cae(r.fin)
      \/ /\ Guarda(n, s) /\ duenio' = c /\ Responde(c, 1)
         /\ modo' = IF crece THEN modo ELSE ModoTras(hasta)
         /\ cola' = cola /\ caida' = caida
  BY DEF Truncar
<1>7. (IF crece THEN modo ELSE ModoTras(hasta)) \in {0, 1}
  BY <1>4 DEF ModoTras
<1>9. r.fin = "ok" => s.f = [r.f EXCEPT !.tam = tam] /\ s.d = r.d
  <2> HIDE DEF n, tam, crece, hasta
  <2>1. \E g, e, fin : r = [f |-> g, d |-> e, fin |-> fin]
    <3>1. CASE crece
      <4>1. r = DarleEspacio(tabla[n], disco, tam - tabla[n].tam)
        BY <3>1, Zenon
      <4> HIDE DEF r
      <4>2. \E g, e, fin : DarleEspacio(tabla[n], disco, tam - tabla[n].tam)
                             = [f |-> g, d |-> e, fin |-> fin]
        BY DarleEspacioPartes, ZenonT(60)
      <4> QED
        BY <4>1, <4>2, Zenon
    <3>2. CASE ~crece
      <4>1. r = EliminarNodos(tabla[n], disco, ModoTras(hasta), hasta)
        BY <3>2, Zenon
      <4> HIDE DEF r
      <4>2. \E g, e, fin : EliminarNodos(tabla[n], disco, ModoTras(hasta), hasta)
                             = [f |-> g, d |-> e, fin |-> fin]
        BY EliminarNodosPartes, ZenonT(60)
      <4> QED
        BY <4>1, <4>2, Zenon
    <3> QED
      BY <3>1, <3>2, Zenon
  <2> HIDE DEF r
  <2> QED
    BY SMTT(60), <2>1
<1> HIDE DEF r
<1>10. s.f \in Entrada /\ s.d \in Disco
  <2>1. CASE r.fin = "ok"
    BY <1>2, <1>5, <1>9, <2>1, EntradaConTam DEF Resultado
  <2>2. CASE r.fin # "ok"
    BY <1>5, <2>2 DEF Resultado
  <2> QED
    BY <2>1, <2>2
<1>11. CASE r.fin \in Grave /\ Cae(r.fin)
  BY <1>11, TrasCaer
<1>12. CASE /\ Guarda(n, s) /\ duenio' = c /\ Responde(c, 1)
            /\ modo' = IF crece THEN modo ELSE ModoTras(hasta)
            /\ cola' = cola /\ caida' = caida
  <2>1. s.f \in Entrada /\ s.d \in Disco
    BY <1>10
  <2> HIDE DEF s, n
  <2>2. Memoria'
    BY <1>7, <1>12, <2>1 DEF Servidos, Memoria, Guarda
  <2> QED
    BY <1>12, <2>2, TrasResponder DEF Servidos
<1> QED
  BY <1>6, <1>11, <1>12

LEMMA CambiarTipo ==
    ASSUME Servidos, NEW c \in Clientes, Cambiar(c)
    PROVE  Servidos'
<1>1. CASE LeerTam(c)
  <2>1. hilo[c].paso = "leerTam" /\ hilo[c].camino = <<>> /\ hilo[c].nodo # NoHay
    BY <1>1 DEF LeerTam, En, Nodo
  <2>2. hilo[c].nodo \in Nodos
    <3>1. ConEntrada(hilo[c]) /\ hilo[c].nodo \in Donde
      BY HiloTipo
    <3> QED
      BY <2>1, <3>1 DEF ConEntrada, Donde
  <2>3. tabla[hilo[c].nodo].tam \in Nat
    BY <2>2, EntradaCampos DEF Servidos, Memoria
  <2>4. Deja(c, "escribir", hilo[c].camino, hilo[c].nodo, hilo[c].viejo,
             tabla[hilo[c].nodo].tam, hilo[c].pila)
    BY <1>1, LeerTamDeja DEF Servidos
  <2>5. hilo[c].pedido.op \in DeQuien("escribir")
    BY <2>1, HiloTipo DEF DeQuien
  <2>6. /\ hilo[c].camino \in Seq(Nombres) /\ hilo[c].nodo \in Donde
        /\ hilo[c].viejo \in Donde /\ hilo[c].pila \in Seq(Nivel)
    BY HiloTipo
  <2>7. Hilos'
    BY <2>1, <2>2, <2>3, <2>4, <2>5, <2>6, DejaBien DEF Servidos
  <2> QED
    BY <1>1, <2>7, MismaMemoria, MismaRed DEF LeerTam, Servidos, varsDisco, varsRed
<1>2. CASE EscribirSinArchivo(c)
  BY <1>2, TrasCaer DEF EscribirSinArchivo
<1>3. CASE Escribir(c)
  <2> DEFINE n == Nodo(c)
             r == Escribe(tabla[n], disco, hilo[c].tam, Pedido(c).off, Pedido(c).n)
  <2>1. hilo[c].paso = "escribir"
    BY <1>3 DEF Escribir, En
  <2>2. n \in Nodos
    BY <2>1, HiloTipo DEF ConEntrada, Nodo
  <2>3. Pedido(c).off \in Nat /\ Pedido(c).n \in Nat
    <3>1. Pedido(c) \in Peticion /\ Pedido(c).op = "write"
      BY <2>1, PedidoTipo DEF DeQuien
    <3> QED
      BY <3>1, PeticionCampos
  <2>4. Resultado(r)
    BY <2>2, <2>3, EscribeTipo, HiloTipo DEF Servidos, Memoria
  <2>5. \/ r.fin \in Grave /\ Cae(r.fin)
        \/ /\ Guarda(n, r) /\ duenio' = Nadie /\ Responde(c, 1) /\ modo' = modo
           /\ cola' = cola /\ caida' = caida
    BY <1>3 DEF Escribir, Suelta
  <2> HIDE DEF r, n
  <2> QED
    BY <2>4, <2>5, TrasCaer, TrasResponder, MemoriaGuarda DEF Servidos
<1>4. CASE NoTrunca(c)
  BY <1>4, TrasResponder, MismaMemoria DEF NoTrunca, Servidos, varsDisco
<1>5. CASE Truncar(c)
  BY <1>5, TruncarTipo
<1> QED
  BY <1>1, <1>2, <1>3, <1>4, <1>5 DEF Cambiar

LEMMA MemoriaEstado ==
    ASSUME Memoria, NEW n, NEW x \in {"borrado", "ocupado", "directorio"}
    PROVE  [tabla EXCEPT ![n].estado = x] \in [Nodos -> Entrada]
<1>1. \A m \in Nodos : [tabla[m] EXCEPT !.estado = x] \in Entrada
  BY EntradaConEstado DEF Memoria
<1> QED
  BY <1>1 DEF Memoria

LEMMA DesligarTipo ==
    ASSUME Servidos, NEW c \in Clientes, Desligar(c)
    PROVE  Servidos'
<1>1. CASE SubirModo(c)
  <2>1. hilo[c].paso = "subirModo"
    BY <1>1 DEF SubirModo, En
  <2>2. hilo[c].pedido.op \in DeQuien("borrarBloques")
    BY <2>1, HiloTipo DEF DeQuien
  <2>3. hilo[c].camino # <<>> \/ hilo[c].nodo # 0
    BY <2>1, HiloTipo DEF ConEntrada
  <2>4. Hilos'
    BY <1>1, <2>2, <2>3, SigueTipo DEF SubirModo
  <2> QED
    BY <1>1, <2>4, MismaMemoria, MismaRed DEF SubirModo, Servidos, varsDisco, varsRed
<1>2. ASSUME hilo[c].paso = "borrarBloques", Sigue(c, "bajarModo") PROVE Hilos'
  <2>1. hilo[c].pedido.op \in DeQuien("bajarModo")
    BY <1>2, HiloTipo DEF DeQuien
  <2> QED
    BY <1>2, <2>1, SigueTipo
<1>3. CASE BorrarBloques(c)
  <2> DEFINE n == Nodo(c)
             r == EliminarNodos(tabla[n], disco, modo, 0)
  <2>1. hilo[c].paso = "borrarBloques" /\ hilo[c].camino = <<>> /\ Nodo(c) # NoHay
    BY <1>3 DEF BorrarBloques, En
  <2>2. n \in Nodos
    <3>1. ConEntrada(hilo[c]) /\ hilo[c].nodo \in Donde
      BY HiloTipo
    <3> QED
      BY <2>1, <3>1 DEF ConEntrada, Nodo, Donde
  <2>3. Resultado(r)
    BY <2>2, EliminarNodosTipo DEF Servidos, Memoria
  <2>4. \/ r.fin \in Grave /\ Cae(r.fin)
        \/ /\ Guarda(n, r) /\ duenio' = Nadie /\ Sigue(c, "bajarModo") /\ modo' = modo
           /\ cola' = cola /\ eco' = eco /\ caida' = caida
    BY <1>3 DEF BorrarBloques, Suelta, varsRed
  <2> HIDE DEF r, n
  <2> QED
    BY <1>2, <2>1, <2>3, <2>4, TrasCaer, MismaRed, MemoriaGuarda DEF Servidos
<1>4. CASE BorrarFuera(c)
  <2>1. CASE Cae("fuera")
    BY <2>1, TrasCaer
  <2>2. CASE ~Cae("fuera")
    BY <1>2, <1>4, <2>2, MismaMemoria, MismaRed
    DEF BorrarFuera, En, Suelta, Servidos, varsDisco, varsRed
  <2> QED
    BY <2>1, <2>2
<1>5. CASE BajarModo(c)
  <2>1. hilo[c].paso = "bajarModo"
    BY <1>5 DEF BajarModo, En
  <2>2. hilo[c].pedido.op \in DeQuien("quitar")
    BY <2>1, HiloTipo DEF DeQuien
  <2>3. Pedido(c).ruta \in Seq(Nombres)
    BY <2>1, PedidoTipo, PeticionCampos
  <2>4. Hilos'
    BY <1>5, <2>2, <2>3, BuscaTipo DEF BajarModo
  <2> QED
    BY <1>5, <2>4, MismaMemoria, MismaRed DEF BajarModo, Servidos, varsDisco, varsRed
<1>6. CASE NadaQueQuitar(c)
  BY <1>6, TrasResponder, MismaMemoria DEF NadaQueQuitar, Servidos, varsDisco
<1>7. CASE Quitar(c)
  <2>1. tabla' \in [Nodos -> Entrada]
    BY <1>7, MemoriaEstado DEF Quitar, Servidos, Memoria
  <2> QED
    BY <1>7, <2>1, MemoriaTabla, TrasResponder DEF Quitar, Servidos, Suelta
<1> QED
  BY <1>1, <1>3, <1>4, <1>5, <1>6, <1>7 DEF Desligar

LEMMA RenombrarTipo ==
    ASSUME Servidos, NEW c \in Clientes, Renombrar(c)
    PROVE  Servidos'
<1>1. CASE SinViejo(c)
  BY <1>1, TrasResponder, MismaMemoria DEF SinViejo, Servidos, varsDisco
<1>2. CASE BuscarViejo(c)
  <2>1. hilo[c].paso = "rename"
    BY <1>2 DEF BuscarViejo, En
  <2>2. hilo[c].pedido.op \in DeQuien("viejo")
    BY <2>1, HiloTipo DEF DeQuien
  <2>3. Pedido(c).ruta \in Seq(Nombres)
    BY <2>1, PedidoTipo, PeticionCampos
  <2>4. Hilos'
    BY <1>2, <2>2, <2>3, BuscaTipo DEF BuscarViejo
  <2> QED
    BY <1>2, <2>4, MismaMemoria, MismaRed DEF BuscarViejo, Servidos, varsDisco, varsRed
<1>3. ASSUME hilo[c].paso \in {"viejo", "mover"}
      PROVE  /\ Front(Pedido(c).ruta2) \in Seq(Nombres) /\ Last(Pedido(c).ruta2) \in Nombres
             /\ hilo[c].pedido.op = "rename"
  <2>1. Pedido(c) \in Peticion /\ Pedido(c).op = "rename"
    BY <1>3, PedidoTipo DEF DeQuien
  <2>2. Pedido(c).ruta2 \in Seq(Nombres) /\ Pedido(c).ruta2 # <<>>
    BY <2>1, PeticionCampos
  <2> QED
    BY <2>1, <2>2, FrontTipo DEF Pedido
<1>4. CASE BuscarDestino(c)
  <2>1. hilo[c].paso = "viejo"
    BY <1>4 DEF BuscarDestino, En
  <2>2. hilo[c].pedido.op \in DeQuien("mover") /\ Front(hilo[c].pedido.ruta2) \in Seq(Nombres)
    BY <1>3, <2>1 DEF DeQuien, Pedido
  <2>3. Deja(c, "mover", Front(hilo[c].pedido.ruta2), 0, hilo[c].nodo, hilo[c].tam, hilo[c].pila)
    BY <1>4, BuscarDestinoDeja DEF Servidos
  <2>4. hilo[c].nodo \in Donde /\ hilo[c].tam \in Nat /\ hilo[c].pila \in Seq(Nivel) /\ 0 \in Donde
    BY HiloTipo DEF Donde
  <2>5. Hilos'
    BY <2>2, <2>3, <2>4, DejaBien DEF Servidos
  <2> QED
    BY <1>4, <2>5, MismaMemoria, MismaRed DEF BuscarDestino, Servidos, varsDisco, varsRed
<1>5. CASE Mover(c)
  <2> DEFINE v == hilo[c].viejo
  <2>1. Last(Pedido(c).ruta2) \in Nombres /\ Nodo(c) \in Donde
    BY <1>3, <1>5, HiloTipo DEF Mover, En, Nodo
  <2>2. \A m \in Nodos : [[tabla[m] EXCEPT !.nombre = Last(Pedido(c).ruta2)]
                              EXCEPT !.padre = Nodo(c)] \in Entrada
    BY ZenonT(60), <2>1 DEF Servidos, Memoria, Entrada, Donde
  <2>3. tabla' = [tabla EXCEPT ![v] = [[tabla[v] EXCEPT !.nombre = Last(Pedido(c).ruta2)]
                                           EXCEPT !.padre = Nodo(c)]]
    BY <1>5 DEF Mover, Servidos, Memoria
  <2>4. tabla' \in [Nodos -> Entrada]
    BY ZenonT(60), <2>2, <2>3 DEF Servidos, Memoria
  <2> QED
    BY <1>5, <2>4, MemoriaTabla, TrasResponder DEF Mover, Servidos, Suelta
<1>6. CASE MoverFuera(c)
  <2>1. CASE Cae("fuera")
    BY <2>1, TrasCaer
  <2>2. CASE ~Cae("fuera")
    BY <1>6, <2>2, MismaMemoria, TrasResponder
    DEF MoverFuera, Suelta, Servidos, varsDisco
  <2> QED
    BY <2>1, <2>2
<1> QED
  BY <1>1, <1>2, <1>4, <1>5, <1>6 DEF Renombrar

LEMMA NivelPila ==
    ASSUME NEW pila \in Seq(Nivel), pila # <<>>
    PROVE  /\ Len(pila) \in Nat \ {0} /\ \A k \in 1..Len(pila) : pila[k] \in Nivel
           /\ pila[1] \in Nivel /\ pila[1].i \in Nat \ {0} /\ pila[1].dir \in Nodos \cup {0}
           /\ [pila EXCEPT ![1].i = pila[1].i + 1] \in Seq(Nivel)
           /\ [pila EXCEPT ![1].i = pila[1].i + 1] # <<>>
<1>1. Len(pila) \in Nat \ {0}
  BY EmptySeq
<1>2. \A k \in 1..Len(pila) : pila[k] \in Nivel
  BY ElementOfSeq
<1>3. pila[1] \in Nivel /\ pila[1].i \in Nat \ {0} /\ pila[1].dir \in Nodos \cup {0}
  BY <1>1, <1>2 DEF Nivel
<1> DEFINE e == [pila[1] EXCEPT !.i = pila[1].i + 1]
<1>4. e \in Nivel
  BY <1>3 DEF Nivel
<1>5. [pila EXCEPT ![1].i = pila[1].i + 1] = [pila EXCEPT ![1] = e]
  OBVIOUS
<1> HIDE DEF e
<1>6. [pila EXCEPT ![1] = e] \in Seq(Nivel) /\ Len([pila EXCEPT ![1] = e]) = Len(pila)
  BY <1>1, <1>4, ExceptSeq
<1>7. [pila EXCEPT ![1] = e] # <<>>
  BY <1>1, <1>6, EmptySeq
<1> QED
  BY <1>1, <1>2, <1>3, <1>5, <1>6, <1>7

LEMMA AvanzaTipo ==
    ASSUME Servidos, NEW c \in Clientes, hilo[c].paso \in {"mirar", "revisar"},
           Apila(c, Avanza(c), "mirar")
    PROVE  Hilos'
<1>1. hilo[c].pila \in Seq(Nivel) /\ hilo[c].pila # <<>> /\ hilo[c].pedido.op = "rmdir"
  BY HiloTipo DEF ConPila, DeQuien
<1>2. Avanza(c) \in Seq(Nivel) /\ Avanza(c) # <<>>
  BY <1>1, NivelPila DEF Avanza
<1> QED
  BY <1>1, <1>2, ApilaTipo

LEMMA BorrarCarpetaTipo ==
    ASSUME Servidos, NEW c \in Clientes, BorrarCarpeta(c)
    PROVE  Servidos'
<1> DEFINE pila == hilo[c].pila
<1>1. ASSUME hilo[c].paso \in {"mirar", "borrarArchivo", "revisar"}
      PROVE  /\ pila \in Seq(Nivel) /\ pila # <<>>
             /\ hilo[c].pedido.op = "rmdir" /\ Cima(c) \in Nivel
             /\ Cima(c).i \in Nat \ {0} /\ Cima(c).dir \in Nodos \cup {0}
             /\ hilo[c].paso \in {"borrarArchivo", "revisar"} => Cima(c).i \in Nodos
  <2>1. pila \in Seq(Nivel) /\ pila # <<>> /\ hilo[c].pedido.op = "rmdir"
    BY <1>1, HiloTipo DEF ConPila, DeQuien
  <2>2. hilo[c].paso \in {"borrarArchivo", "revisar"} => Cima(c).i \in Nodos
    BY <1>1, HiloTipo DEF ConPila, Cima
  <2> QED
    BY <2>1, <2>2, NivelPila DEF Cima
<1>2. ASSUME hilo[c].paso = "borrarArchivo", Sigue(c, "revisar") PROVE Hilos'
  <2>1. hilo[c].pedido.op \in DeQuien("revisar")
    BY <1>1, <1>2 DEF DeQuien
  <2> QED
    BY <1>1, <1>2, <2>1, SigueTipo DEF Cima
<1>3. CASE SinCarpeta(c)
  BY <1>3, TrasResponder, MismaMemoria DEF SinCarpeta, Servidos, varsDisco
<1>4. CASE Vaciar(c)
  <2>1. hilo[c].paso = "rmdir" /\ Nodo(c) \in Nodos \cup {0}
    BY <1>4, HiloTipo DEF Vaciar, En, Nodo, Donde
  <2>2. hilo[c].pedido.op = "rmdir"
    BY <2>1, HiloTipo DEF DeQuien
  <2>3. [dir |-> Nodo(c), i |-> 1] \in Nivel
    BY <2>1 DEF Nivel
  <2> DEFINE nueva == <<[dir |-> Nodo(c), i |-> 1]>>
  <2>4. nueva \in Seq(Nivel) /\ nueva # <<>>
    BY <2>3
  <2>5. Apila(c, nueva, "mirar")
    BY <1>4 DEF Vaciar
  <2> HIDE DEF nueva
  <2>6. Hilos'
    BY <2>2, <2>4, <2>5, ApilaTipo
  <2> QED
    BY <1>4, <2>6, MismaMemoria, MismaRed DEF Vaciar, Servidos, varsDisco, varsRed
<1>5. CASE Saltear(c)
  BY <1>5, AvanzaTipo, MismaMemoria, MismaRed DEF Saltear, En, Servidos, varsDisco, varsRed
<1>6. CASE Revisar(c)
  BY <1>6, AvanzaTipo, MismaMemoria, MismaRed DEF Revisar, En, Servidos, varsDisco, varsRed
<1>7. CASE MirarArchivo(c)
  <2>1. hilo[c].paso = "mirar" /\ Cima(c).i \in Nodos
    BY <1>7 DEF MirarArchivo, En
  <2>2. hilo[c].pedido.op \in DeQuien("borrarArchivo")
    BY <1>1, <2>1 DEF DeQuien
  <2>3. Hilos'
    BY <1>1, <1>7, <2>1, <2>2, SigueTipo DEF MirarArchivo, Cima
  <2> QED
    BY <1>7, <2>3, MismaMemoria, MismaRed DEF MirarArchivo, Servidos, varsDisco, varsRed
<1>8. CASE BorrarArchivo(c)
  <2> DEFINE i == Cima(c).i
             r == EliminarNodos(tabla[i - 1], disco, modo, 0)
             t == [tabla EXCEPT ![i - 1] = r.f]
  <2>1. hilo[c].paso = "borrarArchivo" /\ i \in Nodos /\ i > 1
    BY <1>1, <1>8 DEF BorrarArchivo, En
  <2>2. i - 1 \in Nodos
    <3> HIDE DEF i
    <3> QED
      BY <2>1, SacAssumption DEF Nodos
  <2>3. tabla[i - 1] \in Entrada
    BY <2>2 DEF Servidos, Memoria
  <2>4. Resultado(r)
    BY <2>3, EliminarNodosTipo DEF Servidos, Memoria
  <2>5. \/ r.fin \in Grave /\ Cae(r.fin)
        \/ /\ tabla' = [t EXCEPT ![i].estado = "borrado"]
           /\ disco' = r.d /\ modo' = 0 /\ duenio' = Nadie /\ Sigue(c, "revisar")
           /\ cola' = cola /\ eco' = eco /\ caida' = caida
    BY <1>8 DEF BorrarArchivo, Suelta, varsRed
  <2> HIDE DEF r, i
  <2>6. t \in [Nodos -> Entrada]
    BY <2>4 DEF Resultado, Servidos, Memoria
  <2> HIDE DEF t
  <2>7. [t EXCEPT ![i].estado = "borrado"] \in [Nodos -> Entrada]
    <3>1. \A m \in Nodos : [t[m] EXCEPT !.estado = "borrado"] \in Entrada
      BY <2>6, EntradaConEstado
    <3> QED
      BY <2>6, <3>1
  <2>8. CASE r.fin \in Grave /\ Cae(r.fin)
    BY <2>8, TrasCaer
  <2>9. CASE /\ tabla' = [t EXCEPT ![i].estado = "borrado"]
             /\ disco' = r.d /\ modo' = 0 /\ duenio' = Nadie /\ Sigue(c, "revisar")
             /\ cola' = cola /\ eco' = eco /\ caida' = caida
    <3>1. Memoria'
      BY <2>4, <2>7, <2>9 DEF Memoria, Resultado
    <3> QED
      BY <1>2, <2>1, <2>9, <3>1, MismaRed DEF Servidos
  <2> QED
    BY <2>5, <2>8, <2>9
<1>9. CASE BorrarPrimero(c)
  <2>1. CASE Cae("fuera")
    BY <2>1, TrasCaer
  <2>2. CASE ~Cae("fuera")
    <3>1. tabla' \in [Nodos -> Entrada] /\ disco' = disco /\ modo' = 0
      <4>1. [tabla EXCEPT ![1].estado = "borrado"] \in [Nodos -> Entrada]
        BY MemoriaEstado DEF Servidos
      <4>2. tabla' = [tabla EXCEPT ![1].estado = "borrado"] /\ disco' = disco /\ modo' = 0
        BY <1>9, <2>2 DEF BorrarPrimero
      <4> QED
        BY <4>1, <4>2
    <3>2. Memoria'
      BY <3>1, MemoriaTabla DEF Servidos
    <3> QED
      BY <1>2, <1>9, <2>2, <3>2, MismaRed DEF BorrarPrimero, En, Suelta, Servidos, varsRed
  <2> QED
    BY <2>1, <2>2
<1>10. CASE MirarDirectorio(c)
  <2>1. hilo[c].paso \in {"mirar", "revisar"} /\ Cima(c).i \in Nodos
    BY <1>1, <1>10 DEF MirarDirectorio, En
  <2> DEFINE e == [dir |-> Cima(c).i, i |-> 1]
  <2>2. e \in Nivel
    BY <2>1 DEF Nivel
  <2>3. <<e>> \o pila \in Seq(Nivel) /\ <<e>> \o pila # <<>>
    <3>1. <<e>> \in Seq(Nivel) /\ pila \in Seq(Nivel) /\ <<e>> # <<>>
      BY <1>1, <2>1, <2>2
    <3> HIDE DEF e
    <3> QED
      BY <3>1, ConcatProperties, ConcatEqualIffEmpty
  <2>4. Apila(c, <<e>> \o pila, "mirar")
    BY <1>10 DEF MirarDirectorio
  <2> HIDE DEF e, pila
  <2>5. Hilos'
    BY <1>1, <2>1, <2>3, <2>4, ApilaTipo
  <2> QED
    BY <1>10, <2>5, MismaMemoria, MismaRed DEF MirarDirectorio, Servidos, varsDisco, varsRed
<1>11. CASE CerrarDirectorio(c)
  <2>1. hilo[c].paso = "mirar"
    BY <1>11 DEF CerrarDirectorio, En
  <2>2. Memoria'
    <3>1. tabla' \in [Nodos -> Entrada]
      BY <1>11, MemoriaEstado DEF CerrarDirectorio, Servidos
    <3> QED
      BY <1>11, <3>1, MemoriaTabla DEF CerrarDirectorio, Servidos
  <2>3. CASE Len(pila) = 1
    BY <1>11, <2>2, <2>3, TrasResponder DEF CerrarDirectorio, Servidos, Suelta
  <2>4. CASE Len(pila) # 1
    <3> DEFINE q == Tail(pila)
               nueva == [q EXCEPT ![1].i = q[1].i + 1]
    <3>1. Apila(c, nueva, "mirar") /\ eco' = eco
      BY <1>11, <2>4 DEF CerrarDirectorio
    <3>2. q \in Seq(Nivel) /\ q # <<>>
      <4>1. pila \in Seq(Nivel) /\ pila # <<>>
        BY <1>1, <2>1
      <4> HIDE DEF pila
      <4>2. Len(pila) \in Nat \ {0} /\ Tail(pila) \in Seq(Nivel)
            /\ Len(Tail(pila)) = Len(pila) - 1
        BY <4>1, EmptySeq, HeadTailProperties
      <4>3. Len(Tail(pila)) # 0
        BY <2>4, <4>2
      <4> QED
        BY <4>2, <4>3, EmptySeq
    <3> HIDE DEF q
    <3>3. nueva \in Seq(Nivel) /\ nueva # <<>>
      BY <3>2, NivelPila
    <3> HIDE DEF nueva
    <3>4. Hilos'
      BY <1>1, <2>1, <3>1, <3>3, ApilaTipo
    <3> QED
      BY <1>11, <2>2, <3>1, <3>4, MismaRed DEF CerrarDirectorio, Servidos, Suelta
  <2> QED
    BY <2>3, <2>4
<1> QED
  BY <1>3, <1>4, <1>5, <1>6, <1>7, <1>8, <1>9, <1>10, <1>11 DEF BorrarCarpeta

LEMMA ServidorTipo ==
    ASSUME Servidos, NEW c \in Clientes, Servidor(c)
    PROVE  Servidos'
BY TomarTipo, BajarTipo, CrearTipo, ConsultarTipo, CambiarTipo, DesligarTipo,
   RenombrarTipo, BorrarCarpetaTipo DEF Servidor

-----------------------------------------------------------------------------
(* The clients, and the theorem.                                           *)
ClientesBien == cliente \in [Clientes -> {"libre", "espera", "fin"}]

TiposSac == Servidos /\ ClientesBien

LEMMA ClienteTipo ==
    ASSUME TiposSac, NEW c \in Clientes, Cliente(c)
    PROVE  TiposSac'
<1>1. CASE Pide(c)
  <2>1. PICK p \in Pedidos[c] : Puede(p) /\ cola' = [cola EXCEPT ![c] = Append(@, p)]
    BY <1>1 DEF Pide
  <2>2. p \in Legal
    BY <2>1, PuedeLegal, PedidosAssumption
  <2>3. Append(cola[c], p) \in Seq(Legal)
    BY <2>2, AppendProperties DEF TiposSac, Servidos, Red
  <2>4. cola' \in [Clientes -> Seq(Legal)]
    BY <2>1, <2>3 DEF TiposSac, Servidos, Red
  <2>5. Hilos'
    BY <1>1, HilosIguales DEF Pide, TiposSac, Servidos
  <2>6. ClientesBien'
    BY <1>1 DEF Pide, TiposSac, ClientesBien
  <2> QED
    BY <1>1, <2>4, <2>5, <2>6 DEF Pide, TiposSac, Servidos, Red, Memoria, Otros, varsDisco
<1>2. CASE Lee(c)
  <2>1. Hilos'
    BY <1>2, HilosIguales DEF Lee, TiposSac, Servidos
  <2>2. Red'
    BY <1>2 DEF Lee, TiposSac, Servidos, Red
  <2>3. ClientesBien'
    BY <1>2 DEF Lee, TiposSac, ClientesBien
  <2> QED
    BY <1>2, <2>1, <2>2, <2>3 DEF Lee, TiposSac, Servidos, Memoria, Otros, varsDisco
<1>3. CASE Desmonta(c)
  <2>1. Hilos'
    BY <1>3, HilosIguales DEF Desmonta, TiposSac, Servidos, vars
  <2>2. ClientesBien'
    BY <1>3 DEF Desmonta, TiposSac, ClientesBien
  <2> QED
    BY <1>3, <2>1, <2>2 DEF Desmonta, TiposSac, Servidos, Memoria, Red, Otros, vars
<1>4. CASE Cierra(c)
  <2>1. Servidos
    BY DEF TiposSac
  <2>2. hilo[c].paso = "libre" /\ Sigue(c, "fin")
    BY <1>4 DEF Cierra, Sigue
  <2>3. hilo[c].pedido.op \in DeQuien("fin")
    BY <2>1, <2>2, HiloTipo DEF DeQuien
  <2>4. Hilos'
    BY <2>1, <2>2, <2>3, SigueTipo
  <2> QED
    BY <1>4, <2>4 DEF Cierra, TiposSac, Servidos, Memoria, Red, Otros, varsDisco, varsRed,
                      ClientesBien
<1> QED
  BY <1>1, <1>2, <1>3, <1>4 DEF Cliente

LEMMA TiposInit == InitSistema => TiposSac
<1> SUFFICES ASSUME InitSistema PROVE TiposSac
  OBVIOUS
<1>1. Memoria
  <2>1. Vacia \in Entrada
    BY DEF Vacia, Entrada
  <2>2. [usados |-> {}, libres |-> Cardinality(Datos), cont |-> [b \in Datos |-> Ceros]] \in Disco
    BY CardDatos, BloquesEscritos DEF Disco
  <2> QED
    BY <2>1, <2>2 DEF InitSistema, Init, Memoria
<1>2. Red
  BY EmptySeq DEF InitSistema, Init, Red
<1>3. Hilos
  BY OciosoBien DEF InitSistema, Init, Hilos
<1> QED
  BY <1>1, <1>2, <1>3 DEF InitSistema, Init, TiposSac, Servidos, Otros, ClientesBien

LEMMA TiposPaso == TiposSac /\ [NextSistema]_varsSistema => TiposSac'
<1> SUFFICES ASSUME TiposSac, [NextSistema]_varsSistema PROVE TiposSac'
  OBVIOUS
<1>1. CASE NextSistema
  <2>1. PICK c \in Clientes : Cliente(c) \/ (Servidor(c) /\ UNCHANGED cliente)
    BY <1>1 DEF NextSistema
  <2>2. CASE Servidor(c) /\ UNCHANGED cliente
    BY <2>2, ServidorTipo DEF TiposSac, ClientesBien
  <2> QED
    BY <2>1, <2>2, ClienteTipo
<1>2. CASE UNCHANGED varsSistema
  <2>1. Hilos'
    BY <1>2, HilosIguales DEF varsSistema, vars, TiposSac, Servidos
  <2> QED
    BY <1>2, <2>1 DEF varsSistema, vars, TiposSac, Servidos, Memoria, Red, Otros, ClientesBien
<1> QED
  BY <1>1, <1>2

LEMMA TiposDicen == TiposSac => TypeOK
<1> SUFFICES ASSUME TiposSac PROVE TypeOK
  OBVIOUS
<1>1. \A b \in Datos : \A i \in 0..P - 1 :
        disco.cont[b][i] \in Datos \/ disco.cont[b][i] <= 0
  BY ZenonT(60) DEF TiposSac, Servidos, Memoria, Disco, Contenido
<1>2. disco.usados \subseteq Datos /\ disco.libres \in 0..Cardinality(Datos)
  BY DiscoCampos DEF TiposSac, Servidos, Memoria
<1>3. \A c \in Clientes : hilo[c].nodo \in Donde /\ hilo[c].viejo \in Donde
  BY HiloTipo DEF TiposSac
<1> QED
  BY <1>1, <1>2, <1>3 DEF TypeOK, TiposSac, Servidos, Memoria, Red, Otros, ClientesBien, Donde

LEMMA TiposInvariante == SpecSistema => []TiposSac
BY TiposInit, TiposPaso, PTL DEF SpecSistema

(* With any clients, disk and requests: the table, the bitmap and the      *)
(* blocks keep the form the code reads them with, whatever the threads do  *)
(* in between.                                                             *)
THEOREM TiposSiempre == SpecSistema => []TypeOK
BY TiposInvariante, TiposDicen, PTL
=============================================================================
