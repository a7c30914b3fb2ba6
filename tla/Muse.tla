-------------------------------- MODULE Muse --------------------------------
(***************************************************************************)
(* MUSE: the memory server (src/Memoria) and the programs that call it     *)
(* through src/Libmuse/libmuse.c.                                          *)
(*                                                                         *)
(* The server is one thread: it takes a request whole, walks the loops of  *)
(* its handler one round per step, answers, and only then looks at the     *)
(* sockets again.  A program waits for the answer of each call but those   *)
(* of init, free and close, which the server reads in the order sent.      *)
(* The key of a table is the descriptor of the program, which the next one *)
(* to connect gets again: both are the entry of client_socket here.        *)
(***************************************************************************)
EXTENDS MuseHeap

CONSTANTS
    Tams,           \* how many bytes a program asks for
    Mapean,         \* the programs that call muse_map, by their entry
    MaxPedidos      \* bound of the model: connections and calls in a behaviour

ASSUME PedidosAssumption ==
    Tams \subseteq Nat \ {0} /\ Mapean \subseteq Slots /\ MaxPedidos \in Nat

VARIABLES
    m,          \* the memory of the server, see MuseMarcos
    tarea,      \* the request the server is at, and how far
    programa,   \* of each entry of client_socket
    bloques,    \* what the program there holds: address, bytes, last value written
    respuesta,  \* the last answer
    pedidos     \* how many calls were made

vars == <<m, tarea, programa, bloques, respuesta, pedidos>>

Bloque == [dir: Nat, n: Nat, valor: Valores \cup {"cero"}]
Ninguna ==
    [op |-> "nada", s |-> 0, n |-> 0, dir |-> 0, v |-> "cero", k |-> 0, hecho |-> 0,
     resta |-> 0, leido |-> <<>>]
SinRespuesta == [op |-> "nada", s |-> 0, dir |-> 0, n |-> 0, res |-> 0, bytes |-> <<>>]

\* What the handler of muse_map answers to every call: an address of nobody.
DirMapa == NMarcos * PAG + 1000

Init ==
    /\ m = Arranque
    /\ tarea = Ninguna
    /\ programa = [s \in Slots |-> "ausente"]
    /\ bloques = [s \in Slots |-> {}]
    /\ respuesta = SinRespuesta
    /\ pedidos = 0
----------------------------------------------------------------------------
(* Connections. *)

Llamar == tarea = Ninguna /\ m.caida = "no" /\ pedidos < MaxPedidos /\ pedidos' = pedidos + 1

\* The first entry that is free, and the lowest descriptor.
Aceptar ==
    /\ Llamar
    /\ m.clientes # Slots
    /\ LET s == Menor(Slots \ m.clientes)
       IN  /\ m' = [m EXCEPT !.clientes = @ \cup {s}]
           /\ programa' = [programa EXCEPT ![s] = "conectado"]
    /\ UNCHANGED <<tarea, bloques, respuesta>>

\* crearTablaSegmentosProceso leaves a table that is there as it is.
ConTabla(t) == IF t.tiene THEN t ELSE [SinSegmento EXCEPT !.tiene = TRUE]

MuseInit(s) ==
    /\ Llamar
    /\ programa[s] = "conectado"
    /\ m' = [m EXCEPT !.tablas[s] = ConTabla(@)]
    /\ programa' = [programa EXCEPT ![s] = "listo"]
    /\ UNCHANGED <<tarea, bloques, respuesta>>

\* muse_close, whose handler looks for the table in the wrong kind of list and
\* does nothing, and the end of the program.
MuseClose(s) ==
    /\ Llamar
    /\ programa[s] # "ausente"
    /\ m' = [m EXCEPT !.clientes = @ \ {s}]
    /\ programa' = [programa EXCEPT ![s] = "ausente"]
    /\ bloques' = [bloques EXCEPT ![s] = {}]
    /\ UNCHANGED <<tarea, respuesta>>
----------------------------------------------------------------------------
(* musemalloc *)

\* The program gets address dir of the memory a, unless the server fell.
Entregar(a, s, n, dir) ==
    /\ m' = a
    /\ IF a.caida # "no" THEN UNCHANGED <<bloques, respuesta>>
       ELSE /\ bloques' = [bloques EXCEPT ![s] =
                               @ \cup {[dir |-> dir, n |-> n, valor |-> "cero"]}]
            /\ respuesta' = [op |-> "alloc", s |-> s, dir |-> dir, n |-> n, res |-> 0,
                             bytes |-> <<>>]
    /\ tarea' = Ninguna

\* The address of the data of header h.
EntregarDatos(a, s, n, h) ==
    LET b == ObtenerPosicion(a, s, PaginaDatos(h))
    IN  Entregar(b, s, n, Posicion(b, s, PaginaDatos(h)) + InicioDatos(h))

Reservando(s, n, resta) == [Ninguna EXCEPT !.op = "alloc", !.s = s, !.n = n, !.resta = resta]

CrearSegmento(s, n) ==
    /\ ~ m.tablas[s].enLista
    /\ m' = PrimeraPagina(m, s, n)
    /\ tarea' = Reservando(s, n, RestaCrear(m', s, n))
    /\ UNCHANGED <<bloques, respuesta>>

Reusar(s, n) ==
    /\ m.tablas[s].enLista
    /\ Reusa(m, s, n)
    /\ EntregarDatos(m, s, n, Reusado(m, s, n))

ExtenderSegmento(s, n) ==
    /\ m.tablas[s].enLista
    /\ ~ Reusa(m, s, n)
    /\ m' = OcuparUltimo(m, s, n)
    /\ tarea' = Reservando(s, n, RestaExtender(m, s, n))
    /\ UNCHANGED <<bloques, respuesta>>

MuseAlloc(s, n) ==
    /\ Llamar
    /\ programa[s] = "listo"
    /\ CrearSegmento(s, n) \/ Reusar(s, n) \/ ExtenderSegmento(s, n)
    /\ UNCHANGED programa

En(op) == tarea.op = op /\ m.caida = "no" /\ UNCHANGED <<programa, pedidos>>

AsignarNuevaPagina ==
    /\ En("alloc")
    /\ tarea.resta > PAG
    /\ m' = AgregarPagina(m, tarea.s)
    /\ tarea' = [tarea EXCEPT !.resta = @ - PAG]
    /\ UNCHANGED <<bloques, respuesta>>

AsignarUltimaPagina ==
    /\ En("alloc")
    /\ tarea.resta \in 1..PAG
    /\ m' = CerrarSegmento(m, tarea.s, tarea.resta)
    /\ tarea' = [tarea EXCEPT !.resta = 0]
    /\ UNCHANGED <<bloques, respuesta>>

\* A segment enters the list of its program when it is complete.
ContestarAlloc ==
    /\ En("alloc")
    /\ tarea.resta <= 0
    /\ LET s == tarea.s
           a == ObtenerPosicion([m EXCEPT !.tablas[s].enLista = TRUE], s, 0)
       IN  IF m.tablas[s].enLista
           THEN EntregarDatos(m, s, tarea.n, Headers(m, s)[Len(Headers(m, s)) - 1])
           ELSE Entregar(a, s, tarea.n, Posicion(a, s, 0) + HM)
----------------------------------------------------------------------------
(* museget, musecpy and musefree *)

Contestar(op, b, s, res, bytes) ==
    respuesta' = [op |-> op, s |-> s, dir |-> b.dir, n |-> b.n, res |-> res, bytes |-> bytes]

\* An address outside of the segment is answered with NULL, which the handler
\* then copies from.
MuseGet(s, b) ==
    /\ Llamar
    /\ IF EnSegmento(m, s, b.dir) /\ b.dir + b.n <= m.tablas[s].tam
       THEN /\ tarea' = [Ninguna EXCEPT !.op = "get", !.s = s, !.n = b.n, !.dir = b.dir,
                                        !.k = b.dir \div PAG]
            /\ UNCHANGED m
       ELSE m' = Caer(m, "nulo") /\ UNCHANGED tarea
    /\ UNCHANGED <<programa, bloques, respuesta>>

UltimaDeGet == (tarea.dir + tarea.n) \div PAG

LeerUnaPagina ==
    /\ En("get")
    /\ tarea.k <= UltimaDeGet
    /\ m' = LeerPagina(m, tarea.s, tarea.k)
    /\ tarea' = [tarea EXCEPT !.k = @ + 1,
                               !.leido = IF m'.caida # "no" THEN @ ELSE @ \o Leido(m', tarea.s, tarea.k)]
    /\ UNCHANGED <<bloques, respuesta>>

ContestarGet ==
    /\ En("get")
    /\ tarea.k > UltimaDeGet
    /\ LET desde == tarea.dir % PAG
       IN  Contestar("get", tarea, tarea.s, 0, SubSeq(tarea.leido, desde + 1, desde + tarea.n))
    /\ tarea' = Ninguna
    /\ UNCHANGED <<m, bloques>>

\* The program that writes, and takes what it wrote for what is there.
Escrito(s, b, v) ==
    bloques' = [bloques EXCEPT ![s] = (@ \ {b}) \cup {[b EXCEPT !.valor = v]}]

MuseCpy(s, b, v) ==
    LET paradas == IF EnSegmento(m, s, b.dir) THEN Paradas(m, s, b.dir, b.n) ELSE {}
        h == Headers(m, s)[Menor(paradas)]
    IN  /\ Llamar
        /\ IF paradas = {}
           THEN /\ Contestar("cpy", b, s, -1, Tira(v, 0, b.n))
                /\ UNCHANGED <<m, tarea, bloques>>
           ELSE IF FaltaPagina(m, s, h, b.n)
           THEN m' = Caer(m, "nulo") /\ UNCHANGED <<tarea, bloques, respuesta>>
           ELSE /\ m' = CopiarPrimera(m, s, h, b.dir, b.n, v)
                /\ tarea' = [Ninguna EXCEPT !.op = "cpy", !.s = s, !.n = b.n, !.dir = b.dir,
                                !.v = v, !.k = PaginaDatos(h) + 1, !.hecho = EnPrimera(h, b.dir, b.n)]
                /\ Escrito(s, b, v)
                /\ UNCHANGED respuesta
        /\ UNCHANGED programa

(* Mutant: the last piece is taken for a whole page.                       *)
MutAvanceEntero(hecho, n) == hecho + PAG
(* Mutant: the last piece is not discounted from what is left to copy.     *)
MutAvance(hecho, n) == IF hecho + PAG < n THEN hecho + PAG ELSE hecho
Avance(hecho, n) == IF hecho + PAG < n THEN hecho + PAG ELSE n

CopiarUnaPagina ==
    /\ En("cpy")
    /\ tarea.hecho < tarea.n
    /\ m' = CopiarPagina(m, tarea.s, tarea.k, tarea.v, tarea.hecho, tarea.n)
    /\ tarea' = [tarea EXCEPT !.k = @ + 1, !.hecho = Avance(@, tarea.n)]
    /\ UNCHANGED <<bloques, respuesta>>

ContestarCpy ==
    /\ En("cpy")
    /\ tarea.hecho = tarea.n
    /\ Contestar("cpy", tarea, tarea.s, 0, Tira(tarea.v, 0, tarea.n))
    /\ tarea' = Ninguna
    /\ UNCHANGED <<m, bloques>>

\* A free has no answer.
LiberarBloque(s, b) ==
    /\ Llamar
    /\ m' \in MuseFree(m, s, b.dir)
    /\ bloques' = [bloques EXCEPT ![s] = @ \ {b}]
    /\ UNCHANGED <<tarea, programa, respuesta>>
----------------------------------------------------------------------------
(* The handlers of map, sync and unmap answer and do nothing else. *)

MuseMap(s, n) ==
    /\ Llamar
    /\ programa[s] = "listo"
    /\ bloques' = [bloques EXCEPT ![s] = @ \cup {[dir |-> DirMapa, n |-> n, valor |-> "cero"]}]
    /\ respuesta' = [op |-> "map", s |-> s, dir |-> DirMapa, n |-> n, res |-> 0, bytes |-> <<>>]
    /\ UNCHANGED <<m, tarea, programa>>

MuseSync(s, b) == Llamar /\ Contestar("sync", b, s, 0, <<>>) /\ UNCHANGED <<m, tarea, programa, bloques>>

MuseUnmap(s, b) ==
    /\ Llamar
    /\ Contestar("unmap", b, s, 0, <<>>)
    /\ bloques' = [bloques EXCEPT ![s] = @ \ {b}]
    /\ UNCHANGED <<m, tarea, programa>>
----------------------------------------------------------------------------
UsaBloque(s, b) ==
    \/ MuseGet(s, b)
    \/ \E v \in Valores : MuseCpy(s, b, v)
    \/ b.dir # DirMapa /\ LiberarBloque(s, b)
    \/ b.dir = DirMapa /\ (MuseSync(s, b) \/ MuseUnmap(s, b))

Programa(s) ==
    \/ MuseInit(s)
    \/ MuseClose(s)
    \/ \E n \in Tams : MuseAlloc(s, n) \/ (s \in Mapean /\ MuseMap(s, n))
    \/ \E b \in bloques[s] : UsaBloque(s, b)

\* A round of the handler the server is in.
Servir ==
    \/ AsignarNuevaPagina \/ AsignarUltimaPagina \/ ContestarAlloc
    \/ LeerUnaPagina \/ ContestarGet
    \/ CopiarUnaPagina \/ ContestarCpy

Next == Aceptar \/ (\E s \in Slots : Programa(s)) \/ Servir

Spec == Init /\ [][Next]_vars
\* The server has one thread, and nothing in a handler waits: as long as it has a
\* request in hand a round of it can be made (Ocupado is ENABLED Servir), and is.
Ocupado == tarea # Ninguna /\ m.caida = "no"
SpecJusta == Spec /\ ([]<>(~ Ocupado) \/ []<><<Servir>>_vars)
=============================================================================
