----------------------------- MODULE MuseMarcos -----------------------------
(***************************************************************************)
(* The frames of MUSE, its modified clock and its swap                     *)
(* (src/Memoria/muse.c), as operators on the memory m of the server:       *)
(*                                                                         *)
(*   m.clientes  the entries of client_socket that are in use              *)
(*   m.tablas    tablasSegmentos, by the entry of the descriptor that is   *)
(*               its key; a program has at most one segment                *)
(*   m.marcos    bitmapFrames                m.puntero   punteroClock      *)
(*   m.swap      the bits set in bitmapSwap  m.disco     swap.txt          *)
(*   m.mem       memoriaPrincipal            m.elegido   the last frame    *)
(*                                           that asignarUnFrame returned  *)
(*   m.caida     why the server fell, or "no".                             *)
(*                                                                         *)
(* Each operator is total: after a fall the rest of the handler is still   *)
(* computed, on a memory that nobody looks at any more.                    *)
(***************************************************************************)
EXTENDS Integers, Sequences, FiniteSets

CONSTANTS
    NMarcos,    \* cantidadFrames
    PAG,        \* PAGE_SIZE
    NSwap,      \* entries of bitmapSwap
    NSlots,     \* entries of client_socket
    Valores     \* what programs write

ASSUME MuseAssumption ==
    /\ NMarcos \in Nat \ {0} /\ NSwap \in Nat \ {0} /\ NSlots \in Nat \ {0}
    /\ PAG \in Nat /\ PAG >= 4      \* half a header fits in a page
    /\ Valores \subseteq STRING

Marcos == 0..(NMarcos - 1)
Indices == 0..(NSwap - 1)
Slots == 0..(NSlots - 1)

\* A byte is known by the datum it belongs to and its place in it.
Byte == (Valores \cup {"cab", "basura", "cero"}) \X Nat
Direcciones == 0..(NMarcos * PAG - 1)
Tira(v, k, n) == [i \in 1..n |-> <<v, k + i>>]      \* bytes k+1 to k+n of datum v

Menor(S) == CHOOSE x \in S : \A y \in S : x <= y

Marco == [uso: 0..1, mod: 0..1, libre: BOOLEAN]
Pagina == [presencia: BOOLEAN, marco: Marcos \cup {-1}, indice: Indices \cup {-1}]
Heap == [dir: Nat, libre: BOOLEAN, size: Nat, bytes: 1..5]
Segmento == [tiene: BOOLEAN, enLista: BOOLEAN, paginas: Seq(Pagina), heaps: Seq(Heap), tam: Nat]
Caidas == {"no", "nulo", "fuera", "sinIniciar"}
Memoria ==
    [clientes: SUBSET Slots, tablas: [Slots -> Segmento], marcos: [Marcos -> Marco],
     puntero: Marcos, swap: SUBSET Indices, disco: [Indices -> Seq(Byte)],
     mem: [Direcciones -> Byte], elegido: Marcos, caida: Caidas]

SinSegmento == [tiene |-> FALSE, enLista |-> FALSE, paginas |-> <<>>, heaps |-> <<>>, tam |-> 0]
Arranque ==
    [clientes |-> {}, tablas |-> [s \in Slots |-> SinSegmento],
     marcos |-> [f \in Marcos |-> [uso |-> 0, mod |-> 0, libre |-> TRUE]],
     puntero |-> 0, swap |-> {}, disco |-> [i \in Indices |-> Tira("cero", 0, PAG)],
     mem |-> [d \in Direcciones |-> <<"cero", 0>>], elegido |-> 0, caida |-> "no"]

Caer(m, por) == IF m.caida = "no" THEN [m EXCEPT !.caida = por] ELSE m
----------------------------------------------------------------------------
(* The modified clock. *)

Giro(p, k) == (p + k) % NMarcos

\* How far from p the frames with u = 0 and m = mod are.
Hallados(ms, p, mod) ==
    {k \in Marcos : ms[Giro(p, k)].uso = 0 /\ ms[Giro(p, k)].mod = mod}

(* Mutant: the bit of use is cleared in every frame of the round.          *)
MutPasados(C) == Marcos
\* The frames a round passes before it elects one of C.
Pasados(C) == {k \in Marcos : \A c \in C : k < c}

\* clockModificado clears the bit of use of those it passes in its step 2.
Apagar(ms, p, K) ==
    [f \in Marcos |-> IF \E k \in K : f = Giro(p, k) THEN [ms[f] EXCEPT !.uso = 0] ELSE ms[f]]

Elegir(ms, p, C) ==
    [marcos |-> ms, marco |-> Giro(p, Menor(C)), puntero |-> Giro(p, Menor(C) + 1)]

ClockModificado(ms, p) ==
    LET c1 == Hallados(ms, p, 0)
        c2 == Hallados(ms, p, 1)
        apagados == Apagar(ms, p, Pasados(c2))
        c3 == Hallados(apagados, p, 0)
        c4 == Hallados(apagados, p, 1)
    IN  IF c1 # {} THEN Elegir(ms, p, c1)
        ELSE IF c2 # {} THEN Elegir(apagados, p, c2)
        ELSE IF c3 # {} THEN Elegir(apagados, p, c3)
        ELSE Elegir(apagados, p, c4)
----------------------------------------------------------------------------
(* Frames, pages and swap. *)

Libres(m) == {f \in Marcos : m.marcos[f].libre}

\* The marks that asignarUnFrame leaves on a frame, and those of its callers.
Ocupar(m, f) == [m EXCEPT !.marcos[f] = [uso |-> 1, mod |-> 1, libre |-> FALSE], !.elegido = f]

PaginasDe(m, s) == m.tablas[s].paginas
HayPagina(m, s, k) == k + 1 \in DOMAIN PaginasDe(m, s)
LaPagina(m, s, k) == PaginasDe(m, s)[k + 1]
ConPagina(m, s, k, pag) == [m EXCEPT !.tablas[s].paginas[k + 1] = pag]

\* Writes past either end of memoriaPrincipal break the heap of the server.
Escribir(m, pos, bytes) ==
    IF pos < 0 \/ pos + Len(bytes) > NMarcos * PAG THEN Caer(m, "fuera")
    ELSE [m EXCEPT !.mem = [d \in Direcciones |->
            IF d >= pos /\ d < pos + Len(bytes) THEN bytes[d - pos + 1] ELSE m.mem[d]]]

(* Mutant: the bit is not set.                                             *)
MutLlevarASwap(m, s, k) ==
    IF m.swap = Indices THEN Caer(m, "fuera")
    ELSE LET idx == Menor(Indices \ m.swap)
             f == LaPagina(m, s, k).marco
         IN  [ConPagina(m, s, k, [presencia |-> FALSE, marco |-> -1, indice |-> idx])
                EXCEPT !.disco[idx] = Tira("basura", 0, PAG),
                       !.marcos[f] = [uso |-> 0, mod |-> 0, libre |-> TRUE]]
\* What reaches the disk is the struct Pagina itself, not the frame it names,
\* and without a free entry the index is -1, which the bitmap does not have.
LlevarASwap(m, s, k) ==
    IF m.swap = Indices THEN Caer(m, "fuera")
    ELSE LET idx == Menor(Indices \ m.swap)
             f == LaPagina(m, s, k).marco
         IN  [ConPagina(m, s, k, [presencia |-> FALSE, marco |-> -1, indice |-> idx])
                EXCEPT !.disco[idx] = Tira("basura", 0, PAG),
                       !.swap = @ \cup {idx},
                       !.marcos[f] = [uso |-> 0, mod |-> 0, libre |-> TRUE]]

\* buscarPaginaAsociadaAFrame looks at as many entries of client_socket as there
\* are tables, and falls at one that is empty or has no table.
Recorridos(m) == {i \in Slots : i < Cardinality({s \in Slots : m.tablas[s].tiene})}
Rotos(m) == {i \in Recorridos(m) : i \notin m.clientes \/ ~ m.tablas[i].tiene}
ConMarco(m, f) ==
    {i \in Recorridos(m) : m.tablas[i].enLista
        /\ \E k \in DOMAIN PaginasDe(m, i) : PaginasDe(m, i)[k].marco = f}

Desalojar(m, f) ==
    LET hallados == ConMarco(m, f)
        s == Menor(hallados)
        k == Menor({j \in DOMAIN PaginasDe(m, s) : PaginasDe(m, s)[j].marco = f})
    IN  IF \E r \in Rotos(m) : \A h \in hallados : r <= h THEN Caer(m, "nulo")
        ELSE IF hallados = {} THEN m ELSE LlevarASwap(m, s, k - 1)

\* A frame taken by the clock comes back marked as free if it had a page.
AsignarUnFrame(m) ==
    IF Libres(m) # {} THEN Ocupar(m, Menor(Libres(m)))
    ELSE LET c == ClockModificado(m.marcos, m.puntero)
         IN  Desalojar(Ocupar([m EXCEPT !.marcos = c.marcos, !.puntero = c.puntero], c.marco),
                       c.marco)

\* A page that goes back to memory: traerAMemoriaPrincipal.
Traer(m, s, k) ==
    LET idx == LaPagina(m, s, k).indice
        a == AsignarUnFrame(m)
        f == a.elegido
    IN  Escribir([ConPagina(a, s, k, [presencia |-> TRUE, marco |-> f, indice |-> -1])
                    EXCEPT !.swap = @ \ {idx}, !.marcos[f].mod = 0, !.marcos[f].uso = 1],
                 f * PAG, m.disco[idx])

\* obtenerPosicionMemoriaPagina: an absent page gets the first free frame, which is
\* not marked as taken, and what comes before swap.txt is read: bytes of the FILE.
ObtenerPosicion(m, s, k) ==
    IF ~ HayPagina(m, s, k) THEN Caer(m, "nulo")
    ELSE IF LaPagina(m, s, k).presencia THEN m
    ELSE IF Libres(m) = {} THEN Caer(m, "fuera")
    ELSE LET f == Menor(Libres(m))
         IN  Escribir([ConPagina(m, s, k, [presencia |-> TRUE, marco |-> f, indice |-> -1])
                         EXCEPT !.swap = @ \ {LaPagina(m, s, k).indice}],
                      f * PAG, Tira("basura", 0, PAG))

Posicion(m, s, k) == IF HayPagina(m, s, k) THEN LaPagina(m, s, k).marco * PAG ELSE 0
=============================================================================
