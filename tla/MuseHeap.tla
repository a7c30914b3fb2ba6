------------------------------ MODULE MuseHeap ------------------------------
(***************************************************************************)
(* The segment of a program, its pages and its headers (HeapLista), as     *)
(* operators on the memory m of module MuseMarcos: the pieces of           *)
(* musemalloc, musecpy, museget and musefree between two rounds of their   *)
(* loops.  The last segment of a program can always be extended            *)
(* (esExtendible), so a program never gets a second one; its base is 0     *)
(* once memoriaPrincipal is taken away from every address.                 *)
(***************************************************************************)
EXTENDS MuseMarcos

HM == 5     \* sizeof(struct HeapMetadata), packed

Headers(m, s) == m.tablas[s].heaps
UltimoHeap(m, s) == Headers(m, s)[Len(Headers(m, s))]
UltimaPagina(m, s) == Len(PaginasDe(m, s)) - 1

\* A header that does not fit in what is left of its page goes on in the next one.
Partido(h) == h.bytes < HM
\* Where its data begin: the page, and the place in it.  Address and page are one
\* number here: a frame is taken for a page of the segment.
PaginaDatos(h) == h.dir \div PAG + (IF Partido(h) THEN 1 ELSE 0)
InicioDatos(h) == IF Partido(h) THEN HM - h.bytes ELSE (h.dir % PAG) + HM

(* Mutant: the page added does not mark its frame as taken.                *)
MutAgregarPagina(m, s) ==
    LET a == AsignarUnFrame(m)
    IN  [a EXCEPT !.tablas[s].paginas =
                    Append(@, [presencia |-> TRUE, marco |-> a.elegido, indice |-> -1]),
                  !.tablas[s].tam = @ + PAG]
\* A page at the end of the segment, in a frame of its own.
AgregarPagina(m, s) ==
    LET a == AsignarUnFrame(m)
    IN  [Ocupar(a, a.elegido)
            EXCEPT !.tablas[s].paginas =
                     Append(@, [presencia |-> TRUE, marco |-> a.elegido, indice |-> -1]),
                   !.tablas[s].tam = @ + PAG]

\* ubicarMetadataYHeapLista: a header at dir, written in the last page; when it is
\* split, the second half goes to a page more, and the first is looked up again.
Ubicar(m, s, dir, libre, size) ==
    LET k == UltimaPagina(m, s)
        f == LaPagina(m, s, k).marco
        d == dir % PAG
        b == IF PAG - d < HM THEN PAG - d ELSE HM
        h == [dir |-> dir, libre |-> libre, size |-> size, bytes |-> b]
        escrito == Escribir([m EXCEPT !.marcos[f].uso = 1, !.marcos[f].mod = 1,
                                      !.tablas[s].heaps = Append(@, h)],
                            f * PAG + d, Tira("cab", 0, b))
        otra == AgregarPagina(escrito, s)
    IN  IF f = -1 THEN Caer(m, "nulo")
        ELSE IF b = HM THEN escrito
        ELSE ObtenerPosicion(Escribir(otra, otra.elegido * PAG, Tira("cab", b, HM - b)), s, k)

\* asignarPrimeraPaginaSegmento: it counts the page of a split header twice.
PrimeraPagina(m, s, n) ==
    LET a == Ubicar([AgregarPagina(m, s) EXCEPT !.tablas[s].tam = 0], s, 0, FALSE, n)
    IN  [a EXCEPT !.tablas[s].tam = @ + Len(PaginasDe(a, s)) * PAG]

(* Mutant: the header is put a byte before its place.                      *)
MutDireccionUltima(f, u) == f * PAG + PAG - HM + u - 1
\* asignarUltimaPaginaSegmento reckons the place of the header from the frame.
DireccionUltima(f, u) == f * PAG + PAG - HM + u

CerrarSegmento(m, s, u) ==
    LET f == LaPagina(m, s, UltimaPagina(m, s)).marco
        a == Ubicar(m, s, DireccionUltima(f, u), u # PAG, PAG - u)
    IN  IF f = -1 THEN Caer(m, "nulo") ELSE [a EXCEPT !.tablas[s].tam = @ + PAG]

\* What crearSegmento still has to give after the first page.
RestaCrear(m, s, n) == n + 2 * HM - Len(PaginasDe(m, s)) * PAG

\* What extenderSegmento has to add.
RestaExtender(m, s, n) ==
    n + HM - (IF UltimoHeap(m, s).libre THEN UltimoHeap(m, s).size ELSE 0)

OcuparUltimo(m, s, n) ==
    LET j == Len(Headers(m, s))
    IN  [m EXCEPT !.tablas[s].heaps[j].size = n, !.tablas[s].heaps[j].libre = FALSE]

(* Mutant: the new header needs no room of its own.                        *)
MutCabe(h, n) == h.libre /\ h.size >= n
Cabe(h, n) == h.libre /\ h.size >= n + HM
\* musemalloc uses a free block again when some has room for the data and a
\* header, but takes the first that has room for the data; it is neither marked
\* as taken nor split.
Reusa(m, s, n) == \E j \in DOMAIN Headers(m, s) : Cabe(Headers(m, s)[j], n)
Reusado(m, s, n) ==
    Headers(m, s)[Menor({j \in DOMAIN Headers(m, s) :
                            Headers(m, s)[j].libre /\ Headers(m, s)[j].size >= n})]
----------------------------------------------------------------------------
(* musecpy *)

\* The data of h, when it has n bytes, contain d: musecpy compares addresses of
\* frames.  Their last page is that of the byte after them.
PaginaFin(h, n) == (h.dir + HM + n) \div PAG
(* Mutant: the first byte of the data is taken for a header.               *)
MutContiene(m, s, h, d, n) ==
    LET a == LaPagina(m, s, PaginaDatos(h)).marco * PAG
    IN  h.size = n /\ d > (IF Partido(h) THEN a + InicioDatos(h) ELSE a + (InicioDatos(h) % PAG))
Contiene(m, s, h, d, n) ==
    LET a == LaPagina(m, s, PaginaDatos(h)).marco * PAG
        fin == LaPagina(m, s, PaginaFin(h, n)).marco * PAG + ((h.dir + HM + n) % PAG)
        inicio == IF Partido(h) THEN a + InicioDatos(h) ELSE a + (InicioDatos(h) % PAG)
    IN  /\ h.size = n
        /\ d >= inicio
        /\ \/ d <= fin
           \/ LaPagina(m, s, PaginaFin(h, n)).marco < LaPagina(m, s, h.dir \div PAG).marco
FaltaPagina(m, s, h, n) == ~ HayPagina(m, s, PaginaDatos(h)) \/ ~ HayPagina(m, s, PaginaFin(h, n))

EnSegmento(m, s, d) == m.tablas[s].enLista /\ d < m.tablas[s].tam

\* The headers at which the search of musecpy stops: the block, or a fall.
Paradas(m, s, d, n) ==
    {j \in DOMAIN Headers(m, s) :
        FaltaPagina(m, s, Headers(m, s)[j], n) \/ Contiene(m, s, Headers(m, s)[j], d, n)}

\* The first piece of a copy: as much as fits in the page where the data begin.
EnPrimera(h, d, n) ==
    LET cabe == PAG - (IF Partido(h) THEN HM - h.bytes ELSE (d % PAG))
    IN  IF n < cabe THEN n ELSE cabe
CopiarPrimera(m, s, h, d, n, v) ==
    LET f == LaPagina(m, s, PaginaDatos(h)).marco
    IN  IF f = -1 THEN Caer(m, "nulo")
        ELSE Escribir([m EXCEPT !.marcos[f].uso = 1, !.marcos[f].mod = 1],
                      f * PAG + (d % PAG), Tira(v, 0, EnPrimera(h, d, n)))

\* A round of its loop.  For an absent page a frame is asked for twice, here and
\* in traerAMemoriaPrincipal; the page stays with the second.
CopiarPagina(m, s, k, v, hecho, n) ==
    LET a == AsignarUnFrame(m)
        x == a.elegido
        t == Traer(ConPagina(a, s, k, [LaPagina(a, s, k) EXCEPT !.marco = x]), s, k)
        lista == IF LaPagina(m, s, k).presencia THEN m ELSE t
        f == IF LaPagina(m, s, k).presencia THEN LaPagina(m, s, k).marco ELSE x
        cuanto == IF n - hecho >= PAG THEN PAG ELSE n - hecho
    IN  IF ~ HayPagina(m, s, k) THEN Caer(m, "nulo")
        ELSE [Escribir(lista, LaPagina(lista, s, k).marco * PAG, Tira(v, hecho, cuanto))
                EXCEPT !.marcos[f].uso = 1, !.marcos[f].mod = 1]
----------------------------------------------------------------------------
(* museget *)

(* Mutant: the frame is asked for once, in traerAMemoriaPrincipal.         *)
MutLeerPagina(m, s, k) ==
    IF ~ HayPagina(m, s, k) THEN Caer(m, "nulo")
    ELSE IF LaPagina(m, s, k).presencia THEN [m EXCEPT !.marcos[LaPagina(m, s, k).marco].uso = 1]
    ELSE Traer(m, s, k)
\* A round of its loop, which also asks for a frame twice.
LeerPagina(m, s, k) ==
    LET a == AsignarUnFrame(m)
        t == Traer(a, s, k)
        lista == IF LaPagina(m, s, k).presencia THEN m ELSE t
        f == IF LaPagina(m, s, k).presencia THEN LaPagina(m, s, k).marco ELSE a.elegido
    IN  IF ~ HayPagina(m, s, k) THEN Caer(m, "nulo") ELSE [lista EXCEPT !.marcos[f].uso = 1]
Leido(m, s, k) == [i \in 1..PAG |-> m.mem[Posicion(m, s, k) + i - 1]]
----------------------------------------------------------------------------
(* musefree *)

DeDir(m, s, d) == {j \in DOMAIN Headers(m, s) : Headers(m, s)[j].dir + HM = d}

\* The header is written again in the page before the one of the data, found by
\* its contents.
Marcar(m, traida, s, d, j) ==
    LET h == Headers(m, s)[j]
        k == Menor({i \in DOMAIN PaginasDe(m, s) : PaginasDe(m, s)[i] = LaPagina(m, s, d \div PAG)}) - 2
        a == ObtenerPosicion([traida EXCEPT !.tablas[s].heaps[j].libre = TRUE], s, k)
        b == Escribir(a, Posicion(a, s, k) + (h.dir % PAG), Tira("cab", 0, h.bytes))
        c == ObtenerPosicion(b, s, k + 1)
    IN  IF ~ HayPagina(m, s, k) THEN Caer(m, "nulo")
        ELSE IF ~ Partido(h) THEN b
        ELSE Escribir(c, Posicion(c, s, k + 1), Tira("cab", h.bytes, HM - h.bytes))

\* The outcomes of a free.  Without a header for d it reads a pointer that was
\* never written.
MuseFree(m, s, d) ==
    LET a == ObtenerPosicion(m, s, d \div PAG)
        cuales == DeDir(m, s, d)
    IN  IF ~ EnSegmento(m, s, d) THEN {m}
        ELSE IF ~ HayPagina(m, s, d \div PAG) THEN {Caer(m, "nulo")}
        ELSE IF cuales = {} THEN {a, Caer(a, "sinIniciar")}
        ELSE {Marcar(m, a, s, d, Menor(cuales))}
=============================================================================
