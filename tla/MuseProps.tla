------------------------------ MODULE MuseProps -----------------------------
(* What is checked of MUSE. *)
EXTENDS Muse

\* The memory keeps its shape, and so do the request in hand and the answer.
TypeOK ==
    /\ m \in Memoria
    /\ tarea.op \in {"nada", "alloc", "get", "cpy"} /\ tarea.s \in Slots
    /\ tarea.hecho \in 0..tarea.n /\ tarea.k \in Nat /\ tarea.leido \in Seq(Byte)
    /\ programa \in [Slots -> {"ausente", "conectado", "listo"}]
    /\ bloques \in [Slots -> SUBSET Bloque]
    /\ respuesta.res \in {-1, 0}
    /\ pedidos \in 0..MaxPedidos

Tranquilo == tarea = Ninguna /\ m.caida = "no"

\* The headers of a segment and the blocks between them cover its pages end to end:
\* each one begins where the data of the one before end, and the last block ends
\* with the last page.
Encadenado ==
    Tranquilo => \A s \in Slots : m.tablas[s].enLista =>
        LET hs == Headers(m, s)
            Sigue(h) == h.dir + HM + h.size
        IN  /\ hs[1].dir = 0
            /\ \A j \in 1..(Len(hs) - 1) : hs[j + 1].dir = Sigue(hs[j])
            /\ Sigue(hs[Len(hs)]) = Len(PaginasDe(m, s)) * PAG

\* While one program at a time is connected, there are frames for all that was ever
\* allocated, a page has 4 bytes (src/Memoria/muse_config) and no block that was freed
\* has room for one of Tams and a header (Cabe), no request makes the
\* server fall: not the search of musecpy, which looks at pages past the end, nor
\* musefree, which writes a header in the page before, nor a muse_get with no answer.
NoCae == m.caida = "no"

\* The blocks of all the programs, and what memoriaPrincipal holds for each; a copy
\* under way counts as done.
Vivos == {[dir |-> b.dir, n |-> b.n] : b \in UNION {bloques[s] : s \in Slots}}
Guarda ==
    [b \in Vivos |-> [i \in 1..b.n |->
        IF tarea.op = "cpy" /\ tarea.dir = b.dir /\ tarea.n = b.n /\ i > tarea.hecho THEN <<tarea.v, i>>
        ELSE m.mem[b.dir + i - 1]]]
Promesa == INSTANCE MuseMemoria WITH guarda <- Guarda, dicho <- respuesta
\* The server keeps the promise of the library: blocks apart from each other, each
\* with what was last written to it, and answers that say so.
\* That is so as long as no block that was freed has room for one of Tams and a header
\* (Cabe): one that is used again stays free and keeps its size (muse.c:261), and may
\* be given to two.
ImplementaMemoria == Promesa!Spec

\* Between two requests the entries of swap in use are those of the pages that are
\* out of memory, one for each, and a page that is in has a frame and no entry:
\* llevarASwapUnaPagina, traerAMemoriaPrincipal and obtenerPosicionMemoriaPagina
\* keep the bitmap and the page tables of all the programs in step.
Paginas == UNION {{s} \X DOMAIN PaginasDe(m, s) : s \in Slots}
LaDe(q) == PaginasDe(m, q[1])[q[2]]
Ausentes == {q \in Paginas : ~ LaDe(q).presencia}
SwapUnico ==
    Tranquilo =>
        /\ m.swap = {LaDe(q).indice : q \in Ausentes}
        /\ Cardinality(m.swap) = Cardinality(Ausentes)
        /\ \A q \in Paginas \ Ausentes : LaDe(q).marco \in Marcos /\ LaDe(q).indice = -1

\* No frame of a page in memory is marked as free, though llevarASwapUnaPagina marks
\* as free the frame that asignarUnFrame is giving away: museget and musecpy are
\* saved by asking for a frame twice, the others by marking it again.
UsadosTomados ==
    m.caida = "no" => \A q \in Paginas \ Ausentes : ~ m.marcos[LaDe(q).marco].libre

\* buscarPaginaAsociadaAFrame does not find the pages of a segment that is being
\* created, which is not in the list of its program yet: once no frame is free the
\* clock may take one from it and give it to it again, for another page.  That is the
\* only way in which a frame comes to have two pages in memory, whatever the programs
\* do; all others take a frame from the page that had it.
Compartidos ==
    {f \in Marcos : \E q, r \in Paginas \ Ausentes :
        q # r /\ LaDe(q).marco = f /\ LaDe(r).marco = f}
SoloCrearComparte ==
    [][m'.caida = "no" => \A f \in Compartidos' \ Compartidos :
        /\ tarea'.op = "alloc" /\ ~ m'.tablas[tarea'.s].enLista /\ Libres(m') = {}
        /\ \A q \in (Paginas \ Ausentes)' : LaDe(q)'.marco = f => q[1] = tarea'.s]_vars

\* The modified clock, were it called now, elects the first frame from the pointer
\* among those with least u, and of them least m (its comment, lines 2320-2328),
\* whatever was freed or taken since, and leaves the pointer after it.  It changes no
\* bit but those of use, which it only clears: of the frames that it passed, or of
\* all when all were in use.
EligeBien(ms, p) ==
    LET c == ClockModificado(ms, p)
        Peso(k) == 2 * ms[Giro(p, k)].uso + ms[Giro(p, k)].mod
    IN  \E k \in Marcos :
            /\ c.marco = Giro(p, k) /\ c.puntero = Giro(p, k + 1)
            /\ \A j \in Marcos :
                  /\ Peso(k) < Peso(j) \/ (Peso(k) = Peso(j) /\ k <= j)
                  /\ \/ c.marcos[Giro(p, j)] = ms[Giro(p, j)]
                     \/ /\ c.marcos[Giro(p, j)] = [ms[Giro(p, j)] EXCEPT !.uso = 0]
                        /\ j < k \/ Peso(k) >= 2
RelojElige == EligeBien(m.marcos, m.puntero)

\* Every request that the server takes is answered: the loops of its handlers end,
\* and in a page of the segment.
Contesta == (tarea # Ninguna) ~> (tarea = Ninguna)

\* src/linuseTests/recursiva.c:16: "Se pisa para probar que muse_get cargue el valor
\* adecuado": what a program reads from a block is what it wrote there.
LoEscritoSeLee ==
    [][ContestarGet => \A b \in bloques[tarea.s] :
        (b.dir = tarea.dir /\ b.n = tarea.n /\ b.valor # "cero") =>
            respuesta'.bytes = Tira(b.valor, 0, b.n)]_vars
=============================================================================
