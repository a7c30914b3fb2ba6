----------------------------- MODULE SacBloques -----------------------------
(***************************************************************************)
(* The blocks of a file of the file system, src/Sac-Server/estructuras.c   *)
(* and the loop of o_write.                                                *)
(*                                                                         *)
(* A file has a size and an array of pointer blocks (bloques_indirectos),  *)
(* each holding P block numbers; the data block that holds byte b is the   *)
(* one at position b \div TB, counted through all the pointer blocks.  The *)
(* code counts with a pair (pointer block, position in it); a linear       *)
(* position q stands for the pair (q \div P, q % P).                       *)
(*                                                                         *)
(* The functions here are pure: each takes a file f = [tam, ind] and the   *)
(* disk d = [usados, libres, cont] and returns both as they are afterwards *)
(* with how it ended (fin).  d.usados is the bitmap, d.libres the global   *)
(* bitmap_free_blocks, d.cont what each block of the data area holds: P    *)
(* block numbers, where 0 is the block of the header and a negative number *)
(* stands for bytes of a file.                                             *)
(*                                                                         *)
(* Where the code reads a block number that is not one, or never leaves a  *)
(* loop, fin says so and the server is not followed any further.           *)
(***************************************************************************)
EXTENDS Integers, FiniteSets, FiniteSetsExt, SequencesExt

CONSTANTS
    TB,         \* TAMANIO_BLOQUE, in the units sizes are counted in
    P,          \* PTRGBLOQUE_SIZE
    PB,         \* BLOQUESINDIRECTOS
    Datos       \* numbers of the blocks of the data area

ASSUME SacBloquesAssumption ==
    /\ TB \in Nat \ {0} /\ P \in Nat \ {0} /\ PB \in Nat \ {0}
    /\ IsFiniteSet(Datos) /\ Datos \subseteq Nat \ {0}

Cabecera == 0                           \* the number of the header block
Bytes(q) == [i \in 0..P - 1 |-> -1 - q] \* a block written at position q
Ceros == [i \in 0..P - 1 |-> 0]         \* a block after memset

(* Ends after which the process is dead, stuck, or writing where it should *)
(* not:                                                                    *)
(*   lleno      no free block: obtenerBloqueLibre goes past the bitmap     *)
(*   cabecera   the header block used as a pointer block or as data        *)
(*   basura     bytes of a file used as block numbers                      *)
(*   desborde   eliminarNodos counts down past the start of the block      *)
(*   colgado    o_write goes round for ever, holding the lock              *)
Grave == {"lleno", "cabecera", "basura", "desborde", "colgado"}

(* settearPosicion                                                         *)
Puntero(b) == b \div (TB * P)
Posicion(b) == (b % (TB * P)) \div TB

(* The position of the last byte, -1 for the empty file.                   *)
Ultima(tam) == (tam + TB - 1) \div TB - 1

(* What pointer block and position q of f say; "ok" when it is a block.    *)
Numero(f, d, q) ==
    IF q \div P \in DOMAIN f.ind /\ f.ind[q \div P] \in Datos
    THEN d.cont[f.ind[q \div P]][q % P]
    ELSE Cabecera

Juicio(numeros) ==
    IF \E n \in numeros : n < 0 THEN "basura"
    ELSE IF Cabecera \in numeros THEN "cabecera" ELSE "ok"

(* Mutant: the search starts one block too early.                          *)
MutLibre(d) == Min((Datos \cup {Cabecera}) \ d.usados)

(* obtenerBloqueLibre: the first free block, when there is one.            *)
Libre(d) == Min(Datos \ d.usados)

(* Mutant: the bit is not set.                                             *)
MutTomado(d) == d

Tomado(d) == [d EXCEPT !.usados = @ \cup {Libre(d)}]

Fin(f, d, fin) == [f |-> f, d |-> d, fin |-> fin]

(* agregarBloqueLibre: block b becomes the one after the last full one;    *)
(* at the start of a pointer block the file first gets a new one, and the  *)
(* entry after it is zeroed.                                               *)
NuevoPuntero(f, d, b) ==
    LET pe == Puntero(f.tam)
        nuevo == Libre(d)
    IN  Fin([f EXCEPT !.ind[pe] = nuevo, !.ind[pe + 1] = Cabecera],
            [Tomado(d) EXCEPT !.cont[nuevo] = [Ceros EXCEPT ![0] = b]],
            "ok")

AgregarBloque(f, d, b) ==
    LET pe == Puntero(f.tam)
        de == Posicion(f.tam)
    IN  IF <<pe, de>> = <<PB - 1, P - 1>> THEN Fin(f, d, "sinEspacio") ELSE
        CASE de = 0 /\ d.usados = Datos -> Fin(f, d, "lleno")
          [] de = 0 /\ d.usados # Datos -> NuevoPuntero(f, d, b)
          [] de # 0 /\ f.ind[pe] = Cabecera -> Fin(f, d, "cabecera")
          [] OTHER -> Fin(f, [d EXCEPT !.cont[f.ind[pe]][de] = b], "ok")

(* The pair obtenerBloqueLibre, agregarBloqueLibre.                        *)
TomarYAgregar(f, d) ==
    IF d.usados = Datos THEN Fin(f, d, "lleno")
    ELSE AgregarBloque(f, Tomado(d), Libre(d))

-----------------------------------------------------------------------------
(* Mutant: off by one at the last block that stays.                        *)
MutSeBorran(f, modo, hasta) ==
    LET u == Ultima(f.tam)
        desde == IF u \div P < hasta \div P THEN 0 ELSE hasta
    IN  IF modo = 1 /\ hasta = 0 THEN 0..u
        ELSE {q \in desde..u : q % P # 0}

(* eliminarNodos(f, hasta) under DELETE_MODE modo.  With modo = 1 all goes *)
(* (and nothing when the size is 0).  With modo = 0 the positions after    *)
(* `hasta' go, but of the pointer blocks after that of `hasta' the first   *)
(* position stays marked; and when the last position is before `hasta' the *)
(* file loses everything or the loop runs away.                            *)
SeBorran(f, modo, hasta) ==
    LET u == Ultima(f.tam)
        desde == IF u \div P < hasta \div P THEN 0 ELSE hasta + 1
    IN  IF modo = 1 /\ hasta = 0 THEN 0..u
        ELSE {q \in desde..u : q % P # 0}

PunterosQueSeBorran(f, modo, hasta) ==
    LET u == Ultima(f.tam)
        todos == (modo = 1 /\ hasta = 0) \/ u \div P < hasta \div P
    IN  (IF todos THEN 0 ELSE hasta \div P + 1)..(u \div P)

Desborda(f, modo, hasta) ==
    /\ ~(modo = 1 /\ hasta = 0)
    /\ Ultima(f.tam) \div P = hasta \div P
    /\ Ultima(f.tam) < hasta

(* bitmap_free_blocks only grows; past the number of blocks no comparison  *)
(* tells it apart, and here it stops there.                                *)
EliminarNodos(f, d, modo, hasta) ==
    LET qs == SeBorran(f, modo, hasta)
        ps == PunterosQueSeBorran(f, modo, hasta)
        bloques == {Numero(f, d, q) : q \in qs}
        punteros == {f.ind[p] : p \in ps \cup {q \div P : q \in qs}}
        liberados == bloques \cup {f.ind[p] : p \in ps}
    IN  [f |-> [f EXCEPT !.ind = [p \in DOMAIN f.ind |->
                    IF p \in ps THEN Cabecera ELSE f.ind[p]]],
         d |-> [d EXCEPT !.usados = @ \ liberados,
                         !.libres = Min({@ + Cardinality(qs), Cardinality(Datos)})],
         fin |-> IF Desborda(f, modo, hasta) THEN "desborde"
                 ELSE IF Cabecera \in punteros THEN "cabecera"
                 ELSE IF \E b \in bloques : b < 0 THEN "basura" ELSE "ok"]

-----------------------------------------------------------------------------
(* darleEspacioNuevo: `size' more bytes.  The sizes are unsigned where the *)
(* code compares them: less than what is left in the last block reads as   *)
(* no space, and a count that goes below zero never ends the loop.  A file *)
(* whose last block is full counts as having a whole one left.             *)
Resto(tam) == TB - (tam % TB)

Vueltas(tam, size) ==
    IF Resto(tam) >= size THEN 0 ELSE size \div TB

NoTermina(tam, size) ==
    Resto(tam) < size /\ size % TB >= Resto(tam)

(* The file and the disk after each block taken.                           *)
Agrandados(f, d, size) ==
    LET z[i \in 0..Vueltas(f.tam, size)] ==
            IF i = 0 THEN Fin(f, d, "ok")
            ELSE IF z[i - 1].fin \in Grave THEN z[i - 1]
            ELSE TomarYAgregar(
                    [z[i - 1].f EXCEPT !.tam = f.tam + Resto(f.tam) + (i - 1) * TB],
                    z[i - 1].d)
    IN  z

DarleEspacio(f, d, size) ==
    LET r == Resto(f.tam)
        z == Agrandados(f, d, size)[Vueltas(f.tam, size)]
    IN  CASE size < r \/ d.libres * TB < size - r -> Fin(f, d, "sinEspacio")
          [] size >= r /\ d.libres * TB >= size - r /\ NoTermina(f.tam, size) ->
                Fin(f, d, "lleno")
          [] OTHER -> Fin(z.f, z.d, IF z.fin \in Grave THEN z.fin ELSE "ok")

-----------------------------------------------------------------------------
(* One round of the loop of o_write.  r.tam is the local tamanioArchivo,   *)
(* read before the lock was taken, r.f.tam the one in the node; r.n bytes  *)
(* are still to be written at r.off, r.fin = "sigue" while the loop goes   *)
(* on.  A block counts as full when the size is a multiple of TB.          *)
EspacioEnBloque(tam) ==
    IF tam = 0 THEN TB ELSE Resto(tam) % TB

(* Mutant: > for >=.                                                       *)
MutPideBloque(r) == r.tam # 0 /\ r.off > r.tam + EspacioEnBloque(r.tam)

PideBloque(r) == r.tam # 0 /\ r.off >= r.tam + EspacioEnBloque(r.tam)

(* Where the round writes: in a new block, or in the one at r.off.         *)
Destino(r) ==
    LET b == Numero(r.f, r.d, r.off \div TB) IN
    CASE PideBloque(r) /\ r.d.libres = 0 -> [f |-> r.f, d |-> r.d, fin |-> "sinLibres", b |-> 0]
      [] PideBloque(r) /\ r.d.libres # 0 ->
            LET x == TomarYAgregar(r.f, r.d)
            IN  [f |-> x.f, d |-> x.d, fin |-> x.fin,
                 b |-> IF r.d.usados = Datos THEN 0 ELSE Libre(r.d)]
      [] ~PideBloque(r) -> [f |-> r.f, d |-> r.d, fin |-> Juicio({b}), b |-> b]

(* How many bytes of the round go into the block, and the size they leave. *)
Cuantos(n, lugar) == IF n <= lugar \/ n >= TB THEN n ELSE lugar

NuevoTam(tam, off, n, lugar) ==
    CASE n >= TB -> IF tam <= off THEN tam + TB ELSE tam
      [] n < TB /\ n <= lugar -> IF tam <= off THEN tam + n ELSE Max({tam, off + n})
      [] n < TB /\ n > lugar -> tam + lugar

Lugar(r) == IF PideBloque(r) THEN TB ELSE EspacioEnBloque(r.tam)

(* The block x.b is written, and what the round leaves.                    *)
Asienta(r, x, lugar) ==
    LET k == Cuantos(r.n, lugar)
        tam == NuevoTam(x.f.tam, r.off, r.n, lugar)
    IN  [f |-> [x.f EXCEPT !.tam = tam],
         d |-> [x.d EXCEPT !.cont[x.b] = Bytes(r.off \div TB)],
         tam |-> IF tam # x.f.tam THEN tam ELSE r.tam,
         off |-> r.off + k,
         n |-> r.n - k,
         fin |-> IF k = r.n THEN "ok" ELSE IF k = 0 THEN "colgado" ELSE "sigue"]

Vuelta(r) ==
    LET x == Destino(r)
    IN  IF x.fin # "ok" THEN [r EXCEPT !.f = x.f, !.d = x.d, !.fin = x.fin]
        ELSE Asienta(r, x, Lugar(r))

(* o_write of n bytes at off, inside one block, a page of the client: the  *)
(* second round ends it, or leaves nothing to write and goes round again.  *)
Escribe(f, d, tam, off, n) ==
    LET otra(r) == IF r.fin = "sigue" THEN Vuelta(r) ELSE r
        r == otra(otra(otra([f |-> f, d |-> d, tam |-> tam, off |-> off, n |-> n,
                             fin |-> "sigue"])))
    IN  Fin(r.f, r.d, r.fin)
=============================================================================
