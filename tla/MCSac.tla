------------------------------- MODULE MCSac -------------------------------
EXTENDS SacProps

CONSTANTS na, nb, c1

DePath(op, rutas) == {[op |-> op, ruta |-> r] : r \in rutas}
DeTam(op, rutas, ns) == {[op |-> op, ruta |-> r, n |-> n] : r \in rutas, n \in ns}
DeLugar(rutas, offs, ns) ==
    {[op |-> "write", ruta |-> r, off |-> o, n |-> n] : r \in rutas, o \in offs, n \in ns}
DeDos(rutas) ==
    {[op |-> "rename", ruta |-> r, ruta2 |-> t] : r \in rutas, t \in rutas}

\* Blocks: two files in the root, every size and offset.
Planos == {<<na>>, <<nb>>}
PedidosBloques ==
    [c \in {c1} |->
        DePath("create", Planos) \cup DePath("unlink", Planos) \cup DePath("read", Planos)
        \cup DeTam("truncate", Planos, -1..6)
        \cup {w \in DeLugar(Planos, 0..5, {1, 2}) : (w.off % TB) + w.n <= TB}]

\* What the blocks that no file uses hold, and the block numbers past the end of
\* a file, are read again by no step as long as Cubierto and SinCompartir hold.
Ficha(n) ==
    IF tabla[n].estado = "borrado" THEN "borrado"
    ELSE <<tabla[n].estado, tabla[n].nombre, tabla[n].padre, tabla[n].tam,
           {<<u, Bloque(u)>> : u \in {v \in Usos : v[1] = n}}>>
Vista ==
    <<[n \in Nodos |-> Ficha(n)], disco.usados, disco.libres, modo, duenio, hilo,
      varsRed, caida, cliente>>

\* Names: files and directories, two deep.
Hondos == {<<na>>, <<nb>>, <<na, nb>>, <<nb, na>>, <<na, na>>}
PedidosArbol ==
    [c \in {c1} |->
        UNION {DePath(op, Hondos) : op \in {"create", "mkdir", "unlink", "rmdir"}}
        \cup DePath("readdir", Planos) \cup DePath("getattr", Hondos) \cup DeDos(Hondos)]

\* Every file is empty there, so which block a number stands for, and what a
\* removed entry says, is read by no step.
VistaArbol ==
    <<[n \in Nodos |-> IF tabla[n].estado = "borrado" THEN <<>>
                       ELSE <<tabla[n].estado, tabla[n].nombre, tabla[n].padre>>],
      Cardinality(disco.usados), modo, duenio, hilo, varsRed, caida, cliente>>
=============================================================================
