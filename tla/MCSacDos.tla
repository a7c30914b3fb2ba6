------------------------------ MODULE MCSacDos ------------------------------
EXTENDS SacProps

CONSTANTS
    na, nb, c1, c2,
    MaxPedidos      \* a client makes no more requests than this

VARIABLE hechos     \* how many each has made

\* One client makes, lists and removes a directory, the other works in it.
Carpeta == {[op |-> op, ruta |-> <<nb>>] : op \in {"mkdir", "rmdir", "readdir"}}
Adentro ==
    {[op |-> op, ruta |-> <<nb, na>>] : op \in {"create", "mkdir", "unlink", "read"}}
    \cup {[op |-> "truncate", ruta |-> <<nb, na>>, n |-> 0],
          [op |-> "write", ruta |-> <<nb, na>>, off |-> 0, n |-> 1],
          [op |-> "rename", ruta |-> <<nb, na>>, ruta2 |-> <<na>>]}
PedidosDos ==
    [c \in {c1, c2} |-> IF c = c1 THEN Carpeta
                        ELSE Adentro \cup {[op |-> op, ruta |-> <<nb>>] : op \in {"mkdir", "rmdir"}}]

\* A file each: one client removes its own, the other truncates its own.
PedidosModo ==
    [c \in {c1, c2} |->
        IF c = c1 THEN {[op |-> op, ruta |-> <<na>>] : op \in {"create", "unlink"}}
        ELSE {[op |-> "create", ruta |-> <<nb>>],
              [op |-> "write", ruta |-> <<nb>>, off |-> 0, n |-> 1],
              [op |-> "truncate", ruta |-> <<nb>>, n |-> 0]}]

Cuenta ==
    /\ hechos' = [c \in Clientes |->
            hechos[c] + (IF cliente[c] = "libre" /\ cliente'[c] = "espera" THEN 1 ELSE 0)]
    /\ \A c \in Clientes : hechos'[c] <= MaxPedidos

SpecDos ==
    /\ InitSistema /\ hechos = [c \in Clientes |-> 0]
    /\ [][NextSistema /\ Cuenta]_<<varsSistema, hechos>>
    /\ Justicia
=============================================================================
