------------------------------ MODULE SacProps ------------------------------
(***************************************************************************)
(* What should hold of the file server and its clients.                    *)
(***************************************************************************)
EXTENDS SacSistema

(* The table, the disk and the threads hold what their C types and the     *)
(* code allow: look-ups give a node, the root or NoHay.                    *)
TypeOK ==
    /\ tabla \in [Nodos -> Entrada]
    /\ disco.usados \subseteq Datos
    /\ disco.libres \in 0..Cardinality(Datos)
    /\ \A b \in Datos : \A i \in 0..P - 1 :
            disco.cont[b][i] \in Datos \/ disco.cont[b][i] <= 0
    /\ modo \in {0, 1}
    /\ duenio \in Clientes \cup {Nadie}
    /\ \A c \in Clientes :
        /\ hilo[c].nodo \in Nodos \cup {0, NoHay}
        /\ hilo[c].viejo \in Nodos \cup {0, NoHay}
        /\ eco[c] \in Nat
    /\ cliente \in [Clientes -> {"libre", "espera", "fin"}]
    /\ caida \in Grave \cup {"no", "fuera"}

-----------------------------------------------------------------------------
(* Blocks.  A file in the table that no unlink is taking away has a block  *)
(* for the first position and for every one under its size.                *)
Quieto == \A c \in Clientes : hilo[c].paso \notin {"bajarModo", "quitar"}

Archivos == {n \in Nodos : tabla[n].estado = "ocupado"}
Posiciones(n) == 0..Max({0, Ultima(tabla[n].tam)})
Usos == UNION {{<<n, "dato", q>> : q \in Posiciones(n)}
               \cup {<<n, "puntero", q \div P>> : q \in Posiciones(n)} : n \in Archivos}
Bloque(u) ==
    IF u[2] = "dato" THEN Numero(tabla[u[1]], disco, u[3]) ELSE tabla[u[1]].ind[u[3]]

Cubierto == Quieto => \A u \in Usos : Bloque(u) \in disco.usados

(* No block is used twice, by two files, by two positions of one, or as a  *)
(* pointer block and for data: what is written to a file stays there       *)
(* whatever is done to the others.                                         *)
SinCompartir == Quieto => \A u, v \in Usos : u # v => Bloque(u) # Bloque(v)

(* A write that begins inside the file or at its end leaves its bytes in   *)
(* the block of their position, and the other data of all files alone.     *)
EscribeEnSuLugar ==
    [][\A c \in Clientes :
        LET n == hilo[c].nodo
            q == hilo[c].pedido.off \div TB
            bien == hilo[c].pedido.off <= tabla[n].tam
        IN  hilo[c].paso = "escribir" /\ hilo'[c].paso = "libre" /\ bien =>
            /\ disco'.cont[Numero(tabla'[n], disco', q)] = Bytes(q)
            /\ \A u \in Usos : u[2] = "dato" /\ u # <<n, "dato", q>> =>
                    disco'.cont[Bloque(u)] = disco.cont[Bloque(u)]]_varsSistema

-----------------------------------------------------------------------------
(* Names.  One client sees a tree: creating, removing (directories from    *)
(* the inside) and renaming onto a free name, whatever entries they use.   *)
RutasPosibles == UNION {[1..k -> Nombres] : k \in 1..Cardinality(Nodos)}

Visibles == {r \in RutasPosibles : Resuelve(r) # NoHay}

Arbol == INSTANCE SacArbol WITH
    Rutas <- RutasPosibles,
    arbol <- [r \in Visibles |-> tabla[Resuelve(r)].estado]

ImplementaArbol == Arbol!Spec

(* With one client no directory is listed, moved or removed with entries   *)
(* left behind that no path leads to.                                      *)
SinHuerfanos ==
    \A n \in Nodos : tabla[n].estado # "borrado" =>
        \E r \in Visibles : Resuelve(r) = n

-----------------------------------------------------------------------------
(* The delete mode.  A truncate leaves the file with its first block, in   *)
(* spite of the unlinks of other clients (estructuras.c:366).              *)
TruncarDejaUno ==
    [][\A c \in Clientes :
        LET n == hilo[c].nodo IN
        En(c, "truncate") /\ hilo[c].pedido.n >= 0 /\ n # NoHay /\ hilo'[c].paso = "libre" =>
            {Numero(tabla'[n], disco', 0), tabla'[n].ind[0]} \subseteq disco'.usados]_varsSistema

-----------------------------------------------------------------------------
(* The lock.  Only a truncate keeps superLockeador after its request, and  *)
(* its thread gives it back in the first look-up of the next one.          *)
SoloTruncarRetiene ==
    [][duenio' # duenio /\ duenio' # Nadie =>
        hilo[duenio'].pedido.op = "truncate" /\ hilo'[duenio'].paso = "libre"]_varsSistema

(* A request is answered, or the lock is kept by a client that truncated   *)
(* and asks for nothing more.                                              *)
Atiende ==
    \A c \in Clientes :
        cola[c] # <<>> ~> (cliente[c] # "espera" \/ caida # "no" \/ duenio \notin {Nadie, c})
=============================================================================
