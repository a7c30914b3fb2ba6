-------------------------------- MODULE Sac --------------------------------
(***************************************************************************)
(* The file server, src/Sac-Server: operaciones.c, the handlers of         *)
(* conexionServer.c and dameNodoDe of estructuras.c.                       *)
(*                                                                         *)
(* Each client (a mount of Sac-Cli) has a thread of the server             *)
(* (socketThread) that reads a request from the socket, runs it to the end *)
(* and sends the answer.  They share the table of nodes, the bitmap and    *)
(* the blocks, all of them memory mapped from the disk, and one read-write *)
(* lock, superLockeador.  Node n here is inicioTablaDeNodos[n - 1], 0 the  *)
(* root directory.                                                         *)
(*                                                                         *)
(* An action is what a thread does between two points where another may    *)
(* come in: one critical section of the lock, or one access to shared data *)
(* outside of it.  Every operation first finds its node with dameNodoDe,   *)
(* one critical section for each name of the path, and acts on what it     *)
(* found in a later one.                                                   *)
(***************************************************************************)
EXTENDS SacBloques

CONSTANTS
    Clientes,   \* the mounts, one thread each
    Entradas,   \* GFILEBYTABLE
    Nombres,    \* names of files and directories
    Nadie       \* no holder of the lock

ASSUME SacAssumption ==
    /\ Entradas \in Nat \ {0}
    /\ Nadie \notin Clientes

Nodos == 1..Entradas            \* numbers of the nodes
NoHay == -1                     \* what dameNodoDe returns for a missing path

VARIABLES
    tabla,      \* the table of nodes
    disco,      \* bitmap, bitmap_free_blocks and contents of the blocks
    modo,       \* _del_mode
    duenio,     \* who holds superLockeador for writing between two steps
    hilo,       \* what each thread of the server is doing
    cola,       \* requests in the socket, not read by the server
    eco,        \* how many answers are in the socket, not read by the client
    caida       \* "no", or how the process ended

varsDisco == <<tabla, disco>>
varsRed == <<cola, eco>>
vars == <<tabla, disco, modo, duenio, hilo, cola, eco, caida>>

Entrada == [estado : {"borrado", "ocupado", "directorio"},
            nombre : Nombres \cup {""},
            padre : Nodos \cup {0, NoHay},
            tam : Nat,
            ind : [0..PB - 1 -> Datos \cup {Cabecera}]]

Vacia == [estado |-> "borrado", nombre |-> "", padre |-> 0, tam |-> 0,
          ind |-> [p \in 0..PB - 1 |-> Cabecera]]

(* A thread that waits for a request.  `camino' is what is left of the     *)
(* path being looked up, from node `nodo'; `paso' what comes after.        *)
Ocioso == [paso |-> "libre", pedido |-> [op |-> "nada"], camino |-> <<>>,
           nodo |-> 0, viejo |-> 0, tam |-> 0, pila |-> <<>>]

(* main after a format; obtenerBloquesLibres counts the free blocks.       *)
Init ==
    /\ tabla = [n \in Nodos |-> Vacia]
    /\ disco = [usados |-> {}, libres |-> Cardinality(Datos),
                cont |-> [b \in Datos |-> Ceros]]
    /\ modo = 0
    /\ duenio = Nadie
    /\ hilo = [c \in Clientes |-> Ocioso]
    /\ cola = [c \in Clientes |-> <<>>]
    /\ eco = [c \in Clientes |-> 0]
    /\ caida = "no"

-----------------------------------------------------------------------------
(* Mutant: who holds the lock waits for itself.                            *)
MutEntra(c) == duenio = Nadie

(* superLockeador can be taken by a thread that does not hold it when      *)
(* nobody does; the thread that holds it for writing gets EDEADLK, which   *)
(* nobody looks at, and its next unlock releases the lock.                 *)
Entra(c) == duenio \in {Nadie, c}
Suelta == duenio' = Nadie

En(c, paso) == hilo[c].paso = paso /\ hilo[c].camino = <<>>
Pedido(c) == hilo[c].pedido
Nodo(c) == hilo[c].nodo

(* The thread goes on at `paso', after looking up `ruta' if it is not <<>>. *)
Sigue(c, paso) == hilo' = [hilo EXCEPT ![c].paso = paso]
Busca(c, ruta, paso) ==
    hilo' = [hilo EXCEPT ![c].paso = paso, ![c].camino = ruta, ![c].nodo = 0]

(* send of n answers, and back to the loop of socketThread.                *)
Responde(c, n) ==
    /\ eco' = [eco EXCEPT ![c] = @ + n]
    /\ hilo' = [hilo EXCEPT ![c] = Ocioso]

(* The process dies, writes out of place or hangs: nothing else is said.   *)
Cae(causa) ==
    /\ caida' = causa
    /\ UNCHANGED <<tabla, disco, modo, duenio, hilo, varsRed>>

(* The step of c left entry n as r.f and the disk as r.d.                  *)
Guarda(n, r) ==
    /\ tabla' = [tabla EXCEPT ![n] = r.f]
    /\ disco' = r.d

-----------------------------------------------------------------------------
(* socketThread reads a request; the handler starts with dameNodoDe, but   *)
(* for a truncate to a negative size.                                      *)
PrimerPaso(op) ==
    CASE op \in {"create", "mkdir"} -> "existe"
      [] op = "write" -> "leerTam"
      [] op = "unlink" -> "subirModo"
      [] OTHER -> op

Tomar(c) ==
    /\ hilo[c].paso = "libre"
    /\ cola[c] # <<>>
    /\ LET p == Head(cola[c]) IN
       hilo' = [hilo EXCEPT ![c] =
                  [Ocioso EXCEPT !.pedido = p, !.paso = PrimerPaso(p.op),
                     !.camino = IF p.op = "truncate" /\ p.n < 0 THEN <<>> ELSE p.ruta]]
    /\ cola' = [cola EXCEPT ![c] = Tail(@)]
    /\ UNCHANGED <<varsDisco, modo, duenio, eco, caida>>

(* Mutant: estado is not looked at.                                        *)
MutEsHijo(n, padre, nombre) ==
    /\ tabla[n].padre = padre
    /\ tabla[n].nombre = nombre

(* dameNodoDe, one level: the first live entry with that parent and name.  *)
(* A parent that was not found is searched for all the same.               *)
EsHijo(n, padre, nombre) ==
    /\ tabla[n].padre = padre
    /\ tabla[n].nombre = nombre
    /\ tabla[n].estado # "borrado"

Hijo(padre, nombre) ==
    LET hijos == {n \in Nodos : EsHijo(n, padre, nombre)}
    IN  IF hijos = {} THEN NoHay ELSE Min(hijos)

Bajar(c) ==
    /\ hilo[c].camino # <<>>
    /\ Entra(c)
    /\ hilo' = [hilo EXCEPT ![c].nodo = Hijo(@, Head(hilo[c].camino)),
                            ![c].camino = Tail(@)]
    /\ Suelta
    /\ UNCHANGED <<varsDisco, modo, varsRed, caida>>

-----------------------------------------------------------------------------
(* o_create and o_mkdir: the path must not exist ...                       *)
YaExiste(c) ==
    /\ En(c, "existe") /\ Nodo(c) # NoHay
    /\ Responde(c, 1)
    /\ UNCHANGED <<varsDisco, modo, duenio, cola, caida>>

BuscarMadre(c) ==
    /\ En(c, "existe") /\ Nodo(c) = NoHay
    /\ Busca(c, Front(Pedido(c).ruta), "madre")
    /\ UNCHANGED <<varsDisco, modo, duenio, varsRed, caida>>

(* ... its directory must ...                                              *)
SinMadre(c) ==
    /\ En(c, "madre") /\ Nodo(c) = NoHay
    /\ Responde(c, 1)
    /\ UNCHANGED <<varsDisco, modo, duenio, cola, caida>>

(* ... and then the first free entry is taken.  A file gets a data block   *)
(* and its first pointer block at once.                                    *)
EntradasLibres == {n \in Nodos : tabla[n].estado = "borrado"}

Archivo(n, nombre, madre) ==
    [tabla[n] EXCEPT !.estado = "ocupado", !.nombre = nombre, !.padre = madre,
                     !.tam = 0, !.ind[0] = Cabecera]

Directorio(n, nombre, madre) ==
    [tabla[n] EXCEPT !.estado = "directorio", !.nombre = nombre, !.padre = madre,
                     !.tam = 0]

(* Mutant: the error path does not release the lock.                       *)
MutTablaLlena(c) ==
    /\ En(c, "madre") /\ Nodo(c) # NoHay
    /\ Entra(c)
    /\ EntradasLibres = {}
    /\ duenio' = c
    /\ Responde(c, 1)
    /\ UNCHANGED <<varsDisco, modo, cola, caida>>

TablaLlena(c) ==
    /\ En(c, "madre") /\ Nodo(c) # NoHay
    /\ Entra(c)
    /\ EntradasLibres = {}
    /\ Suelta
    /\ Responde(c, 1)
    /\ UNCHANGED <<varsDisco, modo, cola, caida>>

(* o_create's memset of the new data block.                                *)
ConBloque(r, d) ==
    IF r.fin = "ok" THEN [r EXCEPT !.d.cont[Libre(d)] = Ceros] ELSE r

CrearArchivo(c) ==
    /\ En(c, "madre") /\ Nodo(c) # NoHay
    /\ Pedido(c).op = "create"
    /\ Entra(c)
    /\ EntradasLibres # {}
    /\ LET n == Min(EntradasLibres)
           f == Archivo(n, Last(Pedido(c).ruta), Nodo(c))
           r == ConBloque(TomarYAgregar(f, disco), disco)
       IN  IF r.fin \in Grave THEN Cae(r.fin)
           ELSE /\ Guarda(n, r)
                /\ Suelta
                /\ Responde(c, 1)
                /\ UNCHANGED <<modo, cola, caida>>

CrearDirectorio(c) ==
    /\ En(c, "madre") /\ Nodo(c) # NoHay
    /\ Pedido(c).op = "mkdir"
    /\ Entra(c)
    /\ EntradasLibres # {}
    /\ LET n == Min(EntradasLibres) IN
       tabla' = [tabla EXCEPT ![n] = Directorio(n, Last(Pedido(c).ruta), Nodo(c))]
    /\ Suelta
    /\ Responde(c, 1)
    /\ UNCHANGED <<disco, modo, cola, caida>>

-----------------------------------------------------------------------------
(* o_getAttr: the answer for a missing path is sent without the lock.      *)
Atributos(c) ==
    /\ En(c, "getattr")
    /\ IF Nodo(c) = NoHay THEN UNCHANGED duenio ELSE Entra(c) /\ Suelta
    /\ Responde(c, 1)
    /\ UNCHANGED <<varsDisco, modo, cola, caida>>

(* o_readDir answers that the path is missing and goes on to list it.      *)
SinDirectorio(c) ==
    /\ En(c, "readdir") /\ Nodo(c) = NoHay
    /\ eco' = [eco EXCEPT ![c] = @ + 1]
    /\ Sigue(c, "listar")
    /\ UNCHANGED <<varsDisco, modo, duenio, cola, caida>>

Listar(c) ==
    /\ En(c, "listar") \/ (En(c, "readdir") /\ Nodo(c) # NoHay)
    /\ Entra(c)
    /\ Suelta
    /\ Responde(c, 1)
    /\ UNCHANGED <<varsDisco, modo, cola, caida>>

(* o_read; tomarPeticionRead sends a second answer when it was -1.         *)
Leer(c) ==
    /\ En(c, "read")
    /\ IF Nodo(c) = NoHay THEN UNCHANGED duenio ELSE Entra(c) /\ Suelta
    /\ Responde(c, IF Nodo(c) = NoHay THEN 2 ELSE 1)
    /\ UNCHANGED <<varsDisco, modo, cola, caida>>

-----------------------------------------------------------------------------
(* o_write reads the size before it takes the lock; a missing path is only *)
(* logged, and the entry is looked for before the table.                   *)
LeerTam(c) ==
    /\ En(c, "leerTam") /\ Nodo(c) # NoHay
    /\ hilo' = [hilo EXCEPT ![c].tam = tabla[Nodo(c)].tam, ![c].paso = "escribir"]
    /\ UNCHANGED <<varsDisco, modo, duenio, varsRed, caida>>

EscribirSinArchivo(c) ==
    /\ En(c, "leerTam") /\ Nodo(c) = NoHay
    /\ Cae("fuera")

Escribir(c) ==
    /\ En(c, "escribir")
    /\ Entra(c)
    /\ LET n == Nodo(c)
           r == Escribe(tabla[n], disco, hilo[c].tam, Pedido(c).off, Pedido(c).n)
       IN  IF r.fin \in Grave THEN Cae(r.fin)
           ELSE /\ Guarda(n, r)
                /\ Suelta
                /\ Responde(c, 1)
                /\ UNCHANGED <<modo, cola, caida>>

(* o_truncate: the blocks up to the new size, or more of them.             *)
NoTrunca(c) ==
    /\ En(c, "truncate")
    /\ Pedido(c).n < 0 \/ Nodo(c) = NoHay
    /\ Responde(c, 1)
    /\ UNCHANGED <<varsDisco, modo, duenio, cola, caida>>

(* eliminarNodos clears _del_mode when it is not to delete from the start. *)
ModoTras(hasta) == IF hasta = 0 THEN modo ELSE 0

(* It ends with a second wrlock where an unlock was due: the thread keeps  *)
(* the lock until it next releases one.                                    *)
Truncar(c) ==
    /\ En(c, "truncate")
    /\ Pedido(c).n >= 0 /\ Nodo(c) # NoHay
    /\ Entra(c)
    /\ LET n == Nodo(c)
           tam == Pedido(c).n
           crece == tam > tabla[n].tam
           hasta == tam \div TB
           r == IF crece THEN DarleEspacio(tabla[n], disco, tam - tabla[n].tam)
                ELSE EliminarNodos(tabla[n], disco, ModoTras(hasta), hasta)
       IN  IF r.fin \in Grave THEN Cae(r.fin)
           ELSE /\ Guarda(n, IF r.fin = "ok" THEN [r EXCEPT !.f.tam = tam] ELSE r)
                /\ modo' = IF crece THEN modo ELSE ModoTras(hasta)
                /\ duenio' = c
                /\ Responde(c, 1)
                /\ UNCHANGED <<cola, caida>>

-----------------------------------------------------------------------------
(* o_unlink: _del_mode is set and cleared outside of the lock, around the  *)
(* section that frees the blocks.                                          *)
SubirModo(c) ==
    /\ En(c, "subirModo")
    /\ modo' = 1
    /\ Sigue(c, "borrarBloques")
    /\ UNCHANGED <<varsDisco, duenio, varsRed, caida>>

BorrarBloques(c) ==
    /\ En(c, "borrarBloques") /\ Nodo(c) # NoHay
    /\ Entra(c)
    /\ LET r == EliminarNodos(tabla[Nodo(c)], disco, modo, 0)
       IN  IF r.fin \in Grave THEN Cae(r.fin)
           ELSE /\ Guarda(Nodo(c), r)
                /\ Suelta
                /\ Sigue(c, "bajarModo")
                /\ UNCHANGED <<modo, varsRed, caida>>

(* With a missing path, the "entry" is in the bitmap or the header: what   *)
(* is there may read as an empty file or as one beyond the disk.           *)
BorrarFuera(c) ==
    /\ En(c, "borrarBloques") /\ Nodo(c) = NoHay
    /\ Entra(c)
    /\ \/ Cae("fuera")
       \/ /\ Suelta
          /\ Sigue(c, "bajarModo")
          /\ UNCHANGED <<varsDisco, modo, varsRed, caida>>

BajarModo(c) ==
    /\ En(c, "bajarModo")
    /\ modo' = 0
    /\ Busca(c, Pedido(c).ruta, "quitar")
    /\ UNCHANGED <<varsDisco, duenio, varsRed, caida>>

(* o_rmdir2 finds the path again, and removes an entry without children.   *)
TieneHijos(n) == \E m \in Nodos : tabla[m].estado # "borrado" /\ tabla[m].padre = n

NadaQueQuitar(c) ==
    /\ En(c, "quitar") /\ Nodo(c) = NoHay
    /\ Responde(c, 1)
    /\ UNCHANGED <<varsDisco, modo, duenio, cola, caida>>

Quitar(c) ==
    /\ En(c, "quitar") /\ Nodo(c) # NoHay
    /\ Entra(c)
    /\ tabla' = IF TieneHijos(Nodo(c)) THEN tabla
                ELSE [tabla EXCEPT ![Nodo(c)].estado = "borrado"]
    /\ Suelta
    /\ Responde(c, 1)
    /\ UNCHANGED <<disco, modo, cola, caida>>

-----------------------------------------------------------------------------
(* o_rename: looks for the old path twice and for the new directory, does  *)
(* not look at what came out nor at what is at the new path.               *)
SinViejo(c) ==
    /\ En(c, "rename") /\ Nodo(c) = NoHay
    /\ Responde(c, 1)
    /\ UNCHANGED <<varsDisco, modo, duenio, cola, caida>>

BuscarViejo(c) ==
    /\ En(c, "rename") /\ Nodo(c) # NoHay
    /\ Busca(c, Pedido(c).ruta, "viejo")
    /\ UNCHANGED <<varsDisco, modo, duenio, varsRed, caida>>

BuscarDestino(c) ==
    /\ En(c, "viejo")
    /\ hilo' = [hilo EXCEPT ![c].paso = "mover", ![c].viejo = Nodo(c),
                            ![c].camino = Front(Pedido(c).ruta2), ![c].nodo = 0]
    /\ UNCHANGED <<varsDisco, modo, duenio, varsRed, caida>>

Mover(c) ==
    /\ En(c, "mover") /\ hilo[c].viejo # NoHay
    /\ Entra(c)
    /\ tabla' = [tabla EXCEPT ![hilo[c].viejo].nombre = Last(Pedido(c).ruta2),
                              ![hilo[c].viejo].padre = Nodo(c)]
    /\ Suelta
    /\ Responde(c, 1)
    /\ UNCHANGED <<disco, modo, cola, caida>>

(* The old path is gone: the name is written over the bitmap or in the     *)
(* padding of the header.                                                  *)
MoverFuera(c) ==
    /\ En(c, "mover") /\ hilo[c].viejo = NoHay
    /\ Entra(c)
    /\ \/ Cae("fuera")
       \/ /\ Suelta
          /\ Responde(c, 1)
          /\ UNCHANGED <<varsDisco, modo, cola, caida>>

-----------------------------------------------------------------------------
(* o_rmdir and eliminarRecursivamente.  `pila' has the directories being   *)
(* emptied, the innermost first, with the entry of the table each is at;   *)
(* the entries are looked at without the lock.                             *)
Cima(c) == hilo[c].pila[1]
Avanza(c) == [hilo[c].pila EXCEPT ![1].i = @ + 1]
Apila(c, pila, paso) == hilo' = [hilo EXCEPT ![c].pila = pila, ![c].paso = paso]

SinCarpeta(c) ==
    /\ En(c, "rmdir") /\ Nodo(c) = NoHay
    /\ Responde(c, 1)
    /\ UNCHANGED <<varsDisco, modo, duenio, cola, caida>>

Vaciar(c) ==
    /\ En(c, "rmdir") /\ Nodo(c) # NoHay
    /\ Apila(c, <<[dir |-> Nodo(c), i |-> 1]>>, "mirar")
    /\ UNCHANGED <<varsDisco, modo, duenio, varsRed, caida>>

(* Mutant: the directories inside are passed over.                         *)
MutEsDe(n, dir) == tabla[n].estado = "ocupado" /\ tabla[n].padre = dir

EsDe(n, dir) == tabla[n].estado # "borrado" /\ tabla[n].padre = dir

Saltear(c) ==
    /\ En(c, "mirar") /\ Cima(c).i \in Nodos
    /\ ~EsDe(Cima(c).i, Cima(c).dir)
    /\ Apila(c, Avanza(c), "mirar")
    /\ UNCHANGED <<varsDisco, modo, duenio, varsRed, caida>>

MirarArchivo(c) ==
    /\ En(c, "mirar") /\ Cima(c).i \in Nodos
    /\ EsDe(Cima(c).i, Cima(c).dir)
    /\ tabla[Cima(c).i].estado = "ocupado"
    /\ modo' = 1
    /\ Sigue(c, "borrarArchivo")
    /\ UNCHANGED <<varsDisco, duenio, varsRed, caida>>

(* The entry of the file is removed, with the blocks of the one before it. *)
BorrarArchivo(c) ==
    /\ En(c, "borrarArchivo") /\ Cima(c).i > 1
    /\ Entra(c)
    /\ LET r == EliminarNodos(tabla[Cima(c).i - 1], disco, modo, 0)
       IN  IF r.fin \in Grave THEN Cae(r.fin)
           ELSE /\ tabla' = [tabla EXCEPT ![Cima(c).i - 1] = r.f,
                                          ![Cima(c).i].estado = "borrado"]
                /\ disco' = r.d
                /\ modo' = 0
                /\ Suelta
                /\ Sigue(c, "revisar")
                /\ UNCHANGED <<varsRed, caida>>

(* Before the first entry is the last block of the bitmap.                 *)
BorrarPrimero(c) ==
    /\ En(c, "borrarArchivo") /\ Cima(c).i = 1
    /\ Entra(c)
    /\ \/ Cae("fuera")
       \/ /\ tabla' = [tabla EXCEPT ![1].estado = "borrado"]
          /\ modo' = 0
          /\ Suelta
          /\ Sigue(c, "revisar")
          /\ UNCHANGED <<disco, varsRed, caida>>

(* Whatever is in the entry when the file was removed ...                  *)
Revisar(c) ==
    /\ En(c, "revisar")
    /\ tabla[Cima(c).i].estado # "directorio"
    /\ Apila(c, Avanza(c), "mirar")
    /\ UNCHANGED <<varsDisco, modo, duenio, varsRed, caida>>

(* ... a directory there is emptied.                                       *)
MirarDirectorio(c) ==
    /\ \/ En(c, "mirar") /\ Cima(c).i \in Nodos /\ EsDe(Cima(c).i, Cima(c).dir)
       \/ En(c, "revisar")
    /\ tabla[Cima(c).i].estado = "directorio"
    /\ Apila(c, <<[dir |-> Cima(c).i, i |-> 1]>> \o hilo[c].pila, "mirar")
    /\ UNCHANGED <<varsDisco, modo, duenio, varsRed, caida>>

(* A directory went through the table: it is removed, and the one it was   *)
(* in goes on; the last one ends the request.                              *)
CerrarDirectorio(c) ==
    /\ En(c, "mirar") /\ Cima(c).i \notin Nodos
    /\ Entra(c)
    /\ tabla' = [tabla EXCEPT ![Cima(c).dir].estado = "borrado"]
    /\ Suelta
    /\ IF Len(hilo[c].pila) = 1
       THEN Responde(c, 1)
       ELSE /\ Apila(c, [Tail(hilo[c].pila) EXCEPT ![1].i = @ + 1], "mirar")
            /\ UNCHANGED eco
    /\ UNCHANGED <<disco, modo, cola, caida>>

-----------------------------------------------------------------------------
Crear(c) ==
    \/ YaExiste(c) \/ BuscarMadre(c) \/ SinMadre(c) \/ TablaLlena(c)
    \/ CrearArchivo(c) \/ CrearDirectorio(c)

Consultar(c) == Atributos(c) \/ SinDirectorio(c) \/ Listar(c) \/ Leer(c)

Cambiar(c) ==
    LeerTam(c) \/ EscribirSinArchivo(c) \/ Escribir(c) \/ NoTrunca(c) \/ Truncar(c)

Desligar(c) ==
    \/ SubirModo(c) \/ BorrarBloques(c) \/ BorrarFuera(c) \/ BajarModo(c)
    \/ NadaQueQuitar(c) \/ Quitar(c)

Renombrar(c) ==
    SinViejo(c) \/ BuscarViejo(c) \/ BuscarDestino(c) \/ Mover(c) \/ MoverFuera(c)

BorrarCarpeta(c) ==
    \/ SinCarpeta(c) \/ Vaciar(c) \/ Saltear(c) \/ MirarArchivo(c) \/ BorrarArchivo(c)
    \/ BorrarPrimero(c) \/ Revisar(c) \/ MirarDirectorio(c) \/ CerrarDirectorio(c)

Servidor(c) ==
    /\ caida = "no"
    /\ \/ Tomar(c) \/ Bajar(c)
       \/ Crear(c) \/ Consultar(c) \/ Cambiar(c)
       \/ Desligar(c) \/ Renombrar(c) \/ BorrarCarpeta(c)
=============================================================================
