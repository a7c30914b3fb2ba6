----------------------------- MODULE SacSistema -----------------------------
(***************************************************************************)
(* The file server with its clients, src/Sac-Cli/sacCli.c.                 *)
(*                                                                         *)
(* A client serves the calls of the kernel: each hello_... function sends  *)
(* one request and reads one answer from the same socket.  Here a client   *)
(* serves one call at a time.  The kernel looks the path up before it      *)
(* calls, and does not ask for what makes no sense then (Puede).           *)
(***************************************************************************)
EXTENDS Sac

CONSTANTS
    Pedidos,    \* the requests the kernel of each client may make
    Raras,      \* calls the server mishandles that the kernel may make all
                \* the same: "salto", "igual", "crece", "reemplaza"
    MaxTam,     \* no file is written past this size
    MaxEco      \* no request with more than this many answers unread

(* What sacCli.c sends: a path without its root is a sequence of names, and *)
(* the kernel writes no more than a page at a time.                        *)
Peticion ==
    [op : {"create", "mkdir", "unlink", "rmdir", "read", "readdir", "getattr"},
     ruta : Seq(Nombres)]
    \cup [op : {"truncate"}, ruta : Seq(Nombres), n : Int]
    \cup [op : {"rename"}, ruta : Seq(Nombres), ruta2 : Seq(Nombres) \ {<<>>}]
    \cup {p \in [op : {"write"}, ruta : Seq(Nombres), off : Nat, n : Nat \ {0}] :
            (p.off % TB) + p.n <= TB}

ASSUME PedidosAssumption == \A c \in Clientes : Pedidos[c] \subseteq Peticion

VARIABLE cliente    \* "libre", "espera" an answer, or "fin": unmounted

varsSistema == <<vars, cliente>>

Resuelve(ruta) ==
    LET nodo[i \in 0..Len(ruta)] == IF i = 0 THEN 0 ELSE Hijo(nodo[i - 1], ruta[i])
    IN  nodo[Len(ruta)]

Tipo(n) ==
    CASE n = 0 -> "directorio" [] n = NoHay -> "nada" [] OTHER -> tabla[n].estado

(* Calls that are legal and that the server is known to get wrong: a write *)
(* that begins past the end of the file ("salto"), a truncate to the size  *)
(* the file has, a multiple of the block ("igual"), or to more when it has *)
(* such a size ("crece"), a rename onto an existing path ("reemplaza").    *)
Rara(p, n) ==
    \/ p.op = "write" /\ p.off > tabla[n].tam /\ "salto" \notin Raras
    \/ p.op = "truncate" /\ tabla[n].tam > 0 /\ tabla[n].tam % TB = 0
        /\ \/ p.n = tabla[n].tam /\ "igual" \notin Raras
           \/ p.n > tabla[n].tam /\ "crece" \notin Raras
    \/ p.op = "rename" /\ Resuelve(p.ruta2) # NoHay /\ "reemplaza" \notin Raras

(* What the kernel makes of a path before it calls hello_...  The sizes    *)
(* are cut to an int: a large one arrives negative.                        *)
Puede(p) ==
    LET n == Resuelve(p.ruta)
        en(r) == Tipo(Resuelve(Front(r)))
    IN  /\ CASE p.op \in {"create", "mkdir"} -> n = NoHay /\ en(p.ruta) = "directorio"
              [] p.op \in {"read", "unlink"} -> Tipo(n) = "ocupado"
              [] p.op = "truncate" -> Tipo(n) = "ocupado" /\ p.n <= MaxTam
              [] p.op = "write" -> Tipo(n) = "ocupado" /\ p.off + p.n <= MaxTam
              [] p.op \in {"rmdir", "readdir"} -> Tipo(n) = "directorio"
              [] p.op = "getattr" -> TRUE
              [] p.op = "rename" ->
                    /\ n # NoHay /\ en(p.ruta2) = "directorio"
                    /\ ~IsPrefix(p.ruta, p.ruta2)
                    /\ Tipo(Resuelve(p.ruta2)) \in {"nada", Tipo(n)}
        /\ ~Rara(p, n)

(* hello_create, hello_read ...: the request is sent ...                   *)
Pide(c) ==
    /\ cliente[c] = "libre" /\ eco[c] <= MaxEco
    /\ \E p \in Pedidos[c] :
        /\ Puede(p)
        /\ cola' = [cola EXCEPT ![c] = Append(@, p)]
    /\ cliente' = [cliente EXCEPT ![c] = "espera"]
    /\ UNCHANGED <<varsDisco, modo, duenio, hilo, eco, caida>>

(* ... and the first answer in the socket is taken for the answer to it.   *)
Lee(c) ==
    /\ cliente[c] = "espera" /\ eco[c] > 0
    /\ eco' = [eco EXCEPT ![c] = @ - 1]
    /\ cliente' = [cliente EXCEPT ![c] = "libre"]
    /\ UNCHANGED <<varsDisco, modo, duenio, hilo, cola, caida>>

Desmonta(c) ==
    /\ cliente[c] = "libre"
    /\ cliente' = [cliente EXCEPT ![c] = "fin"]
    /\ UNCHANGED vars

(* socketThread reads nothing any more and exits; it releases no lock.     *)
Cierra(c) ==
    /\ cliente[c] = "fin"
    /\ hilo[c].paso = "libre" /\ cola[c] = <<>>
    /\ hilo' = [hilo EXCEPT ![c].paso = "fin"]
    /\ UNCHANGED <<varsDisco, modo, duenio, varsRed, caida, cliente>>

InitSistema == Init /\ cliente = [c \in Clientes |-> "libre"]

Cliente(c) == caida = "no" /\ (Pide(c) \/ Lee(c) \/ Desmonta(c) \/ Cierra(c))

NextSistema ==
    \E c \in Clientes : Cliente(c) \/ (Servidor(c) /\ UNCHANGED cliente)

SpecSistema == InitSistema /\ [][NextSistema]_varsSistema

(* The threads of the server are threads of the kernel; one that waits for *)
(* a lock that others take and release gets it in the end.                 *)
Justicia ==
    \A c \in Clientes :
        /\ SF_varsSistema(Servidor(c) /\ UNCHANGED cliente)
        /\ WF_varsSistema(caida = "no" /\ Lee(c))

FairSistema == SpecSistema /\ Justicia
=============================================================================
