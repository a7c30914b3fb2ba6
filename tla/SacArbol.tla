------------------------------ MODULE SacArbol ------------------------------
(***************************************************************************)
(* What the file server promises of names, to one client: a tree.  A path  *)
(* is a sequence of names; `arbol' says of each existing path whether it   *)
(* is a file ("ocupado") or a directory.  A directory with something in it *)
(* is emptied from the inside, one entry at a time.                        *)
(***************************************************************************)
EXTENDS Sequences, SequencesExt, Functions

CONSTANT Rutas      \* the paths, without the root <<>>

VARIABLE arbol

EsDirectorio(r) ==
    r = <<>> \/ (r \in DOMAIN arbol /\ arbol[r] = "directorio")

Init == arbol = <<>>

Crear(r, tipo) ==
    /\ r \notin DOMAIN arbol
    /\ EsDirectorio(Front(r))
    /\ arbol' = [s \in DOMAIN arbol \cup {r} |-> IF s = r THEN tipo ELSE arbol[s]]

Quitar(r) ==
    /\ r \in DOMAIN arbol
    /\ \A s \in DOMAIN arbol : ~IsStrictPrefix(r, s)
    /\ arbol' = Restrict(arbol, DOMAIN arbol \ {r})

(* The path s is under r: where it is once r is called t.                  *)
Bajo(s, r, t) == t \o SubSeq(s, Len(r) + 1, Len(s))

Mover(r, t) ==
    /\ r \in DOMAIN arbol
    /\ t \notin DOMAIN arbol
    /\ EsDirectorio(Front(t))
    /\ ~IsPrefix(r, t)
    /\ LET van == {s \in DOMAIN arbol : IsPrefix(r, s)}
           quedan == DOMAIN arbol \ van
       IN  arbol' = [x \in quedan \cup {Bajo(s, r, t) : s \in van} |->
                       IF x \in quedan THEN arbol[x]
                       ELSE arbol[CHOOSE s \in van : Bajo(s, r, t) = x]]

(* Each of them changes the tree.                                          *)
Next ==
    /\ arbol' # arbol
    /\ \E r \in Rutas :
        \/ \E tipo \in {"ocupado", "directorio"} : Crear(r, tipo)
        \/ Quitar(r)
        \/ \E t \in Rutas : Mover(r, t)

Spec == Init /\ [][Next]_arbol
=============================================================================
