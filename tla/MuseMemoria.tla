----------------------------- MODULE MuseMemoria ----------------------------
(***************************************************************************)
(* What MUSE promises to the programs that use it (the comments of         *)
(* src/linuseTests/libmuse.h): muse_alloc gives a block of contiguous      *)
(* memory that no live block overlaps, muse_cpy writes a block and nothing *)
(* else, muse_get brings what the block holds, and both say 0.             *)
(***************************************************************************)
EXTENDS Integers, Sequences

CONSTANT Valores    \* what programs write

VARIABLES
    guarda,     \* the live blocks, [dir, n], and the bytes each one holds
    dicho       \* the last answer to a muse_alloc, muse_cpy or muse_get

vars == <<guarda, dicho>>

Separados(b, c) == b.dir + b.n <= c.dir \/ c.dir + c.n <= b.dir
Igual(B) == \A b \in B : guarda'[b] = guarda[b]

Init == guarda = <<>> /\ dicho.op = "nada"

\* What a new block holds is not said.
Reservar ==
    /\ \E b \in DOMAIN guarda' \ DOMAIN guarda :
          /\ DOMAIN guarda' = DOMAIN guarda \cup {b}
          /\ \A c \in DOMAIN guarda : Separados(b, c)
          /\ dicho'.dir = b.dir /\ dicho'.n = b.n
    /\ Igual(DOMAIN guarda)

\* A free, or the end of a program, takes blocks away.
Liberar ==
    /\ DOMAIN guarda' \subseteq DOMAIN guarda
    /\ Igual(DOMAIN guarda')
    /\ UNCHANGED dicho

Copiar ==
    /\ DOMAIN guarda' = DOMAIN guarda
    /\ \E b \in DOMAIN guarda :
          /\ \E v \in Valores : guarda'[b] = [i \in 1..b.n |-> <<v, i>>]
          /\ Igual(DOMAIN guarda \ {b})
    /\ UNCHANGED dicho

\* The answer of a copy or of a read is that the block holds those bytes.
Contestar ==
    /\ dicho'.res = 0
    /\ \E b \in DOMAIN guarda : b.dir = dicho'.dir /\ b.n = dicho'.n /\ guarda[b] = dicho'.bytes
    /\ UNCHANGED guarda

Spec == Init /\ [][Reservar \/ Liberar \/ Copiar \/ Contestar]_vars
=============================================================================
