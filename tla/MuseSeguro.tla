----------------------------- MODULE MuseSeguro -----------------------------
(***************************************************************************)
(* Proofs about MUSE, for any number of frames, any size of page and of    *)
(* swap, and any number of programs that ask for anything: its clock       *)
(* elects as its comment says, and its bitmaps of frames and of swap and   *)
(* the page tables of all the programs are in step.  And, for one program  *)
(* at a time, of the blocks between headers: they are end to end, no       *)
(* request makes the server fall, and each holds what was written to it.   *)
(***************************************************************************)
EXTENDS MuseProps, WellFoundedInduction, FiniteSetTheorems, SequenceTheorems, TLAPS

----------------------------------------------------------------------------
(* The clock. *)

\* A round that starts at p stays among the frames.
LEMMA GiroEnMarcos ==
    ASSUME NEW p \in Marcos, NEW k \in Nat
    PROVE  Giro(p, k) \in Marcos
BY MuseAssumption DEF Giro, Marcos

\* A round meets each frame once.
LEMMA GiroUnico ==
    ASSUME NEW p \in Marcos, NEW j \in Marcos, NEW k \in Marcos, Giro(p, j) = Giro(p, k)
    PROVE  j = k
BY MuseAssumption DEF Giro, Marcos

Antes == OpToRel(<, Nat)
LEMMA AntesEsMenor == \A x, y \in Nat : <<y, x>> \notin Antes => x <= y
<1> SUFFICES ASSUME NEW x \in Nat, NEW y \in Nat, ~ (x <= y) PROVE <<y, x>> \in Antes
  OBVIOUS
<1>1. y < x
  OBVIOUS
<1> QED BY <1>1 DEF Antes, OpToRel

\* The first of a set of distances.
LEMMA MenorEsMenor ==
    ASSUME NEW S, S \subseteq Nat, S # {}
    PROVE  Menor(S) \in S /\ \A y \in S : Menor(S) <= y
<1>1. \E x \in S : \A y \in S : <<y, x>> \notin Antes
  BY NatLessThanWellFounded, WFMin DEF Antes
<1>2. \E x \in S : \A y \in S : x <= y
  BY <1>1, AntesEsMenor, Zenon
<1> QED BY <1>2, Zenon DEF Menor

\* What clockModificado does, for any marks of the frames and any pointer.
LEMMA ClockElige ==
    ASSUME NEW ms \in [Marcos -> Marco], NEW p \in Marcos
    PROVE  /\ EligeBien(ms, p)
           /\ ClockModificado(ms, p).marcos \in [Marcos -> Marco]
           /\ ClockModificado(ms, p).puntero \in Marcos
           /\ ClockModificado(ms, p).marco \in Marcos
<1> DEFINE De(k) == ms[Giro(p, k)]
           c1 == Hallados(ms, p, 0)
           c2 == Hallados(ms, p, 1)
           K == Pasados(c2)
           ap == Apagar(ms, p, K)
           c3 == Hallados(ap, p, 0)
           c4 == Hallados(ap, p, 1)
           Peso(k) == 2 * De(k).uso + De(k).mod
           c == ClockModificado(ms, p)
<1>1. \A k \in Marcos : Giro(p, k) \in Marcos /\ Giro(p, k + 1) \in Marcos /\ De(k) \in Marco
  <2> SUFFICES ASSUME NEW k \in Marcos
               PROVE  Giro(p, k) \in Marcos /\ Giro(p, k + 1) \in Marcos /\ De(k) \in Marco
    OBVIOUS
  <2>1. k \in Nat /\ k + 1 \in Nat
    BY DEF Marcos
  <2> QED BY <2>1, GiroEnMarcos
<1>2. /\ ap \in [Marcos -> Marco]
      /\ \A k \in Marcos : ap[Giro(p, k)] = IF k \in K THEN [De(k) EXCEPT !.uso = 0] ELSE De(k)
  <2>1. K \subseteq Marcos
    BY DEF Pasados
  <2>2. ap \in [Marcos -> Marco]
    BY DEF Apagar, Marco
  <2>3. ASSUME NEW k \in Marcos
        PROVE  ap[Giro(p, k)] = IF k \in K THEN [De(k) EXCEPT !.uso = 0] ELSE De(k)
    <3>1. (\E j \in K : Giro(p, k) = Giro(p, j)) <=> k \in K
      BY SMTT(60), <2>1, GiroUnico
    <3> QED BY <3>1, <1>1 DEF Apagar
  <2> QED BY <2>2, <2>3
<1>3. /\ \A k \in Marcos : k \in c1 <=> De(k).uso = 0 /\ De(k).mod = 0
      /\ \A k \in Marcos : k \in c2 <=> De(k).uso = 0 /\ De(k).mod = 1
      /\ \A k \in Marcos : k \in c3 <=> ap[Giro(p, k)].uso = 0 /\ ap[Giro(p, k)].mod = 0
      /\ \A k \in Marcos : k \in c4 <=> ap[Giro(p, k)].uso = 0 /\ ap[Giro(p, k)].mod = 1
      /\ \A S \in {c1, c2, c3, c4} : S \subseteq Marcos
  BY DEF Hallados
<1>4. ASSUME NEW S \in {c1, c2, c3, c4}, S # {}
      PROVE  Menor(S) \in S /\ Menor(S) \in Marcos /\ \A y \in S : Menor(S) <= y
  BY <1>3, <1>4, MenorEsMenor DEF Marcos
<1> HIDE DEF De
<1>5. \A k \in Marcos : De(k) \in [uso: 0..1, mod: 0..1, libre: BOOLEAN]
  BY <1>1 DEF Marco
<1>6. ASSUME NEW k \in Marcos,
             c = [marcos |-> c.marcos, marco |-> Giro(p, k), puntero |-> Giro(p, k + 1)],
             c.marcos \in [Marcos -> Marco],
             \A j \in Marcos :
                 /\ Peso(k) < Peso(j) \/ (Peso(k) = Peso(j) /\ k <= j)
                 /\ \/ c.marcos[Giro(p, j)] = De(j)
                    \/ /\ c.marcos[Giro(p, j)] = [De(j) EXCEPT !.uso = 0]
                       /\ j < k \/ Peso(k) >= 2
      PROVE  /\ EligeBien(ms, p)
             /\ c.marcos \in [Marcos -> Marco] /\ c.puntero \in Marcos /\ c.marco \in Marcos
  BY <1>1, <1>6 DEF EligeBien, De
<1>7. c = IF c1 # {} THEN Elegir(ms, p, c1)
          ELSE IF c2 # {} THEN Elegir(ap, p, c2)
          ELSE IF c3 # {} THEN Elegir(ap, p, c3)
          ELSE Elegir(ap, p, c4)
  BY DEF ClockModificado
<1>8. \A S : S \subseteq Marcos => \A k \in Marcos : k \in Pasados(S) <=> \A e \in S : k < e
  BY DEF Pasados
<1> HIDE DEF c1, c2, c3, c4, K, ap, c
<1>9. CASE c1 # {}
  <2> DEFINE k == Menor(c1)
  <2>1. k \in c1 /\ k \in Marcos /\ \A y \in c1 : k <= y
    BY <1>9, <1>4
  <2>2. c = [marcos |-> ms, marco |-> Giro(p, k), puntero |-> Giro(p, k + 1)]
    BY <1>9, <1>7 DEF Elegir
  <2> HIDE DEF k
  <2>3. Peso(k) = 0
    BY <2>1, <1>3, <1>5
  <2>4. \A j \in Marcos : Peso(k) < Peso(j) \/ (Peso(k) = Peso(j) /\ k <= j)
    BY <2>1, <2>3, <1>3, <1>5
  <2> QED BY <2>1, <2>2, <2>4, <1>6 DEF c, De
<1>10. CASE c1 = {} /\ c2 # {}
  <2> DEFINE k == Menor(c2)
  <2>1. k \in c2 /\ k \in Marcos /\ \A y \in c2 : k <= y
    BY <1>10, <1>4
  <2>2. c = [marcos |-> ap, marco |-> Giro(p, k), puntero |-> Giro(p, k + 1)]
    BY <1>10, <1>7 DEF Elegir
  <2> HIDE DEF k
  <2>3. Peso(k) = 1
    BY <2>1, <1>3, <1>5
  <2>4. \A j \in Marcos : Peso(k) < Peso(j) \/ (Peso(k) = Peso(j) /\ k <= j)
    BY <2>1, <2>3, <1>3, <1>5, <1>10
  <2>5. \A j \in K : j < k
    BY <2>1, <1>3, <1>8 DEF K, Pasados
  <2>6. c.marcos = ap /\ c = [marcos |-> c.marcos, marco |-> Giro(p, k), puntero |-> Giro(p, k + 1)]
    BY <2>2
  <2>7. \A j \in Marcos :
            \/ c.marcos[Giro(p, j)] = De(j)
            \/ c.marcos[Giro(p, j)] = [De(j) EXCEPT !.uso = 0] /\ (j < k \/ Peso(k) >= 2)
    BY <2>5, <2>6, <1>2
  <2> QED BY <2>1, <2>4, <2>6, <2>7, <1>2, <1>6 DEF c
<1>11. CASE c1 = {} /\ c2 = {}
  <2>1. \A j \in Marcos : De(j).uso = 1 /\ j \in K /\ ap[Giro(p, j)] = [De(j) EXCEPT !.uso = 0]
    BY <1>11, <1>2, <1>3, <1>5 DEF K, Pasados
  <2>2. \A j \in Marcos : ap[Giro(p, j)].uso = 0 /\ ap[Giro(p, j)].mod = De(j).mod
    BY <2>1, <1>5
  <2>3. CASE c3 # {}
    <3> DEFINE k == Menor(c3)
    <3>1. k \in c3 /\ k \in Marcos /\ \A y \in c3 : k <= y
      BY <2>3, <1>4
    <3>2. c = [marcos |-> ap, marco |-> Giro(p, k), puntero |-> Giro(p, k + 1)]
      BY <2>3, <1>11, <1>7 DEF Elegir
    <3> HIDE DEF k
    <3>3. Peso(k) = 2
      BY <3>1, <2>1, <2>2, <1>3, <1>5
    <3>4. \A j \in Marcos : Peso(k) < Peso(j) \/ (Peso(k) = Peso(j) /\ k <= j)
      BY <3>1, <3>3, <2>1, <2>2, <1>3, <1>5
    <3>5. c.marcos = ap /\ c = [marcos |-> c.marcos, marco |-> Giro(p, k), puntero |-> Giro(p, k + 1)]
      BY <3>2
    <3>6. \A j \in Marcos : c.marcos[Giro(p, j)] = [De(j) EXCEPT !.uso = 0] /\ Peso(k) >= 2
      BY <3>3, <3>5, <2>1
    <3> QED BY <3>1, <3>4, <3>5, <3>6, <1>2, <1>6 DEF c
  <2>4. CASE c3 = {}
    <3> DEFINE k == Menor(c4)
    <3>1. 0 \in Marcos
      BY MuseAssumption DEF Marcos
    <3>2. c4 # {}
      BY <3>1, <2>2, <2>4, <1>3, <1>5
    <3>3. k \in c4 /\ k \in Marcos /\ \A y \in c4 : k <= y
      BY <3>2, <1>4
    <3>4. c = [marcos |-> ap, marco |-> Giro(p, k), puntero |-> Giro(p, k + 1)]
      BY <2>4, <1>11, <1>7 DEF Elegir
    <3> HIDE DEF k
    <3>5. Peso(k) = 3
      BY <3>3, <2>1, <2>2, <1>3, <1>5
    <3>6. \A j \in Marcos : Peso(k) < Peso(j) \/ (Peso(k) = Peso(j) /\ k <= j)
      BY <3>3, <3>5, <2>1, <2>2, <2>4, <1>3, <1>5
    <3>7. c.marcos = ap /\ c = [marcos |-> c.marcos, marco |-> Giro(p, k), puntero |-> Giro(p, k + 1)]
      BY <3>4
    <3>8. \A j \in Marcos : c.marcos[Giro(p, j)] = [De(j) EXCEPT !.uso = 0] /\ Peso(k) >= 2
      BY <3>5, <3>7, <2>1
    <3> QED BY <3>3, <3>6, <3>7, <3>8, <1>2, <1>6 DEF c
  <2> QED BY <2>3, <2>4
<1> QED BY <1>9, <1>10, <1>11 DEF c
----------------------------------------------------------------------------
\* One bit of a frame written anew.
LEMMA BitSano ==
    ASSUME NEW ms \in [Marcos -> Marco], NEW f, NEW bit \in 0..1
    PROVE  /\ [ms EXCEPT ![f].uso = bit] \in [Marcos -> Marco]
           /\ [ms EXCEPT ![f].mod = bit] \in [Marcos -> Marco]
BY DEF Marco

LEMMA UnBitSano ==
    ASSUME NEW ms \in [Marcos -> Marco], NEW f
    PROVE  /\ [ms EXCEPT ![f].uso = 1] \in [Marcos -> Marco]
           /\ [ms EXCEPT ![f].mod = 1] \in [Marcos -> Marco]
           /\ [ms EXCEPT ![f].mod = 0] \in [Marcos -> Marco]
<1>1. 0 \in 0..1 /\ 1 \in 0..1
  OBVIOUS
<1> QED BY <1>1, BitSano

----------------------------------------------------------------------------
(* The shape of the memory: every piece of a handler keeps it.             *)

LEMMA Numeros ==
    /\ NMarcos \in Nat /\ NMarcos > 0 /\ NSwap \in Nat /\ NSlots \in Nat /\ NSlots > 0
    /\ PAG \in Nat /\ PAG >= 4 /\ HM = 5
    /\ Marcos \subseteq Nat /\ Indices \subseteq Nat /\ Slots \subseteq Nat
    /\ -1 \notin Marcos /\ -1 \notin Indices
BY MuseAssumption DEF Marcos, Indices, Slots, HM

\* The fields of the memory, written one at a time.
LEMMA CampoTipo ==
    ASSUME NEW a \in Memoria
    PROVE  /\ \A x \in [Slots -> Segmento] : [a EXCEPT !.tablas = x] \in Memoria
           /\ \A x \in [Marcos -> Marco] : [a EXCEPT !.marcos = x] \in Memoria
           /\ \A x \in Marcos : [a EXCEPT !.puntero = x] \in Memoria
           /\ \A x \in SUBSET Indices : [a EXCEPT !.swap = x] \in Memoria
           /\ \A x \in [Indices -> Seq(Byte)] : [a EXCEPT !.disco = x] \in Memoria
           /\ \A x \in [Direcciones -> Byte] : [a EXCEPT !.mem = x] \in Memoria
           /\ \A x \in Marcos : [a EXCEPT !.elegido = x] \in Memoria
           /\ \A x \in Caidas : [a EXCEPT !.caida = x] \in Memoria
           /\ \A x \in SUBSET Slots : [a EXCEPT !.clientes = x] \in Memoria
BY DEF Memoria

\* What the fields of the memory are.
LEMMA CampoEs ==
    ASSUME NEW a \in Memoria
    PROVE  /\ a.clientes \subseteq Slots /\ a.tablas \in [Slots -> Segmento]
           /\ a.marcos \in [Marcos -> Marco] /\ a.puntero \in Marcos
           /\ a.swap \subseteq Indices /\ a.disco \in [Indices -> Seq(Byte)]
           /\ a.mem \in [Direcciones -> Byte] /\ a.elegido \in Marcos /\ a.caida \in Caidas
BY DEF Memoria

LEMMA SegmentoEs ==
    ASSUME NEW a \in Memoria, NEW s \in Slots
    PROVE  /\ a.tablas[s] \in Segmento
           /\ PaginasDe(a, s) \in Seq(Pagina) /\ a.tablas[s].heaps \in Seq(Heap)
           /\ a.tablas[s].tam \in Nat
           /\ a.tablas[s].tiene \in BOOLEAN /\ a.tablas[s].enLista \in BOOLEAN
<1>1. a.tablas[s] \in Segmento
  BY CampoEs
<1> QED BY <1>1 DEF Segmento, PaginasDe

LEMMA PaginaEs ==
    ASSUME NEW a \in Memoria, NEW s \in Slots, NEW k \in DOMAIN PaginasDe(a, s)
    PROVE  /\ PaginasDe(a, s)[k] \in Pagina
           /\ PaginasDe(a, s)[k].presencia \in BOOLEAN
           /\ PaginasDe(a, s)[k].marco \in Marcos \cup {-1}
           /\ PaginasDe(a, s)[k].indice \in Indices \cup {-1}
<1>1. PaginasDe(a, s)[k] \in Pagina
  BY SegmentoEs, ElementOfSeq
<1> QED BY <1>1 DEF Pagina

LEMMA TiraTipo ==
    ASSUME NEW v \in Valores \cup {"cab", "basura", "cero"}, NEW k \in Nat, NEW n \in Nat
    PROVE  Tira(v, k, n) \in Seq(Byte) /\ Len(Tira(v, k, n)) = n
<1>1. \A i \in 1..n : <<v, k + i>> \in Byte
  BY DEF Byte
<1> QED BY <1>1 DEF Tira

LEMMA CaerTipo ==
    ASSUME NEW a \in Memoria, NEW por \in Caidas
    PROVE  Caer(a, por) \in Memoria
BY CampoTipo DEF Caer

\* A segment, its pages or its headers written anew.
LEMMA TablaTipo ==
    ASSUME NEW a \in Memoria, NEW s \in Slots, NEW t \in Segmento
    PROVE  [a EXCEPT !.tablas[s] = t] \in Memoria
<1>1. [a.tablas EXCEPT ![s] = t] \in [Slots -> Segmento]
  BY CampoEs
<1> QED BY <1>1, CampoTipo

LEMMA SegmentoTipo ==
    ASSUME NEW t \in Segmento
    PROVE  /\ \A x \in Seq(Pagina) : [t EXCEPT !.paginas = x] \in Segmento
           /\ \A x \in Seq(Heap) : [t EXCEPT !.heaps = x] \in Segmento
           /\ \A x \in Nat : [t EXCEPT !.tam = x] \in Segmento
           /\ [t EXCEPT !.enLista = TRUE] \in Segmento
BY DEF Segmento

\* Of a sequence one element is written, if it is there.
LEMMA UnoDeSeq ==
    ASSUME NEW S, NEW x \in Seq(S), NEW j \in Int, NEW v, j \in DOMAIN x => v \in S
    PROVE  [x EXCEPT ![j] = v] \in Seq(S) /\ Len([x EXCEPT ![j] = v]) = Len(x)
<1> DEFINE y == [x EXCEPT ![j] = v]
<1>1. Len(x) \in Nat /\ DOMAIN x = 1..Len(x) /\ \A i \in 1..Len(x) : x[i] \in S
  BY LenProperties, ElementOfSeq
<1>2. y = [i \in 1..Len(x) |-> IF i = j THEN v ELSE x[i]]
  BY <1>1
<1>3. \A i \in 1..Len(x) : (IF i = j THEN v ELSE x[i]) \in S
  BY <1>1
<1> HIDE DEF y
<1>4. y \in [1..Len(x) -> S]
  BY <1>2, <1>3
<1>5. y \in Seq(S)
  BY <1>1, <1>4
<1>6. Len(y) = Len(x)
  BY <1>1, <1>4, <1>5, LenProperties
<1> QED BY <1>5, <1>6 DEF y

LEMMA ConPaginaTipo ==
    ASSUME NEW a \in Memoria, NEW s \in Slots, NEW k \in Int, NEW pag \in Pagina
    PROVE  ConPagina(a, s, k, pag) \in Memoria
<1> DEFINE ps == [PaginasDe(a, s) EXCEPT ![k + 1] = pag]
           t == [a.tablas[s] EXCEPT !.paginas = ps]
<1>1. ps \in Seq(Pagina)
  BY SegmentoEs, UnoDeSeq
<1>2. t \in Segmento
  BY <1>1, SegmentoEs, SegmentoTipo
<1>3. ConPagina(a, s, k, pag) = [a EXCEPT !.tablas[s] = t]
  BY DEF ConPagina, PaginasDe
<1> HIDE DEF t
<1> QED BY <1>2, <1>3, TablaTipo

\* The marks of a frame.
LEMMA MarcaTipo ==
    ASSUME NEW a \in Memoria, NEW f, NEW v \in Marco
    PROVE  [a EXCEPT !.marcos[f] = v] \in Memoria
<1>1. [a.marcos EXCEPT ![f] = v] \in [Marcos -> Marco]
  BY CampoEs
<1> QED BY <1>1, CampoTipo

LEMMA UnBitTipo ==
    ASSUME NEW a \in Memoria, NEW f
    PROVE  /\ [a EXCEPT !.marcos[f].uso = 1] \in Memoria
           /\ [a EXCEPT !.marcos[f].mod = 1] \in Memoria
           /\ [a EXCEPT !.marcos[f].mod = 0] \in Memoria
<1>1. /\ [a.marcos EXCEPT ![f].uso = 1] \in [Marcos -> Marco]
      /\ [a.marcos EXCEPT ![f].mod = 1] \in [Marcos -> Marco]
      /\ [a.marcos EXCEPT ![f].mod = 0] \in [Marcos -> Marco]
  BY CampoEs, UnBitSano
<1> QED BY <1>1, CampoTipo

LEMMA BitsTipo ==
    ASSUME NEW a \in Memoria, NEW f
    PROVE  /\ [a EXCEPT !.marcos[f].uso = 1, !.marcos[f].mod = 1] \in Memoria
           /\ [a EXCEPT !.marcos[f].mod = 0, !.marcos[f].uso = 1] \in Memoria
<1> DEFINE x == [a EXCEPT !.marcos[f].uso = 1]
           y == [a EXCEPT !.marcos[f].mod = 0]
<1>1. x \in Memoria /\ y \in Memoria
  BY UnBitTipo
<1>2. /\ [a EXCEPT !.marcos[f].uso = 1, !.marcos[f].mod = 1] = [x EXCEPT !.marcos[f].mod = 1]
      /\ [a EXCEPT !.marcos[f].mod = 0, !.marcos[f].uso = 1] = [y EXCEPT !.marcos[f].uso = 1]
  OBVIOUS
<1> HIDE DEF x, y
<1> QED BY <1>1, <1>2, UnBitTipo

LEMMA EscribirTipo ==
    ASSUME NEW a \in Memoria, NEW pos \in Int, NEW bytes \in Seq(Byte)
    PROVE  Escribir(a, pos, bytes) \in Memoria
<1> DEFINE x == [d \in Direcciones |->
                  IF d >= pos /\ d < pos + Len(bytes) THEN bytes[d - pos + 1] ELSE a.mem[d]]
<1>1. Len(bytes) \in Nat /\ \A i \in 1..Len(bytes) : bytes[i] \in Byte
  BY LenProperties, ElementOfSeq
<1>2. Direcciones \subseteq Int
  BY DEF Direcciones
<1>3. \A d \in Direcciones : d >= pos /\ d < pos + Len(bytes) => d - pos + 1 \in 1..Len(bytes)
  BY <1>1, <1>2
<1>4. x \in [Direcciones -> Byte]
  BY <1>1, <1>3, CampoEs
<1>5. [a EXCEPT !.mem = x] \in Memoria /\ "fuera" \in Caidas
  BY <1>4, CampoTipo DEF Caidas
<1> QED BY <1>5, CaerTipo DEF Escribir

LEMMA MarcasSon ==
    /\ [uso |-> 1, mod |-> 1, libre |-> FALSE] \in Marco
    /\ [uso |-> 0, mod |-> 0, libre |-> TRUE] \in Marco
BY DEF Marco

LEMMA OcuparTipo ==
    ASSUME NEW a \in Memoria, NEW f \in Marcos
    PROVE  Ocupar(a, f) \in Memoria
<1> DEFINE v == [uso |-> 1, mod |-> 1, libre |-> FALSE]
           x == [a EXCEPT !.marcos[f] = v]
<1>1. x \in Memoria
  BY MarcaTipo, MarcasSon
<1>2. Ocupar(a, f) = [x EXCEPT !.elegido = f]
  BY DEF Ocupar
<1> HIDE DEF x
<1> QED BY <1>1, <1>2, CampoTipo

LEMMA LlevarASwapTipo ==
    ASSUME NEW a \in Memoria, NEW s \in Slots, NEW k \in Int
    PROVE  LlevarASwap(a, s, k) \in Memoria
<1>1. CASE a.swap = Indices
  BY <1>1, CaerTipo DEF LlevarASwap, Caidas
<1>2. CASE a.swap # Indices
  <2> DEFINE idx == Menor(Indices \ a.swap)
             f == LaPagina(a, s, k).marco
             p == ConPagina(a, s, k, [presencia |-> FALSE, marco |-> -1, indice |-> idx])
             q == [p EXCEPT !.disco[idx] = Tira("basura", 0, PAG)]
             r == [q EXCEPT !.swap = @ \cup {idx}]
             v == [uso |-> 0, mod |-> 0, libre |-> TRUE]
  <2> DEFINE L == Indices \ a.swap
  <2>a. L \subseteq Nat /\ L # {}
    BY <1>2, CampoEs, Numeros
  <2> HIDE DEF L
  <2>b. Menor(L) \in L
    BY <2>a, MenorEsMenor
  <2>1. idx \in Indices
    BY <2>b DEF L
  <2>2. [presencia |-> FALSE, marco |-> -1, indice |-> idx] \in Pagina
    BY <2>1 DEF Pagina
  <2>3. p \in Memoria
    BY <2>2, ConPaginaTipo
  <2> HIDE DEF idx, p
  <2>4. Tira("basura", 0, PAG) \in Seq(Byte)
    BY TiraTipo, Numeros
  <2>5. [p.disco EXCEPT ![idx] = Tira("basura", 0, PAG)] \in [Indices -> Seq(Byte)]
    BY <2>1, <2>3, <2>4, CampoEs
  <2>6. q \in Memoria
    BY <2>3, <2>5, CampoTipo
  <2> HIDE DEF q
  <2>7. r \in Memoria
    BY <2>1, <2>6, CampoEs, CampoTipo
  <2> HIDE DEF r
  <2>8. [r EXCEPT !.marcos[f] = v] \in Memoria
    BY <2>7, MarcaTipo, MarcasSon
  <2>9. LlevarASwap(a, s, k) = [r EXCEPT !.marcos[f] = v]
    BY <1>2 DEF LlevarASwap, r, q, p, idx
  <2> QED BY <2>8, <2>9
<1> QED BY <1>1, <1>2

\* The table and the page that Desalojar takes the frame from.
LEMMA HalladoEs ==
    ASSUME NEW a \in Memoria, NEW f, ConMarco(a, f) # {}
    PROVE  LET s == Menor(ConMarco(a, f))
               k == Menor({j \in DOMAIN PaginasDe(a, s) : PaginasDe(a, s)[j].marco = f})
           IN  /\ s \in Slots /\ k \in DOMAIN PaginasDe(a, s) /\ k \in Nat
               /\ PaginasDe(a, s)[k].marco = f /\ a.tablas[s].enLista
<1> DEFINE s == Menor(ConMarco(a, f))
           K == {j \in DOMAIN PaginasDe(a, s) : PaginasDe(a, s)[j].marco = f}
<1>1. ConMarco(a, f) \subseteq Slots
  BY DEF ConMarco, Recorridos
<1>2. s \in ConMarco(a, f)
  BY <1>1, Numeros, MenorEsMenor
<1>3. s \in Slots /\ K # {} /\ a.tablas[s].enLista
  BY <1>1, <1>2 DEF ConMarco
<1> HIDE DEF s
<1>4. PaginasDe(a, s) \in Seq(Pagina)
  BY <1>3, SegmentoEs
<1>5. DOMAIN PaginasDe(a, s) \subseteq Nat
  BY <1>4, LenProperties
<1>6. K \subseteq Nat
  BY <1>5
<1> HIDE DEF K
<1>7. Menor(K) \in K
  BY <1>3, <1>6, MenorEsMenor
<1> QED BY <1>3, <1>6, <1>7 DEF K, s

LEMMA DesalojarTipo ==
    ASSUME NEW a \in Memoria, NEW f
    PROVE  Desalojar(a, f) \in Memoria
<1> DEFINE s == Menor(ConMarco(a, f))
           k == Menor({j \in DOMAIN PaginasDe(a, s) : PaginasDe(a, s)[j].marco = f})
<1>1. Caer(a, "nulo") \in Memoria
  BY CaerTipo DEF Caidas
<1>2. ConMarco(a, f) # {} => LlevarASwap(a, s, k - 1) \in Memoria
  BY HalladoEs, LlevarASwapTipo
<1> HIDE DEF s, k
<1> QED BY <1>1, <1>2 DEF Desalojar, s, k

LEMMA AsignarTipo ==
    ASSUME NEW a \in Memoria
    PROVE  AsignarUnFrame(a) \in Memoria
<1>1. CASE Libres(a) # {}
  <2>1. Menor(Libres(a)) \in Marcos
    BY <1>1, Numeros, MenorEsMenor DEF Libres
  <2> QED BY <1>1, <2>1, OcuparTipo DEF AsignarUnFrame
<1>2. CASE Libres(a) = {}
  <2> DEFINE c == ClockModificado(a.marcos, a.puntero)
             g == [a EXCEPT !.marcos = c.marcos, !.puntero = c.puntero]
             h == [a EXCEPT !.marcos = c.marcos]
  <2>1. c.marcos \in [Marcos -> Marco] /\ c.puntero \in Marcos /\ c.marco \in Marcos
    BY CampoEs, ClockElige
  <2> HIDE DEF c
  <2>2. h \in Memoria /\ g = [h EXCEPT !.puntero = c.puntero]
    BY <2>1, CampoTipo
  <2> HIDE DEF h
  <2>3. g \in Memoria
    BY <2>1, <2>2, CampoTipo
  <2> HIDE DEF g
  <2>4. Desalojar(Ocupar(g, c.marco), c.marco) \in Memoria
    BY <2>1, <2>3, OcuparTipo, DesalojarTipo
  <2> QED BY <1>2, <2>4 DEF AsignarUnFrame, g, c
<1> QED BY <1>1, <1>2

\* No frame that is given away changes how many pages there are, nor the headers.
LEMMA CaerForma ==
    ASSUME NEW a \in Memoria, NEW por
    PROVE  Caer(a, por).tablas = a.tablas /\ Caer(a, por).clientes = a.clientes
           /\ Caer(a, por).swap = a.swap /\ Caer(a, por).marcos = a.marcos /\ Caer(a, por).mem = a.mem
           /\ Caer(a, por).elegido = a.elegido
           /\ (por # "no" => Caer(a, por).caida # "no")
BY DEF Caer, Memoria

\* What b keeps of a, whatever pages went to swap: the tables and the headers.
MismaForma(a, b) ==
    /\ b.clientes = a.clientes
    /\ \A s \in Slots :
        /\ DOMAIN PaginasDe(b, s) = DOMAIN PaginasDe(a, s)
        /\ b.tablas[s].heaps = a.tablas[s].heaps /\ b.tablas[s].tam = a.tablas[s].tam
        /\ b.tablas[s].tiene = a.tablas[s].tiene /\ b.tablas[s].enLista = a.tablas[s].enLista

TrasConPagina(a, s, k, pag, b) ==
    /\ MismaForma(a, b)
    /\ \A r \in Slots : \A j \in DOMAIN PaginasDe(a, r) :
         PaginasDe(b, r)[j] = IF r = s /\ j = k + 1 THEN pag ELSE PaginasDe(a, r)[j]
    /\ b.caida = a.caida /\ b.elegido = a.elegido /\ b.marcos = a.marcos
    /\ b.swap = a.swap /\ b.mem = a.mem /\ b.disco = a.disco /\ b.puntero = a.puntero

LEMMA ConPaginaHace ==
    ASSUME NEW a \in Memoria, NEW s \in Slots, NEW k \in Int, NEW pag \in Pagina
    PROVE  TrasConPagina(a, s, k, pag, ConPagina(a, s, k, pag))
<1> SUFFICES ASSUME NEW b, b = ConPagina(a, s, k, pag)
             PROVE  TrasConPagina(a, s, k, pag, b)
  OBVIOUS
<1> DEFINE ps == [PaginasDe(a, s) EXCEPT ![k + 1] = pag]
           t == [a.tablas[s] EXCEPT !.paginas = ps]
<1>1. b = [a EXCEPT !.tablas = [a.tablas EXCEPT ![s] = t]]
  BY DEF ConPagina, PaginasDe
<1>2. ps \in Seq(Pagina) /\ Len(ps) = Len(PaginasDe(a, s))
  BY SegmentoEs, UnoDeSeq
<1>3. DOMAIN ps = DOMAIN PaginasDe(a, s)
  OBVIOUS
<1>4. \A j \in DOMAIN PaginasDe(a, s) : ps[j] = IF j = k + 1 THEN pag ELSE PaginasDe(a, s)[j]
  OBVIOUS
<1> HIDE DEF ps
<1>5. a.tablas[s] \in Segmento /\ a.tablas \in [Slots -> Segmento]
  BY SegmentoEs, CampoEs
<1>6. /\ t.paginas = ps /\ t.heaps = a.tablas[s].heaps /\ t.tam = a.tablas[s].tam
      /\ t.tiene = a.tablas[s].tiene /\ t.enLista = a.tablas[s].enLista
  BY <1>5 DEF Segmento
<1> HIDE DEF t
<1>7. /\ b.tablas = [a.tablas EXCEPT ![s] = t] /\ b.clientes = a.clientes
      /\ b.caida = a.caida /\ b.elegido = a.elegido /\ b.marcos = a.marcos
      /\ b.swap = a.swap /\ b.mem = a.mem /\ b.disco = a.disco /\ b.puntero = a.puntero
  BY <1>1 DEF Memoria
<1>8. \A r \in Slots : b.tablas[r] = IF r = s THEN t ELSE a.tablas[r]
  BY <1>5, <1>7
<1>9. MismaForma(a, b)
  BY <1>3, <1>6, <1>7, <1>8 DEF MismaForma, PaginasDe
<1>10. \A r \in Slots : \A j \in DOMAIN PaginasDe(a, r) :
                PaginasDe(b, r)[j] = IF r = s /\ j = k + 1 THEN pag ELSE PaginasDe(a, r)[j]
  BY <1>4, <1>6, <1>8 DEF PaginasDe
<1> QED BY <1>7, <1>9, <1>10 DEF TrasConPagina

TrasLlevar(a, s, k, b) ==
    /\ MismaForma(a, b)
    /\ b.caida = a.caida /\ b.elegido = a.elegido /\ b.mem = a.mem
    /\ Libres(b) = Libres(a) \cup ({LaPagina(a, s, k).marco} \cap Marcos)
    /\ \E idx \in Indices \ a.swap :
         /\ b.swap = a.swap \cup {idx}
         /\ \A r \in Slots : \A j \in DOMAIN PaginasDe(a, r) :
              IF r = s /\ j = k + 1
              THEN /\ ~ PaginasDe(b, r)[j].presencia /\ PaginasDe(b, r)[j].marco = -1
                   /\ PaginasDe(b, r)[j].indice = idx
              ELSE PaginasDe(b, r)[j] = PaginasDe(a, r)[j]

LEMMA LlevarASwapHace ==
    ASSUME NEW a \in Memoria, NEW s \in Slots, NEW k \in Int, a.swap # Indices
    PROVE  TrasLlevar(a, s, k, LlevarASwap(a, s, k))
<1> SUFFICES ASSUME NEW b, b = LlevarASwap(a, s, k)
             PROVE  TrasLlevar(a, s, k, b)
  OBVIOUS
<1> DEFINE idx == Menor(Indices \ a.swap)
           f == LaPagina(a, s, k).marco
           pag == [presencia |-> FALSE, marco |-> -1, indice |-> idx]
           p == ConPagina(a, s, k, pag)
           v == [uso |-> 0, mod |-> 0, libre |-> TRUE]
           L == Indices \ a.swap
<1>1. L \subseteq Nat /\ L # {}
  BY CampoEs, Numeros
<1> HIDE DEF L
<1>2. Menor(L) \in L
  BY <1>1, MenorEsMenor
<1>3. idx \in Indices \ a.swap
  BY <1>2 DEF L
<1>4. pag \in Pagina
  BY <1>3 DEF Pagina
<1>5. b = [p EXCEPT !.disco[idx] = Tira("basura", 0, PAG), !.swap = @ \cup {idx}, !.marcos[f] = v]
  BY DEF LlevarASwap
<1> HIDE DEF idx, f
<1>6. p \in Memoria /\ p = ConPagina(a, s, k, pag)
  BY <1>4, ConPaginaTipo
<1> HIDE DEF p, pag
<1>7. /\ MismaForma(a, p)
      /\ \A r \in Slots : \A j \in DOMAIN PaginasDe(a, r) :
            PaginasDe(p, r)[j] = IF r = s /\ j = k + 1 THEN pag ELSE PaginasDe(a, r)[j]
      /\ p.caida = a.caida /\ p.elegido = a.elegido /\ p.marcos = a.marcos
      /\ p.swap = a.swap /\ p.mem = a.mem
  BY <1>4, <1>6, ConPaginaHace DEF TrasConPagina
<1>8. /\ b.tablas = p.tablas /\ b.clientes = p.clientes /\ b.caida = p.caida /\ b.mem = p.mem
      /\ b.elegido = p.elegido /\ b.swap = p.swap \cup {idx} /\ b.marcos = [p.marcos EXCEPT ![f] = v]
  BY <1>5, <1>6 DEF Memoria
<1>9. MismaForma(a, b)
  BY <1>7, <1>8 DEF MismaForma, PaginasDe
<1>10. \A r \in Slots : \A j \in DOMAIN PaginasDe(a, r) :
            PaginasDe(b, r)[j] = IF r = s /\ j = k + 1 THEN pag ELSE PaginasDe(a, r)[j]
  BY <1>7, <1>8 DEF PaginasDe
<1>11. ~ pag.presencia /\ pag.marco = -1 /\ pag.indice = idx
  BY DEF pag
<1>12. \A r \in Slots : \A j \in DOMAIN PaginasDe(a, r) :
            IF r = s /\ j = k + 1
            THEN /\ ~ PaginasDe(b, r)[j].presencia /\ PaginasDe(b, r)[j].marco = -1
                 /\ PaginasDe(b, r)[j].indice = idx
            ELSE PaginasDe(b, r)[j] = PaginasDe(a, r)[j]
  BY <1>10, <1>11
<1>13. a.marcos \in [Marcos -> Marco] /\ b.marcos = [a.marcos EXCEPT ![f] = v] /\ v.libre
  BY <1>7, <1>8, CampoEs
<1> HIDE DEF v
<1>14. Libres(b) = Libres(a) \cup ({f} \cap Marcos)
  BY <1>13 DEF Libres
<1> QED BY <1>3, <1>7, <1>8, <1>9, <1>12, <1>14 DEF f, TrasLlevar

\* A frame that is given away changes at most the page that had it.
LEMMA DesalojarForma ==
    ASSUME NEW a \in Memoria, NEW f
    PROVE  /\ MismaForma(a, Desalojar(a, f))
           /\ Desalojar(a, f).elegido = a.elegido
           /\ Desalojar(a, f).caida = "no" => a.caida = "no"
           /\ \A s \in Slots : \A k \in DOMAIN PaginasDe(a, s) :
                PaginasDe(a, s)[k].marco # f => PaginasDe(Desalojar(a, f), s)[k] = PaginasDe(a, s)[k]
<1> DEFINE s == Menor(ConMarco(a, f))
           k == Menor({j \in DOMAIN PaginasDe(a, s) : PaginasDe(a, s)[j].marco = f})
           b == LlevarASwap(a, s, k - 1)
<1>1. \A x : /\ Caer(a, x).tablas = a.tablas /\ Caer(a, x).clientes = a.clientes
             /\ Caer(a, x).elegido = a.elegido
             /\ Caer(a, x).caida = "no" => a.caida = "no"
  BY CaerForma DEF Caer
<1>2. CASE ConMarco(a, f) = {}
  BY <1>1, <1>2 DEF Desalojar, MismaForma, PaginasDe
<1>3. CASE ConMarco(a, f) # {} /\ a.swap = Indices
  BY <1>1, <1>3 DEF Desalojar, LlevarASwap, MismaForma, PaginasDe
<1>4. CASE ConMarco(a, f) # {} /\ a.swap # Indices
  <2>1. /\ s \in Slots /\ k \in DOMAIN PaginasDe(a, s) /\ k \in Nat
        /\ PaginasDe(a, s)[k].marco = f
    BY <1>4, HalladoEs
  <2> HIDE DEF s, k
  <2>2. k - 1 \in Int /\ (k - 1) + 1 = k
    BY <2>1
  <2>3. /\ MismaForma(a, b) /\ b.elegido = a.elegido /\ b.caida = a.caida
        /\ \A r \in Slots : \A j \in DOMAIN PaginasDe(a, r) :
             r # s \/ j # (k - 1) + 1 => PaginasDe(b, r)[j] = PaginasDe(a, r)[j]
    <3>1. b = LlevarASwap(a, s, k - 1)
      OBVIOUS
    <3> HIDE DEF b
    <3>2. TrasLlevar(a, s, k - 1, b)
      BY <1>4, <2>1, <2>2, <3>1, LlevarASwapHace
    <3> QED BY <3>2 DEF TrasLlevar
  <2>4. \A r \in Slots : \A j \in DOMAIN PaginasDe(a, r) :
            PaginasDe(a, r)[j].marco # f => PaginasDe(b, r)[j] = PaginasDe(a, r)[j]
    BY <2>1, <2>2, <2>3
  <2>5. Desalojar(a, f) \in {Caer(a, "nulo"), b}
    BY <1>4 DEF Desalojar, b, s, k
  <2> HIDE DEF b
  <2>6. CASE Desalojar(a, f) = Caer(a, "nulo")
    BY <1>1, <2>6 DEF MismaForma, PaginasDe
  <2>7. CASE Desalojar(a, f) = b
    BY <2>3, <2>4, <2>7
  <2> QED BY <2>5, <2>6, <2>7
<1> QED BY <1>2, <1>3, <1>4

TrasOcupar(a, f, b) ==
    /\ b.tablas = a.tablas /\ b.clientes = a.clientes /\ b.swap = a.swap
    /\ b.caida = a.caida /\ b.mem = a.mem /\ b.elegido = f /\ b.disco = a.disco
    /\ Libres(b) = Libres(a) \ {f}

LEMMA OcuparHace ==
    ASSUME NEW a \in Memoria, NEW f \in Marcos
    PROVE  TrasOcupar(a, f, Ocupar(a, f))
<1> SUFFICES ASSUME NEW b, b = Ocupar(a, f) PROVE TrasOcupar(a, f, b)
  OBVIOUS
<1> DEFINE v == [uso |-> 1, mod |-> 1, libre |-> FALSE]
<1>1. /\ b.tablas = a.tablas /\ b.clientes = a.clientes /\ b.swap = a.swap
      /\ b.caida = a.caida /\ b.mem = a.mem /\ b.elegido = f /\ b.disco = a.disco
      /\ b.marcos = [a.marcos EXCEPT ![f] = v] /\ ~ v.libre
  BY DEF Ocupar, Memoria
<1> HIDE DEF v
<1>2. a.marcos \in [Marcos -> Marco]
  BY CampoEs
<1>3. Libres(b) = Libres(a) \ {f}
  BY <1>1, <1>2 DEF Libres
<1> QED BY <1>1, <1>3 DEF TrasOcupar

\* The memory after the clock, before the frame that it elected is emptied.
Elegida(a) ==
    LET c == ClockModificado(a.marcos, a.puntero)
    IN  Ocupar([a EXCEPT !.marcos = c.marcos, !.puntero = c.puntero], c.marco)

LEMMA ApagarLibre ==
    ASSUME NEW ms \in [Marcos -> Marco], NEW p \in Marcos
    PROVE  \A f \in Marcos : ClockModificado(ms, p).marcos[f].libre = ms[f].libre
<1>1. \A K : \A f \in Marcos : Apagar(ms, p, K)[f].libre = ms[f].libre
  BY DEF Apagar, Marco
<1> QED BY <1>1 DEF ClockModificado, Elegir

TrasElegir(a, b) ==
    /\ b \in Memoria /\ b.elegido \in Marcos
    /\ b.elegido = ClockModificado(a.marcos, a.puntero).marco
    /\ b.tablas = a.tablas /\ b.clientes = a.clientes /\ b.swap = a.swap
    /\ b.caida = a.caida /\ b.mem = a.mem
    /\ Libres(b) = Libres(a) \ {b.elegido}

LEMMA ElegidaHace ==
    ASSUME NEW a \in Memoria
    PROVE  TrasElegir(a, Elegida(a))
<1> SUFFICES ASSUME NEW b, b = Elegida(a)
             PROVE  TrasElegir(a, b)
  OBVIOUS
<1> DEFINE c == ClockModificado(a.marcos, a.puntero)
           h == [a EXCEPT !.marcos = c.marcos]
           g == [h EXCEPT !.puntero = c.puntero]
<1>1. /\ c.marcos \in [Marcos -> Marco] /\ c.puntero \in Marcos /\ c.marco \in Marcos
      /\ \A f \in Marcos : c.marcos[f].libre = a.marcos[f].libre
  BY CampoEs, ClockElige, ApagarLibre
<1>2. b = Ocupar(g, c.marco) /\ c.marco = ClockModificado(a.marcos, a.puntero).marco
  BY DEF Elegida
<1> HIDE DEF c
<1>3. h.tablas = a.tablas /\ h.clientes = a.clientes /\ h.swap = a.swap
      /\ h.caida = a.caida /\ h.mem = a.mem /\ h.marcos = c.marcos
  BY DEF Memoria
<1>31. h \in Memoria
  BY <1>1, CampoTipo
<1> HIDE DEF h
<1>4. g.tablas = a.tablas /\ g.clientes = a.clientes /\ g.swap = a.swap
      /\ g.caida = a.caida /\ g.mem = a.mem /\ g.marcos = c.marcos
  BY <1>3, <1>31 DEF Memoria
<1>41. g \in Memoria
  BY <1>1, <1>31, CampoTipo
<1> HIDE DEF g
<1>5. b \in Memoria
  BY <1>1, <1>2, <1>41, OcuparTipo
<1>51. TrasOcupar(g, c.marco, b)
  BY <1>1, <1>2, <1>41, OcuparHace
<1>52. Libres(g) = Libres(a)
  BY <1>1, <1>4 DEF Libres
<1>6. /\ b.tablas = g.tablas /\ b.clientes = g.clientes /\ b.swap = g.swap
      /\ b.caida = g.caida /\ b.mem = g.mem /\ b.elegido = c.marco
      /\ Libres(b) = Libres(g) \ {c.marco}
  BY <1>51 DEF TrasOcupar
<1> QED BY <1>1, <1>52, <1>2, <1>4, <1>5, <1>6 DEF TrasElegir

LEMMA AsignarCasos ==
    ASSUME NEW a \in Memoria
    PROVE  AsignarUnFrame(a) = IF Libres(a) # {} THEN Ocupar(a, Menor(Libres(a)))
                               ELSE Desalojar(Elegida(a), Elegida(a).elegido)
<1> DEFINE c == ClockModificado(a.marcos, a.puntero)
           g == [a EXCEPT !.marcos = c.marcos, !.puntero = c.puntero]
<1>1. Elegida(a).elegido = c.marco
  BY ElegidaHace DEF TrasElegir
<1> QED BY <1>1 DEF AsignarUnFrame, Elegida

LEMMA LibreEs ==
    ASSUME NEW a \in Memoria, Libres(a) # {}
    PROVE  Menor(Libres(a)) \in Marcos /\ Menor(Libres(a)) \in Libres(a)
BY Numeros, MenorEsMenor DEF Libres

\* No frame that is given away changes how many pages there are nor the headers,
\* nor a page that is out of memory.
LEMMA AsignarForma ==
    ASSUME NEW a \in Memoria, NEW b, b = AsignarUnFrame(a)
    PROVE  /\ b \in Memoria /\ MismaForma(a, b)
           /\ b.caida = "no" => a.caida = "no"
           /\ \A s \in Slots : \A k \in DOMAIN PaginasDe(a, s) :
                PaginasDe(a, s)[k].marco = -1 => PaginasDe(b, s)[k] = PaginasDe(a, s)[k]
<1>1. b \in Memoria
  BY AsignarTipo
<1>2. CASE Libres(a) # {}
  <2>1. TrasOcupar(a, Menor(Libres(a)), b)
    BY <1>2, AsignarCasos, LibreEs, OcuparHace
  <2>2. b.tablas = a.tablas /\ b.clientes = a.clientes /\ b.caida = a.caida
    BY <2>1 DEF TrasOcupar
  <2> QED BY <1>1, <2>2 DEF MismaForma, PaginasDe
<1>3. CASE Libres(a) = {}
  <2> DEFINE e == Elegida(a)
  <2>1. e \in Memoria /\ e.elegido \in Marcos /\ e.tablas = a.tablas /\ e.clientes = a.clientes /\ e.caida = a.caida
    BY ElegidaHace DEF TrasElegir
  <2>2. b = Desalojar(e, e.elegido)
    BY <1>3, AsignarCasos
  <2> HIDE DEF e
  <2>3. /\ MismaForma(e, b) /\ (b.caida = "no" => e.caida = "no")
        /\ \A s \in Slots : \A k \in DOMAIN PaginasDe(e, s) :
             PaginasDe(e, s)[k].marco # e.elegido => PaginasDe(b, s)[k] = PaginasDe(e, s)[k]
    BY <2>1, <2>2, DesalojarForma
  <2> QED BY <1>1, <2>1, <2>3, Numeros DEF MismaForma, PaginasDe
<1> QED BY <1>2, <1>3

----------------------------------------------------------------------------
(* Frames, pages and swap in step, on any memory a.                        *)

Pag(a, s, k) == PaginasDe(a, s)[k]
Hay(a, s, k) == s \in Slots /\ k \in DOMAIN PaginasDe(a, s)
Dentro(a, s, k) == Hay(a, s, k) /\ Pag(a, s, k).presencia
Fuera(a, s, k) == Hay(a, s, k) /\ ~ Pag(a, s, k).presencia

\* A page in memory has a frame, which is not free unless it is e, the one being
\* given away; a page out of memory has an entry of swap.
Ubicadas(a, e) ==
    \A s \in Slots : \A k \in DOMAIN PaginasDe(a, s) :
        /\ Dentro(a, s, k) =>
             /\ Pag(a, s, k).marco \in Marcos /\ Pag(a, s, k).indice = -1
             /\ Pag(a, s, k).marco = e \/ Pag(a, s, k).marco \notin Libres(a)
        /\ Fuera(a, s, k) => Pag(a, s, k).marco = -1 /\ Pag(a, s, k).indice \in a.swap

\* Each entry of swap in use is that of one page.
SwapExacto(a) ==
    /\ \A i \in a.swap : \E s \in Slots : \E k \in DOMAIN PaginasDe(a, s) :
            Fuera(a, s, k) /\ Pag(a, s, k).indice = i
    /\ \A s, r \in Slots : \A k \in DOMAIN PaginasDe(a, s), j \in DOMAIN PaginasDe(a, r) :
            Fuera(a, s, k) /\ Fuera(a, r, j) /\ Pag(a, s, k).indice = Pag(a, r, j).indice
                => s = r /\ k = j

\* A page is out of memory only while no frame is free, and none is taken for nothing.
Llena(a, e) ==
    (\E s \in Slots : \E k \in DOMAIN PaginasDe(a, s) : Fuera(a, s, k)) => Libres(a) \subseteq {e}
ConPag(a, e) ==
    \A f \in Marcos \ {e} : f \notin Libres(a) =>
        \E s \in Slots : \E k \in DOMAIN PaginasDe(a, s) : Dentro(a, s, k) /\ Pag(a, s, k).marco = f

\* A segment with pages is in the list of its program, or in N, those that a request
\* in hand is creating or extending.
EnListas(a, N) ==
    \A s \in Slots :
        /\ PaginasDe(a, s) # <<>> => a.tablas[s].tiene /\ (a.tablas[s].enLista \/ s \in N)
        /\ a.tablas[s].enLista =>
             PaginasDe(a, s) # <<>> /\ a.tablas[s].heaps # <<>> /\ a.tablas[s].tiene

Orden(a, e, N) ==
    Ubicadas(a, e) /\ SwapExacto(a) /\ Llena(a, e) /\ ConPag(a, e) /\ EnListas(a, N)

\* The frames with two pages, as in Compartidos.
CompartidosEn(a) ==
    {f \in Marcos : \E s, r \in Slots :
        \E k \in DOMAIN PaginasDe(a, s), j \in DOMAIN PaginasDe(a, r) :
            /\ <<s, k>> # <<r, j>> /\ Dentro(a, s, k) /\ Dentro(a, r, j)
            /\ Pag(a, s, k).marco = f /\ Pag(a, r, j).marco = f}

\* All of this depends on the entries of swap, the free frames and the tables only.
Iguales(a, b) ==
    /\ b.swap = a.swap /\ Libres(b) = Libres(a)
    /\ \A s \in Slots :
        /\ PaginasDe(b, s) = PaginasDe(a, s) /\ b.tablas[s].tiene = a.tablas[s].tiene
        /\ b.tablas[s].enLista = a.tablas[s].enLista
        /\ b.tablas[s].heaps = <<>> => a.tablas[s].heaps = <<>>

LEMMA PaginasIguales ==
    ASSUME NEW a, NEW b, b.swap = a.swap, Libres(b) = Libres(a),
           \A s \in Slots : PaginasDe(b, s) = PaginasDe(a, s)
    PROVE  /\ \A e, N, M : Orden(a, e, N) /\ EnListas(b, M) => Orden(b, e, M)
           /\ CompartidosEn(b) = CompartidosEn(a)
<1>1. \A s \in Slots : \A k :
        /\ Hay(b, s, k) = Hay(a, s, k) /\ Pag(b, s, k) = Pag(a, s, k)
        /\ Dentro(b, s, k) = Dentro(a, s, k) /\ Fuera(b, s, k) = Fuera(a, s, k)
  BY DEF Hay, Pag, Dentro, Fuera
<1>2. \A e : Ubicadas(a, e) => Ubicadas(b, e)
  BY <1>1 DEF Ubicadas
<1>3. SwapExacto(a) => SwapExacto(b)
  BY <1>1 DEF SwapExacto
<1>4. \A e : Llena(a, e) => Llena(b, e)
  BY <1>1 DEF Llena
<1>5. \A e : ConPag(a, e) => ConPag(b, e)
  BY <1>1 DEF ConPag
<1>6. CompartidosEn(b) = CompartidosEn(a)
  BY <1>1 DEF CompartidosEn
<1> QED BY <1>2, <1>3, <1>4, <1>5, <1>6 DEF Orden

LEMMA OrdenIgual ==
    ASSUME NEW a, NEW b, Iguales(a, b)
    PROVE  /\ \A e, N : Orden(a, e, N) => Orden(b, e, N)
           /\ CompartidosEn(b) = CompartidosEn(a)
<1>1. \A N : EnListas(a, N) => EnListas(b, N)
  BY DEF Iguales, EnListas
<1>2. /\ \A e, N, M : Orden(a, e, N) /\ EnListas(b, M) => Orden(b, e, M)
      /\ CompartidosEn(b) = CompartidosEn(a)
  BY PaginasIguales DEF Iguales
<1> QED BY <1>1, <1>2 DEF Orden

\* With no frame being given away, any may be.
LEMMA OrdenDebil ==
    ASSUME NEW a, NEW f, NEW N, NEW M, N \subseteq M, Orden(a, -1, N)
    PROVE  Orden(a, f, M)
<1>1. Libres(a) \subseteq Marcos
  BY DEF Libres
<1>2. Ubicadas(a, f)
  BY Numeros DEF Orden, Ubicadas
<1>3. Llena(a, f)
  BY <1>1, Numeros DEF Orden, Llena
<1>4. ConPag(a, f)
  BY Numeros DEF Orden, ConPag
<1>5. EnListas(a, M)
  BY DEF Orden, EnListas
<1> QED BY <1>2, <1>3, <1>4, <1>5 DEF Orden

\* If buscarPaginaAsociadaAFrame does not fall, it goes over all the tables.
LEMMA SinHuecos ==
    ASSUME NEW a \in Memoria, Rotos(a) = {}, NEW s \in Slots, a.tablas[s].tiene
    PROVE  s \in Recorridos(a)
<1> DEFINE T == {r \in Slots : a.tablas[r].tiene}
           n == Cardinality(T)
<1>a. \A k \in Nat : IsFiniteSet(0..(k - 1)) /\ Cardinality(0..(k - 1)) = k
  BY FS_Interval
<1>1. IsFiniteSet(Slots) /\ Cardinality(Slots) = NSlots
  BY <1>a, Numeros DEF Slots
<1>b. T \in SUBSET Slots
  OBVIOUS
<1>2. IsFiniteSet(T) /\ n \in Nat /\ n <= NSlots
  <2> HIDE DEF T
  <2> QED BY <1>1, <1>b, FS_Subset, FS_CardinalityType
<1>c. Recorridos(a) = {i \in Slots : i < n}
  BY Zenon DEF Recorridos
<1> HIDE DEF n
<1>3. Recorridos(a) = 0..(n - 1)
  BY <1>2, <1>c, Numeros DEF Slots
<1>4. Recorridos(a) \subseteq T
  BY DEF Rotos, Recorridos
<1>5. Cardinality(Recorridos(a)) = n
  BY <1>2, <1>3, <1>a
<1>6. Recorridos(a) = T
  BY <1>2, <1>4, <1>5, FS_Subset DEF n
<1> QED BY <1>6

LEMMA VacioForma ==
    ASSUME NEW a \in Memoria, NEW b \in Memoria, MismaForma(a, b), NEW s \in Slots
    PROVE  /\ PaginasDe(b, s) = <<>> <=> PaginasDe(a, s) = <<>>
           /\ Len(PaginasDe(b, s)) = Len(PaginasDe(a, s))
<1>1. PaginasDe(a, s) \in Seq(Pagina) /\ PaginasDe(b, s) \in Seq(Pagina)
  BY SegmentoEs
<1>2. DOMAIN PaginasDe(b, s) = DOMAIN PaginasDe(a, s)
  BY DEF MismaForma
<1> HIDE DEF PaginasDe
<1> QED BY <1>1, <1>2, LenProperties, EmptySeq

\* What b keeps of the pages of a: none came in, none that was out changed.
SoloSalen(a, b) ==
    \A s \in Slots : \A k \in DOMAIN PaginasDe(a, s) :
        Dentro(b, s, k) \/ Fuera(a, s, k) => Pag(b, s, k) = Pag(a, s, k)

\* The pages that are still in the frame f, which is being given away: it had two
\* already, or they are of a segment that is not in the list of its program.
Quedan(a, b, f, N) ==
    \A s \in Slots : \A k \in DOMAIN PaginasDe(b, s) :
        Dentro(b, s, k) /\ Pag(b, s, k).marco = f =>
            \/ f \in CompartidosEn(a)
            \/ Libres(b) = {} /\ s \in N /\ ~ a.tablas[s].enLista

\* A page that goes to swap when no frame is free.
LEMMA LlevarOrden ==
    ASSUME NEW a \in Memoria, NEW b \in Memoria, NEW N, NEW s \in Slots, NEW k \in DOMAIN PaginasDe(a, s),
           NEW f \in Marcos, Orden(a, -1, N), Libres(a) = {},
           Pag(a, s, k).marco = f, TrasLlevar(a, s, k - 1, b)
    PROVE  Orden(b, f, N) /\ Libres(b) = {f} /\ SoloSalen(a, b) /\ Quedan(a, b, f, N)
<1>1. k \in Int /\ (k - 1) + 1 = k
  <2>1. PaginasDe(a, s) \in Seq(Pagina)
    BY SegmentoEs
  <2> QED BY <2>1, LenProperties
<1>2. LaPagina(a, s, k - 1) = Pag(a, s, k)
  BY <1>1 DEF LaPagina, Pag
<1>3. Libres(b) = {f}
  BY <1>2 DEF TrasLlevar
<1> PICK idx \in Indices \ a.swap :
        /\ b.swap = a.swap \cup {idx}
        /\ \A r \in Slots : \A j \in DOMAIN PaginasDe(a, r) :
             IF r = s /\ j = k
             THEN ~ Pag(b, r, j).presencia /\ Pag(b, r, j).marco = -1 /\ Pag(b, r, j).indice = idx
             ELSE Pag(b, r, j) = Pag(a, r, j)
  BY <1>1 DEF TrasLlevar, Pag
<1>4. MismaForma(a, b)
  BY DEF TrasLlevar
<1>5. \A r \in Slots : \A j : Hay(b, r, j) <=> Hay(a, r, j)
  BY <1>4 DEF MismaForma, Hay
<1>6. Dentro(a, s, k)
  BY Numeros DEF Orden, Ubicadas, Dentro, Fuera, Hay
<1>7. Fuera(b, s, k) /\ Pag(b, s, k).marco = -1 /\ Pag(b, s, k).indice = idx /\ idx \notin a.swap
  BY <1>5 DEF Fuera, Hay
<1>8. \A r \in Slots : \A j : r # s \/ j # k =>
        /\ Hay(a, r, j) => Pag(b, r, j) = Pag(a, r, j)
        /\ Dentro(b, r, j) <=> Dentro(a, r, j)
        /\ Fuera(b, r, j) <=> Fuera(a, r, j)
  BY <1>5 DEF Dentro, Fuera, Hay
<1>9. ~ Dentro(b, s, k) /\ ~ Fuera(a, s, k)
  BY <1>6, <1>7 DEF Dentro, Fuera
<1>10. \A r \in Slots : \A j : j \in DOMAIN PaginasDe(b, r) <=> Hay(a, r, j)
  BY <1>5 DEF Hay
<1>11. \A r \in Slots : \A j : Dentro(b, r, j) \/ Fuera(b, r, j) => Hay(a, r, j)
  BY <1>5 DEF Dentro, Fuera
<1>12. Ubicadas(b, f)
  <2>1. \A r \in Slots : \A j : Dentro(b, r, j) =>
          /\ Pag(b, r, j).marco \in Marcos /\ Pag(b, r, j).indice = -1
          /\ Pag(b, r, j).marco = f \/ Pag(b, r, j).marco \notin Libres(b)
    BY <1>3, <1>8, <1>9, <1>11 DEF Orden, Ubicadas, Hay
  <2>2. \A r \in Slots : \A j : Fuera(b, r, j) => Pag(b, r, j).marco = -1 /\ Pag(b, r, j).indice \in b.swap
    BY <1>7, <1>8, <1>11 DEF Orden, Ubicadas, Hay
  <2> QED BY <2>1, <2>2 DEF Ubicadas
<1>13. SwapExacto(b)
  <2>1. ASSUME NEW i \in b.swap
        PROVE  \E r \in Slots : \E j \in DOMAIN PaginasDe(b, r) : Fuera(b, r, j) /\ Pag(b, r, j).indice = i
    <3>1. CASE i = idx
      BY <3>1, <1>7 DEF Fuera, Hay
    <3>2. CASE i # idx
      <4>1. PICK r \in Slots : \E j \in DOMAIN PaginasDe(a, r) : Fuera(a, r, j) /\ Pag(a, r, j).indice = i
        BY <3>2 DEF Orden, SwapExacto
      <4> PICK j \in DOMAIN PaginasDe(a, r) : Fuera(a, r, j) /\ Pag(a, r, j).indice = i
        BY <4>1
      <4>2. r # s \/ j # k
        BY <4>1, <1>9
      <4>3. Fuera(b, r, j) /\ Pag(b, r, j).indice = i
        BY <4>1, <4>2, <1>8 DEF Hay
      <4> QED BY <4>3 DEF Fuera, Hay
    <3> QED BY <3>1, <3>2
  <2>2. ASSUME NEW r \in Slots, NEW q \in Slots, NEW j \in DOMAIN PaginasDe(b, r), NEW i \in DOMAIN PaginasDe(b, q),
               Fuera(b, r, j), Fuera(b, q, i), Pag(b, r, j).indice = Pag(b, q, i).indice
        PROVE  r = q /\ j = i
    <3>1. \A x \in Slots : \A y : Fuera(b, x, y) /\ (x # s \/ y # k) =>
             Fuera(a, x, y) /\ y \in DOMAIN PaginasDe(a, x) /\ Pag(b, x, y) = Pag(a, x, y) /\ Pag(b, x, y).indice \in a.swap
      BY <1>8, <1>11 DEF Hay, Orden, Ubicadas
    <3>2. CASE (r = s /\ j = k) \/ (q = s /\ i = k)
      BY <2>2, <3>1, <3>2, <1>7
    <3>3. CASE (r # s \/ j # k) /\ (q # s \/ i # k)
      BY <2>2, <3>1, <3>3 DEF Orden, SwapExacto
    <3> QED BY <3>2, <3>3
  <2> QED BY <2>1, <2>2 DEF SwapExacto
<1>14. Llena(b, f)
  BY <1>3 DEF Llena
<1>15. ConPag(b, f)
  <2> SUFFICES ASSUME NEW g \in Marcos \ {f}
               PROVE  \E r \in Slots : \E j \in DOMAIN PaginasDe(b, r) : Dentro(b, r, j) /\ Pag(b, r, j).marco = g
    BY DEF ConPag
  <2>1. PICK r \in Slots : \E j \in DOMAIN PaginasDe(a, r) : Dentro(a, r, j) /\ Pag(a, r, j).marco = g
    BY Numeros DEF Orden, ConPag
  <2> PICK j \in DOMAIN PaginasDe(a, r) : Dentro(a, r, j) /\ Pag(a, r, j).marco = g
    BY <2>1
  <2>2. r # s \/ j # k
    BY <2>1
  <2>3. Dentro(b, r, j) /\ Pag(b, r, j).marco = g
    BY <2>1, <2>2, <1>8 DEF Hay
  <2> QED BY <2>3 DEF Dentro, Hay
<1>16. EnListas(b, N)
  <2>1. \A r \in Slots : PaginasDe(b, r) = <<>> <=> PaginasDe(a, r) = <<>>
    BY <1>4, VacioForma
  <2> QED BY <1>4, <2>1 DEF Orden, EnListas, MismaForma
<1>17. SoloSalen(a, b)
  BY <1>8, <1>9 DEF SoloSalen, Hay
<1>18. Quedan(a, b, f, N)
  <2> SUFFICES ASSUME NEW r \in Slots, NEW j \in DOMAIN PaginasDe(b, r), Dentro(b, r, j), Pag(b, r, j).marco = f
               PROVE  f \in CompartidosEn(a)
    BY DEF Quedan
  <2>1. r # s \/ j # k
    BY <1>9
  <2>2. Dentro(a, r, j) /\ Pag(a, r, j).marco = f /\ j \in DOMAIN PaginasDe(a, r)
    BY <2>1, <1>8, <1>11 DEF Hay
  <2> QED BY <2>1, <2>2, <1>6 DEF CompartidosEn
<1> QED BY <1>3, <1>12, <1>13, <1>14, <1>15, <1>16, <1>17, <1>18 DEF Orden

\* What asignarUnFrame leaves when it does not fall, b, of the memory a.
TrasAsignar(a, N, b) ==
    /\ b \in Memoria /\ a.caida = "no" /\ MismaForma(a, b)
    /\ Orden(b, b.elegido, N)
    /\ \/ Libres(b) = Libres(a) \ {b.elegido}
       \/ Libres(b) = {b.elegido} /\ Libres(a) = {}
    /\ Libres(a) = {} /\ N = {} => Libres(b) = {b.elegido}
    /\ SoloSalen(a, b)
    /\ Quedan(a, b, b.elegido, N)

\* The frame that the clock elected.
LEMMA DesalojarOrden ==
    ASSUME NEW a \in Memoria, NEW N, a.elegido \in Marcos, Orden(a, -1, N), Libres(a) = {},
           Desalojar(a, a.elegido).caida = "no"
    PROVE  TrasAsignar(a, N, Desalojar(a, a.elegido))
<1> DEFINE f == a.elegido
           H == ConMarco(a, f)
           s == Menor(H)
           k == Menor({j \in DOMAIN PaginasDe(a, s) : PaginasDe(a, s)[j].marco = f})
           b == Desalojar(a, f)
<1>0. b = Desalojar(a, f) /\ f = a.elegido /\ f \in Marcos /\ b.caida = "no"
  OBVIOUS
<1>1. b \in Memoria /\ b.elegido = f /\ MismaForma(a, b)
  BY DesalojarTipo, DesalojarForma
<1>2. b = IF \E r \in Rotos(a) : \A h \in H : r <= h THEN Caer(a, "nulo")
          ELSE IF H = {} THEN a ELSE LlevarASwap(a, s, k - 1)
  BY DEF Desalojar
<1>3. Caer(a, "nulo").caida # "no" /\ Caer(a, "fuera").caida # "no"
  BY CaerForma
<1>4. CASE H = {}
  <2>1. Rotos(a) = {} /\ b = a
    BY <1>0, <1>2, <1>3, <1>4
  <2>2. Orden(a, f, N)
    BY OrdenDebil
  <2>3. ASSUME NEW r \in Slots, NEW j \in DOMAIN PaginasDe(a, r), Pag(a, r, j).marco = f
        PROVE  r \in N /\ ~ a.tablas[r].enLista
    <3>1. PaginasDe(a, r) # <<>>
      BY <2>3, SegmentoEs, EmptySeq
    <3>2. a.tablas[r].tiene /\ (a.tablas[r].enLista \/ r \in N)
      BY <3>1 DEF Orden, EnListas
    <3>3. r \in Recorridos(a)
      BY <2>1, <3>2, SinHuecos
    <3>4. ~ a.tablas[r].enLista
      BY <1>4, <2>3, <3>3 DEF ConMarco, Pag
    <3> QED BY <3>2, <3>4
  <2>4. \E r \in Slots : \E j \in DOMAIN PaginasDe(a, r) : Pag(a, r, j).marco = f
    BY <1>0, Numeros DEF Orden, ConPag
  <2>5. N # {}
    BY <2>3, <2>4
  <2>6. SoloSalen(a, a) /\ Quedan(a, a, f, N)
    BY <2>3 DEF SoloSalen, Quedan
  <2> HIDE DEF b
  <2> QED BY <1>0, <1>1, <2>1, <2>2, <2>5, <2>6 DEF TrasAsignar
<1>5. CASE H # {}
  <2>1. /\ s \in Slots /\ k \in DOMAIN PaginasDe(a, s) /\ k \in Nat
        /\ PaginasDe(a, s)[k].marco = f
    BY <1>5, HalladoEs
  <2>2. b = LlevarASwap(a, s, k - 1)
    BY <1>0, <1>2, <1>3, <1>5
  <2> HIDE DEF s, k, b, f, H
  <2>3. a.swap # Indices
    BY <1>0, <1>3, <2>2 DEF LlevarASwap
  <2>4. k - 1 \in Int
    BY <2>1
  <2>5. TrasLlevar(a, s, k - 1, b)
    BY <2>1, <2>2, <2>3, <2>4, LlevarASwapHace
  <2>6. Orden(b, f, N) /\ Libres(b) = {f} /\ SoloSalen(a, b) /\ Quedan(a, b, f, N)
    BY <1>0, <1>1, <2>1, <2>5, LlevarOrden DEF Pag
  <2>7. a.caida = "no"
    BY <1>0, <2>5 DEF TrasLlevar
  <2> QED BY <1>0, <1>1, <2>6, <2>7 DEF TrasAsignar
<1> QED BY <1>4, <1>5

LEMMA AsignarOrden ==
    ASSUME NEW a \in Memoria, NEW N, Orden(a, -1, N), AsignarUnFrame(a).caida = "no"
    PROVE  TrasAsignar(a, N, AsignarUnFrame(a))
<1> SUFFICES ASSUME NEW b, b = AsignarUnFrame(a), b.caida = "no"
             PROVE  TrasAsignar(a, N, b)
  OBVIOUS
<1>1. b \in Memoria /\ MismaForma(a, b)
  BY AsignarForma
<1>2. CASE Libres(a) # {}
  <2> DEFINE f == Menor(Libres(a))
  <2>1. f \in Libres(a) /\ f \in Marcos
    BY <1>2, LibreEs
  <2>2. TrasOcupar(a, f, b)
    BY <1>2, <2>1, AsignarCasos, OcuparHace
  <2> HIDE DEF f
  <2>3. b.tablas = a.tablas /\ b.swap = a.swap /\ b.elegido = f /\ Libres(b) = Libres(a) \ {f} /\ a.caida = "no"
    BY <2>2 DEF TrasOcupar
  <2>4. \A s \in Slots : \A k :
          /\ PaginasDe(b, s) = PaginasDe(a, s) /\ Pag(b, s, k) = Pag(a, s, k) /\ Hay(b, s, k) = Hay(a, s, k)
          /\ Dentro(b, s, k) = Dentro(a, s, k) /\ Fuera(b, s, k) = Fuera(a, s, k)
    BY <2>3 DEF PaginasDe, Pag, Hay, Dentro, Fuera
  <2>5. ASSUME NEW s \in Slots, NEW k \in DOMAIN PaginasDe(a, s)
        PROVE  ~ Fuera(a, s, k) /\ (Dentro(a, s, k) => Pag(a, s, k).marco # f)
    BY <2>1, Numeros DEF Orden, Ubicadas, Llena
  <2>6. Ubicadas(b, f)
    <3> SUFFICES ASSUME NEW s \in Slots, NEW k \in DOMAIN PaginasDe(a, s)
                 PROVE  /\ Dentro(a, s, k) =>
                             /\ Pag(a, s, k).marco \in Marcos /\ Pag(a, s, k).indice = -1
                             /\ Pag(a, s, k).marco \notin Libres(b)
                        /\ ~ Fuera(a, s, k)
      BY <2>4 DEF Ubicadas
    <3> QED BY <2>3, <2>5, Numeros DEF Orden, Ubicadas
  <2>7. SwapExacto(b)
    BY <2>3, <2>4 DEF Orden, SwapExacto
  <2>8. Llena(b, f)
    BY <2>4, <2>5 DEF Llena
  <2>9. ConPag(b, f)
    BY <2>3, <2>4, Numeros DEF Orden, ConPag
  <2>10. EnListas(b, N)
    BY <2>3, <2>4 DEF Orden, EnListas
  <2>11. SoloSalen(a, b) /\ Quedan(a, b, f, N)
    BY <2>4, <2>5 DEF SoloSalen, Quedan
  <2> QED BY <1>1, <1>2, <2>3, <2>6, <2>7, <2>8, <2>9, <2>10, <2>11 DEF TrasAsignar, Orden
<1>3. CASE Libres(a) = {}
  <2> DEFINE e == Elegida(a)
  <2>1. TrasElegir(a, e)
    BY ElegidaHace
  <2>2. b = Desalojar(e, e.elegido)
    BY <1>3, AsignarCasos
  <2> HIDE DEF e
  <2>3. /\ e \in Memoria /\ e.elegido \in Marcos /\ Libres(e) = {}
        /\ e.tablas = a.tablas /\ e.caida = a.caida /\ e.swap = a.swap
    BY <1>3, <2>1 DEF TrasElegir
  <2>4. Iguales(a, e)
    BY <1>3, <2>3 DEF Iguales, PaginasDe
  <2>5. Orden(e, -1, N) /\ CompartidosEn(e) = CompartidosEn(a)
    BY <2>4, OrdenIgual
  <2>6. TrasAsignar(e, N, b)
    BY <2>2, <2>3, <2>5, DesalojarOrden
  <2>7. SoloSalen(a, b)
    BY <2>3, <2>6 DEF TrasAsignar, SoloSalen, Fuera, Hay, Pag, PaginasDe
  <2>8. Quedan(a, b, b.elegido, N)
    BY <2>3, <2>5, <2>6 DEF TrasAsignar, Quedan
  <2> QED BY <1>1, <1>3, <2>3, <2>6, <2>7, <2>8 DEF TrasAsignar
<1> QED BY <1>2, <1>3

----------------------------------------------------------------------------
(* The pieces of the handlers.                                             *)

\* A table written anew.
TrasTabla(a, s, t, b) ==
    /\ b \in Memoria /\ b.tablas = [a.tablas EXCEPT ![s] = t] /\ Libres(b) = Libres(a)
    /\ b.clientes = a.clientes /\ b.swap = a.swap /\ b.elegido = a.elegido /\ b.caida = a.caida
    /\ b.disco = a.disco

LEMMA TablaHace ==
    ASSUME NEW a \in Memoria, NEW s \in Slots, NEW t \in Segmento
    PROVE  TrasTabla(a, s, t, [a EXCEPT !.tablas[s] = t])
<1> DEFINE b == [a EXCEPT !.tablas[s] = t]
<1>1. b \in Memoria
  BY TablaTipo
<1>2. /\ b.tablas = [a.tablas EXCEPT ![s] = t] /\ b.marcos = a.marcos
      /\ b.clientes = a.clientes /\ b.swap = a.swap /\ b.elegido = a.elegido /\ b.caida = a.caida
      /\ b.disco = a.disco
  BY DEF Memoria
<1> HIDE DEF b
<1>3. TrasTabla(a, s, t, b)
  BY <1>1, <1>2 DEF TrasTabla, Libres
<1> QED BY <1>3 DEF b

\* What does not touch the tables, the swap nor which frames are free.
Aparte(a, b) ==
    /\ b \in Memoria /\ b.tablas = a.tablas /\ b.swap = a.swap /\ Libres(b) = Libres(a)
    /\ b.clientes = a.clientes /\ b.elegido = a.elegido /\ b.disco = a.disco
    /\ b.caida = "no" => a.caida = "no"

LEMMA AparteIgual ==
    ASSUME NEW a, NEW b, Aparte(a, b)
    PROVE  Iguales(a, b) /\ \A s \in Slots : PaginasDe(b, s) = PaginasDe(a, s)
BY DEF Aparte, Iguales, PaginasDe

LEMMA EscribirAparte ==
    ASSUME NEW a \in Memoria, NEW pos \in Int, NEW bytes \in Seq(Byte)
    PROVE  Aparte(a, Escribir(a, pos, bytes))
<1> DEFINE b == Escribir(a, pos, bytes)
           x == [d \in Direcciones |->
                  IF d >= pos /\ d < pos + Len(bytes) THEN bytes[d - pos + 1] ELSE a.mem[d]]
<1>1. b \in Memoria
  BY EscribirTipo
<1>2. b = Caer(a, "fuera") \/ b = [a EXCEPT !.mem = x]
  BY DEF Escribir
<1> HIDE DEF x
<1>3. /\ b.tablas = a.tablas /\ b.marcos = a.marcos /\ b.swap = a.swap /\ b.clientes = a.clientes
      /\ b.elegido = a.elegido /\ b.disco = a.disco /\ (b.caida = "no" => a.caida = "no")
  <2> HIDE DEF b
  <2>1. CASE b = Caer(a, "fuera")
    BY <2>1 DEF Caer, Memoria
  <2>2. CASE b = [a EXCEPT !.mem = x]
    BY <2>2 DEF Memoria
  <2> QED BY <1>2, <2>1, <2>2
<1> HIDE DEF b
<1>4. Aparte(a, b)
  BY <1>1, <1>3 DEF Aparte, Libres
<1> QED BY <1>4 DEF b

LEMMA CaerAparte ==
    ASSUME NEW a \in Memoria, NEW por \in Caidas
    PROVE  Aparte(a, Caer(a, por))
<1>1. Caer(a, por) \in Memoria
  BY CaerTipo
<1>2. /\ Caer(a, por).disco = a.disco
      /\ Caer(a, por).caida = "no" => a.caida = "no"
  BY DEF Caer, Memoria
<1> QED BY <1>1, <1>2, CaerForma DEF Aparte, Libres

LEMMA AparteSigue ==
    ASSUME NEW a, NEW b, NEW c, Aparte(a, b), Aparte(b, c)
    PROVE  Aparte(a, c)
BY DEF Aparte

\* The bits of use and of modification of a frame.
LEMMA UnBitAparte ==
    ASSUME NEW a \in Memoria, NEW f
    PROVE  /\ Aparte(a, [a EXCEPT !.marcos[f].uso = 1])
           /\ Aparte(a, [a EXCEPT !.marcos[f].mod = 1])
           /\ Aparte(a, [a EXCEPT !.marcos[f].mod = 0])
<1> DEFINE x == [a.marcos EXCEPT ![f].uso = 1]
           y == [a.marcos EXCEPT ![f].mod = 1]
           z == [a.marcos EXCEPT ![f].mod = 0]
<1>1. x \in [Marcos -> Marco] /\ y \in [Marcos -> Marco] /\ z \in [Marcos -> Marco]
  BY CampoEs, UnBitSano
<1>2. a.marcos \in [Marcos -> Marco]
  BY CampoEs
<1>3. \A g \in Marcos :
        /\ x[g].libre = a.marcos[g].libre /\ y[g].libre = a.marcos[g].libre
        /\ z[g].libre = a.marcos[g].libre
  BY <1>2 DEF Marco
<1> HIDE DEF x, y, z
<1>4. ASSUME NEW v \in {x, y, z}
      PROVE  Aparte(a, [a EXCEPT !.marcos = v])
  <2> DEFINE b == [a EXCEPT !.marcos = v]
  <2>1. b \in Memoria
    BY <1>1, CampoTipo
  <2>2. /\ b.tablas = a.tablas /\ b.swap = a.swap /\ b.clientes = a.clientes
        /\ b.elegido = a.elegido /\ b.disco = a.disco /\ b.caida = a.caida /\ b.marcos = v
    BY DEF Memoria
  <2> HIDE DEF b
  <2>3. Libres(b) = Libres(a)
    BY <1>3, <2>2 DEF Libres
  <2>4. Aparte(a, b)
    BY <2>1, <2>2, <2>3 DEF Aparte
  <2> QED BY <2>4 DEF b
<1> QED BY <1>4 DEF x, y, z

LEMMA BitsAparte ==
    ASSUME NEW a \in Memoria, NEW f
    PROVE  /\ Aparte(a, [a EXCEPT !.marcos[f].uso = 1, !.marcos[f].mod = 1])
           /\ Aparte(a, [a EXCEPT !.marcos[f].mod = 0, !.marcos[f].uso = 1])
<1> DEFINE x == [a EXCEPT !.marcos[f].uso = 1]
           y == [a EXCEPT !.marcos[f].mod = 0]
<1>1. Aparte(a, x) /\ Aparte(a, y)
  BY UnBitAparte
<1>2. /\ [a EXCEPT !.marcos[f].uso = 1, !.marcos[f].mod = 1] = [x EXCEPT !.marcos[f].mod = 1]
      /\ [a EXCEPT !.marcos[f].mod = 0, !.marcos[f].uso = 1] = [y EXCEPT !.marcos[f].uso = 1]
  OBVIOUS
<1> HIDE DEF x, y
<1>3. x \in Memoria /\ y \in Memoria
  BY <1>1 DEF Aparte
<1>4. Aparte(x, [x EXCEPT !.marcos[f].mod = 1]) /\ Aparte(y, [y EXCEPT !.marcos[f].uso = 1])
  BY <1>3, UnBitAparte
<1> QED BY <1>1, <1>2, <1>4, AparteSigue

\* obtenerPosicionMemoriaPagina: a page out of memory finds no free frame.
LEMMA ObtenerPosicionTipo ==
    ASSUME NEW a \in Memoria, NEW s \in Slots, NEW k \in Int
    PROVE  /\ ObtenerPosicion(a, s, k) \in Memoria
           /\ ObtenerPosicion(a, s, k).caida = "no" => a.caida = "no" /\ HayPagina(a, s, k)
           /\ MismaForma(a, ObtenerPosicion(a, s, k))
<1> SUFFICES ASSUME NEW b, b = ObtenerPosicion(a, s, k)
             PROVE  /\ b \in Memoria /\ MismaForma(a, b)
                    /\ b.caida = "no" => a.caida = "no" /\ HayPagina(a, s, k)
  OBVIOUS
<1> DEFINE f == Menor(Libres(a))
           pag == [presencia |-> TRUE, marco |-> f, indice |-> -1]
           p == ConPagina(a, s, k, pag)
           q == [p EXCEPT !.swap = @ \ {LaPagina(a, s, k).indice}]
           e == Escribir(q, f * PAG, Tira("basura", 0, PAG))
<1>1. \A por \in Caidas : Aparte(a, Caer(a, por))
  BY CaerAparte
<1>2. b = IF ~ HayPagina(a, s, k) THEN Caer(a, "nulo")
          ELSE IF LaPagina(a, s, k).presencia THEN a
          ELSE IF Libres(a) = {} THEN Caer(a, "fuera") ELSE e
  BY DEF ObtenerPosicion
<1>3. Caer(a, "nulo").caida # "no"
  BY CaerForma
<1>4. "nulo" \in Caidas /\ "fuera" \in Caidas
  BY DEF Caidas
<1>5. \A x : Aparte(a, x) => MismaForma(a, x) /\ x \in Memoria /\ (x.caida = "no" => a.caida = "no")
  BY DEF Aparte, MismaForma, PaginasDe
<1>6. MismaForma(a, a)
  BY DEF MismaForma
<1>7. CASE Libres(a) # {}
  <2>1. f \in Marcos
    BY <1>7, LibreEs
  <2>2. pag \in Pagina
    BY <2>1 DEF Pagina
  <2>3. p \in Memoria /\ TrasConPagina(a, s, k, pag, p)
    BY <2>2, ConPaginaTipo, ConPaginaHace
  <2> HIDE DEF pag, p
  <2>4. MismaForma(a, p) /\ p.caida = a.caida
    BY <2>3 DEF TrasConPagina
  <2>5. q.tablas = p.tablas /\ q.clientes = p.clientes /\ q.caida = p.caida
    BY <2>3 DEF Memoria
  <2>6. q \in Memoria
    BY <2>3, CampoTipo, CampoEs
  <2> HIDE DEF q
  <2> HIDE DEF f
  <2>7. f * PAG \in Int
    BY <2>1, Numeros
  <2>a. Tira("basura", 0, PAG) \in Seq(Byte)
    BY TiraTipo, Numeros
  <2>8. Aparte(q, e)
    BY <2>6, <2>7, <2>a, EscribirAparte
  <2> HIDE DEF e
  <2>9. e \in Memoria /\ MismaForma(a, e) /\ (e.caida = "no" => a.caida = "no")
    BY <2>4, <2>5, <2>8 DEF Aparte, MismaForma, PaginasDe
  <2> QED BY <1>1, <1>2, <1>3, <1>4, <1>5, <1>6, <2>9
<1>8. CASE Libres(a) = {}
  <2> HIDE DEF e
  <2> QED BY <1>1, <1>2, <1>3, <1>4, <1>5, <1>6, <1>8
<1> QED BY <1>7, <1>8

LEMMA ObtenerPosicionNada ==
    ASSUME NEW a \in Memoria, NEW s \in Slots, NEW k \in Int, NEW N, Orden(a, -1, N),
           ObtenerPosicion(a, s, k).caida = "no"
    PROVE  /\ ObtenerPosicion(a, s, k) = a /\ a.caida = "no"
           /\ HayPagina(a, s, k) /\ LaPagina(a, s, k).presencia /\ LaPagina(a, s, k).marco \in Marcos
<1>1. Caer(a, "fuera").caida # "no"
  BY CaerForma
<1>2. HayPagina(a, s, k) /\ a.caida = "no"
  BY ObtenerPosicionTipo
<1>3. k + 1 \in DOMAIN PaginasDe(a, s) /\ LaPagina(a, s, k) = Pag(a, s, k + 1)
  BY <1>2 DEF HayPagina, LaPagina, Pag
<1>4. Libres(a) \subseteq Marcos
  BY DEF Libres
<1>5. LaPagina(a, s, k).presencia
  <2> SUFFICES ASSUME ~ LaPagina(a, s, k).presencia PROVE FALSE
    OBVIOUS
  <2>1. Fuera(a, s, k + 1)
    BY <1>3 DEF Fuera, Hay
  <2>2. Libres(a) = {}
    BY <1>3, <1>4, <2>1, Numeros DEF Orden, Llena
  <2> QED BY <1>1, <1>2, <2>2 DEF ObtenerPosicion
<1>6. Dentro(a, s, k + 1)
  BY <1>3, <1>5 DEF Dentro, Hay
<1>7. LaPagina(a, s, k).marco \in Marcos
  BY <1>3, <1>6 DEF Orden, Ubicadas
<1> QED BY <1>2, <1>5, <1>7 DEF ObtenerPosicion

\* A page more at the end of a segment, in the frame that g got.
TrasAgregar(g, s, b) ==
    /\ b \in Memoria /\ b.swap = g.swap /\ b.clientes = g.clientes /\ b.caida = g.caida
    /\ b.elegido = g.elegido /\ Libres(b) = Libres(g) \ {g.elegido}
    /\ \A r \in Slots :
        /\ b.tablas[r].heaps = g.tablas[r].heaps /\ b.tablas[r].tiene = g.tablas[r].tiene
        /\ b.tablas[r].enLista = g.tablas[r].enLista
        /\ Len(PaginasDe(b, r)) = IF r = s THEN Len(PaginasDe(g, r)) + 1 ELSE Len(PaginasDe(g, r))
        /\ \A j \in DOMAIN PaginasDe(g, r) : PaginasDe(b, r)[j] = PaginasDe(g, r)[j]
    /\ LET u == PaginasDe(b, s)[Len(PaginasDe(g, s)) + 1]
       IN  u.presencia /\ u.marco = g.elegido /\ u.indice = -1

LEMMA AgregarPaginaHace ==
    ASSUME NEW a \in Memoria, NEW s \in Slots
    PROVE  TrasAgregar(AsignarUnFrame(a), s, AgregarPagina(a, s))
<1> DEFINE g == AsignarUnFrame(a)
           f == g.elegido
           x == Ocupar(g, f)
           pag == [presencia |-> TRUE, marco |-> f, indice |-> -1]
           ps == Append(PaginasDe(x, s), pag)
           t1 == [x.tablas[s] EXCEPT !.paginas = ps]
           t == [t1 EXCEPT !.tam = @ + PAG]
           b == [x EXCEPT !.tablas[s] = t]
<1>1. g \in Memoria
  BY AsignarTipo
<1>2. AgregarPagina(a, s) = b
  BY ZenonT(60) DEF AgregarPagina, PaginasDe
<1> HIDE DEF g
<1>3. f \in Marcos
  BY <1>1, CampoEs
<1> HIDE DEF f
<1>4. x \in Memoria /\ TrasOcupar(g, f, x)
  BY <1>1, <1>3, OcuparTipo, OcuparHace
<1>5. pag \in Pagina /\ pag.presencia /\ pag.marco = f /\ pag.indice = -1
  BY <1>3 DEF Pagina
<1> HIDE DEF x, pag
<1>6. /\ PaginasDe(x, s) \in Seq(Pagina) /\ x.tablas[s] \in Segmento /\ x.tablas[s].tam \in Nat
      /\ x.tablas \in [Slots -> Segmento]
  BY <1>4, SegmentoEs, CampoEs
<1>7. ps \in Seq(Pagina)
  BY <1>5, <1>6, AppendProperties
<1>8. /\ Len(ps) = Len(PaginasDe(x, s)) + 1 /\ ps[Len(PaginasDe(x, s)) + 1] = pag
      /\ \A j \in DOMAIN PaginasDe(x, s) : ps[j] = PaginasDe(x, s)[j]
  BY <1>5, <1>6, AppendProperties, LenProperties
<1> HIDE DEF ps
<1>9. t1 \in Segmento /\ t1.tam \in Nat
  BY <1>6, <1>7, SegmentoTipo DEF Segmento
<1>10. /\ t1.paginas = ps /\ t1.heaps = x.tablas[s].heaps /\ t1.tiene = x.tablas[s].tiene
       /\ t1.enLista = x.tablas[s].enLista
  BY <1>6 DEF Segmento
<1> HIDE DEF t1
<1>a. t1.tam + PAG \in Nat
  BY <1>9, Numeros
<1>11. t \in Segmento
  BY <1>9, <1>a, SegmentoTipo
<1>12. /\ t.paginas = ps /\ t.heaps = x.tablas[s].heaps /\ t.tiene = x.tablas[s].tiene
       /\ t.enLista = x.tablas[s].enLista
  BY <1>9, <1>10 DEF Segmento
<1> HIDE DEF t
<1>13. TrasTabla(x, s, t, b)
  BY <1>4, <1>11, TablaHace
<1> HIDE DEF b
<1>14. /\ b \in Memoria /\ b.swap = g.swap /\ b.clientes = g.clientes /\ b.caida = g.caida
       /\ b.elegido = f /\ Libres(b) = Libres(g) \ {f} /\ x.tablas = g.tablas
       /\ b.tablas = [x.tablas EXCEPT ![s] = t]
  BY <1>4, <1>13 DEF TrasTabla, TrasOcupar
<1>15. \A r \in Slots : b.tablas[r] = IF r = s THEN t ELSE g.tablas[r]
  BY <1>6, <1>14
<1>16. PaginasDe(g, s) = PaginasDe(x, s)
  BY <1>14 DEF PaginasDe
<1>17. \A r \in Slots :
        /\ b.tablas[r].heaps = g.tablas[r].heaps /\ b.tablas[r].tiene = g.tablas[r].tiene
        /\ b.tablas[r].enLista = g.tablas[r].enLista
        /\ PaginasDe(b, r) = IF r = s THEN ps ELSE PaginasDe(g, r)
  BY <1>12, <1>14, <1>15 DEF PaginasDe
<1>18. TrasAgregar(g, s, b)
  BY <1>5, <1>8, <1>14, <1>16, <1>17 DEF TrasAgregar, f
<1> QED BY <1>2, <1>18 DEF g, b

\* What is known of any page added, whether or not the server fell.
LEMMA AgregarPaginaTipo ==
    ASSUME NEW a \in Memoria, NEW s \in Slots, NEW b, b = AgregarPagina(a, s)
    PROVE  /\ b \in Memoria /\ (b.caida = "no" => a.caida = "no") /\ b.elegido \in Marcos
           /\ Len(PaginasDe(b, s)) = Len(PaginasDe(a, s)) + 1
           /\ PaginasDe(b, s)[Len(PaginasDe(b, s))].marco = b.elegido
           /\ \A r \in Slots :
                /\ b.tablas[r].heaps = a.tablas[r].heaps /\ b.tablas[r].tiene = a.tablas[r].tiene
                /\ b.tablas[r].enLista = a.tablas[r].enLista
<1> DEFINE g == AsignarUnFrame(a)
<1>1. g \in Memoria /\ MismaForma(a, g) /\ (g.caida = "no" => a.caida = "no")
  BY AsignarForma
<1>2. TrasAgregar(g, s, b)
  BY AgregarPaginaHace
<1> HIDE DEF g
<1>3. Len(PaginasDe(g, s)) = Len(PaginasDe(a, s))
  BY <1>1, VacioForma
<1>4. b \in Memoria /\ b.elegido \in Marcos
  BY <1>2, CampoEs DEF TrasAgregar
<1> QED BY <1>1, <1>2, <1>3, <1>4 DEF TrasAgregar, MismaForma

\* From a to b only the segment s grew, and no page of another came in: two pages
\* have got one frame only if s is not in the list of its program, no frame is
\* free, and both are of s.
Avanza(a, b, s) ==
    /\ b.tablas[s].enLista = a.tablas[s].enLista /\ Libres(b) \subseteq Libres(a)
    /\ \A r \in Slots \ {s} : \A k \in DOMAIN PaginasDe(b, r) :
          Dentro(b, r, k) => Dentro(a, r, k) /\ Pag(a, r, k).marco = Pag(b, r, k).marco
    /\ \A f \in CompartidosEn(b) \ CompartidosEn(a) :
        /\ ~ b.tablas[s].enLista /\ Libres(b) = {}
        /\ \A r \in Slots : \A k \in DOMAIN PaginasDe(b, r) :
              Dentro(b, r, k) /\ Pag(b, r, k).marco = f => r = s

LEMMA AvanzaIgual ==
    ASSUME NEW a, NEW b, NEW s \in Slots, Iguales(a, b)
    PROVE  Avanza(a, b, s)
<1>1. CompartidosEn(b) = CompartidosEn(a)
  BY OrdenIgual
<1>2. \A r \in Slots : \A k : Dentro(b, r, k) => Dentro(a, r, k) /\ Pag(b, r, k) = Pag(a, r, k)
  BY DEF Iguales, Dentro, Hay, Pag
<1> QED BY <1>1, <1>2 DEF Avanza, Iguales

LEMMA AvanzaSigue ==
    ASSUME NEW a, NEW b, NEW c, NEW s \in Slots, Avanza(a, b, s), Avanza(b, c, s)
    PROVE  Avanza(a, c, s)
<1>1. \A r \in Slots \ {s} : \A k \in DOMAIN PaginasDe(c, r) :
        Dentro(c, r, k) => /\ Dentro(b, r, k) /\ k \in DOMAIN PaginasDe(b, r)
                           /\ Pag(b, r, k).marco = Pag(c, r, k).marco
  BY DEF Avanza, Dentro, Hay
<1>2. \A r \in Slots \ {s} : \A k \in DOMAIN PaginasDe(b, r) :
        Dentro(b, r, k) => Dentro(a, r, k) /\ Pag(a, r, k).marco = Pag(b, r, k).marco
  BY DEF Avanza
<1>3. /\ c.tablas[s].enLista = b.tablas[s].enLista /\ b.tablas[s].enLista = a.tablas[s].enLista
      /\ Libres(c) \subseteq Libres(b) /\ Libres(b) \subseteq Libres(a)
  BY DEF Avanza
<1>4. ASSUME NEW f \in CompartidosEn(c), f \notin CompartidosEn(a)
      PROVE  /\ ~ c.tablas[s].enLista /\ Libres(c) = {}
             /\ \A r \in Slots : \A k \in DOMAIN PaginasDe(c, r) :
                   Dentro(c, r, k) /\ Pag(c, r, k).marco = f => r = s
  <2>1. CASE f \notin CompartidosEn(b)
    BY <1>4, <2>1 DEF Avanza
  <2>2. CASE f \in CompartidosEn(b)
    <3>1. /\ ~ b.tablas[s].enLista /\ Libres(b) = {}
          /\ \A r \in Slots : \A k \in DOMAIN PaginasDe(b, r) :
                Dentro(b, r, k) /\ Pag(b, r, k).marco = f => r = s
      BY <1>4, <2>2 DEF Avanza
    <3> QED BY <1>1, <1>3, <3>1
  <2> QED BY <2>1, <2>2
<1> QED BY <1>1, <1>2, <1>3, <1>4 DEF Avanza

\* A page added keeps frames, pages and swap in step.
LEMMA AgregarPaginaOrden ==
    ASSUME NEW a \in Memoria, NEW s \in Slots, NEW b, b = AgregarPagina(a, s),
           Orden(a, -1, {s}), a.tablas[s].tiene, b.caida = "no"
    PROVE  Orden(b, -1, {s}) /\ Avanza(a, b, s)
<1> DEFINE g == AsignarUnFrame(a)
           f == g.elegido
           n == Len(PaginasDe(g, s)) + 1
<1>1. TrasAgregar(g, s, b)
  BY AgregarPaginaHace
<1>2. g.caida = "no"
  BY <1>1 DEF TrasAgregar
<1>3. TrasAsignar(a, {s}, g)
  BY <1>2, AsignarOrden
<1> HIDE DEF g
<1>4. /\ g \in Memoria /\ MismaForma(a, g) /\ Orden(g, f, {s}) /\ SoloSalen(a, g)
      /\ Quedan(a, g, f, {s}) /\ Libres(g) \subseteq Libres(a) \cup {f} /\ f \in Marcos
      /\ Libres(g) \ {f} \subseteq Libres(a)
  BY <1>3, CampoEs DEF TrasAsignar
<1>5. \A r \in Slots :
        /\ PaginasDe(g, r) \in Seq(Pagina) /\ Len(PaginasDe(g, r)) \in Nat
        /\ DOMAIN PaginasDe(g, r) = 1..Len(PaginasDe(g, r))
        /\ PaginasDe(b, r) \in Seq(Pagina) /\ DOMAIN PaginasDe(b, r) = 1..Len(PaginasDe(b, r))
  BY <1>1, <1>4, SegmentoEs, LenProperties DEF TrasAgregar
<1>6. /\ b.swap = g.swap /\ Libres(b) = Libres(g) \ {f}
      /\ \A r \in Slots :
          /\ b.tablas[r].heaps = g.tablas[r].heaps /\ b.tablas[r].tiene = g.tablas[r].tiene
          /\ b.tablas[r].enLista = g.tablas[r].enLista
          /\ Len(PaginasDe(b, r)) = IF r = s THEN n ELSE Len(PaginasDe(g, r))
          /\ \A j \in DOMAIN PaginasDe(g, r) : Pag(b, r, j) = Pag(g, r, j)
      /\ Pag(b, s, n).presencia /\ Pag(b, s, n).marco = f /\ Pag(b, s, n).indice = -1
  BY <1>1 DEF TrasAgregar, Pag
<1>7. \A r \in Slots : \A j : Hay(b, r, j) <=> Hay(g, r, j) \/ (r = s /\ j = n)
  <2>1. DOMAIN PaginasDe(b, s) = DOMAIN PaginasDe(g, s) \cup {n}
    <3> DEFINE l == Len(PaginasDe(g, s))
    <3>1. l \in Nat /\ DOMAIN PaginasDe(g, s) = 1..l /\ DOMAIN PaginasDe(b, s) = 1..(l + 1) /\ n = l + 1
      BY <1>5, <1>6
    <3> HIDE DEF l, n
    <3>2. 1..(l + 1) = (1..l) \cup {l + 1}
      BY <3>1
    <3> QED BY <3>1, <3>2
  <2>2. \A r \in Slots \ {s} : DOMAIN PaginasDe(b, r) = DOMAIN PaginasDe(g, r)
    BY <1>5, <1>6
  <2> QED BY <2>1, <2>2 DEF Hay
<1>8. ~ Hay(g, s, n)
  BY <1>5 DEF Hay
<1> HIDE DEF n
<1>9. /\ \A r \in Slots : \A j : Hay(g, r, j) =>
          /\ Pag(b, r, j) = Pag(g, r, j)
          /\ Dentro(b, r, j) <=> Dentro(g, r, j)
          /\ Fuera(b, r, j) <=> Fuera(g, r, j)
      /\ Dentro(b, s, n) /\ ~ Fuera(b, s, n)
      /\ \A r \in Slots : \A j : Dentro(b, r, j) /\ (r # s \/ j # n) => Hay(g, r, j) /\ Dentro(g, r, j)
      /\ \A r \in Slots : \A j : Fuera(b, r, j) => Hay(g, r, j) /\ Fuera(g, r, j)
      /\ \A r \in Slots : \A j : Fuera(g, r, j) => Fuera(b, r, j)
      /\ \A r \in Slots : \A j : Dentro(g, r, j) => Dentro(b, r, j)
  BY <1>6, <1>7, <1>8 DEF Dentro, Fuera, Hay
<1>10. Ubicadas(b, -1)
  <2>1. ASSUME NEW r \in Slots, NEW j, Dentro(b, r, j)
        PROVE  Pag(b, r, j).marco \in Marcos /\ Pag(b, r, j).indice = -1 /\ Pag(b, r, j).marco \notin Libres(b)
    <3>1. CASE r = s /\ j = n
      BY <3>1, <1>4, <1>6
    <3>2. CASE r # s \/ j # n
      <4>1. Hay(g, r, j) /\ Dentro(g, r, j) /\ Pag(b, r, j) = Pag(g, r, j)
        BY <2>1, <3>2, <1>9
      <4> QED BY <4>1, <1>4, <1>6 DEF Orden, Ubicadas, Hay
    <3> QED BY <3>1, <3>2
  <2>2. ASSUME NEW r \in Slots, NEW j, Fuera(b, r, j)
        PROVE  Pag(b, r, j).marco = -1 /\ Pag(b, r, j).indice \in b.swap
    <3>1. Hay(g, r, j) /\ Fuera(g, r, j) /\ Pag(b, r, j) = Pag(g, r, j)
      BY <2>2, <1>9
    <3> QED BY <3>1, <1>4, <1>6 DEF Orden, Ubicadas, Hay
  <2> QED BY <2>1, <2>2 DEF Ubicadas
<1>11. SwapExacto(b)
  <2>1. ASSUME NEW i \in b.swap
        PROVE  \E r \in Slots : \E j \in DOMAIN PaginasDe(b, r) : Fuera(b, r, j) /\ Pag(b, r, j).indice = i
    <3>1. PICK r \in Slots : \E j \in DOMAIN PaginasDe(g, r) : Fuera(g, r, j) /\ Pag(g, r, j).indice = i
      BY <1>4, <1>6 DEF Orden, SwapExacto
    <3> PICK j \in DOMAIN PaginasDe(g, r) : Fuera(g, r, j) /\ Pag(g, r, j).indice = i
      BY <3>1
    <3>2. Fuera(b, r, j) /\ Pag(b, r, j).indice = i
      BY <1>9 DEF Hay
    <3> QED BY <3>2 DEF Fuera, Hay
  <2>2. ASSUME NEW r \in Slots, NEW q \in Slots, NEW j \in DOMAIN PaginasDe(b, r), NEW i \in DOMAIN PaginasDe(b, q),
               Fuera(b, r, j), Fuera(b, q, i), Pag(b, r, j).indice = Pag(b, q, i).indice
        PROVE  r = q /\ j = i
    <3>1. /\ Fuera(g, r, j) /\ Fuera(g, q, i) /\ Pag(g, r, j).indice = Pag(g, q, i).indice
          /\ j \in DOMAIN PaginasDe(g, r) /\ i \in DOMAIN PaginasDe(g, q)
      BY <2>2, <1>9 DEF Hay
    <3> QED BY <3>1, <1>4 DEF Orden, SwapExacto
  <2> QED BY <2>1, <2>2 DEF SwapExacto
<1>12. Llena(b, -1)
  <2> SUFFICES ASSUME NEW r \in Slots, NEW j, Fuera(b, r, j) PROVE Libres(b) = {}
    BY DEF Llena
  <2>1. Fuera(g, r, j) /\ j \in DOMAIN PaginasDe(g, r)
    BY <1>9 DEF Hay
  <2> QED BY <2>1, <1>4, <1>6 DEF Orden, Llena
<1>13. ConPag(b, -1)
  <2> SUFFICES ASSUME NEW h \in Marcos, h \notin Libres(b)
               PROVE  \E r \in Slots : \E j \in DOMAIN PaginasDe(b, r) : Dentro(b, r, j) /\ Pag(b, r, j).marco = h
    BY DEF ConPag
  <2>1. CASE h = f
    BY <2>1, <1>6, <1>9 DEF Dentro, Hay
  <2>2. CASE h # f
    <3>1. PICK r \in Slots : \E j \in DOMAIN PaginasDe(g, r) : Dentro(g, r, j) /\ Pag(g, r, j).marco = h
      BY <2>2, <1>4, <1>6 DEF Orden, ConPag
    <3> PICK j \in DOMAIN PaginasDe(g, r) : Dentro(g, r, j) /\ Pag(g, r, j).marco = h
      BY <3>1
    <3>2. Dentro(b, r, j) /\ Pag(b, r, j).marco = h
      BY <1>9 DEF Hay
    <3> QED BY <3>2 DEF Dentro, Hay
  <2> QED BY <2>1, <2>2
<1>14. EnListas(b, {s})
  <2>1. PaginasDe(b, s) # <<>>
    BY <1>5, <1>9, EmptySeq DEF Dentro, Hay
  <2>2. \A r \in Slots \ {s} : PaginasDe(b, r) # <<>> => PaginasDe(g, r) # <<>>
    BY <1>5, <1>6, EmptySeq
  <2>3. \A r \in Slots \ {s} : PaginasDe(g, r) # <<>> => PaginasDe(b, r) # <<>>
    BY <1>5, <1>6, EmptySeq
  <2>4. g.tablas[s].tiene
    BY <1>4 DEF MismaForma
  <2> QED BY <1>4, <1>6, <2>1, <2>2, <2>3, <2>4 DEF Orden, EnListas
<1>15. ASSUME NEW r \in Slots, NEW j, Dentro(b, r, j), r # s \/ j # n
       PROVE  /\ Dentro(g, r, j) /\ j \in DOMAIN PaginasDe(g, r)
              /\ Dentro(a, r, j) /\ j \in DOMAIN PaginasDe(a, r)
              /\ Pag(a, r, j).marco = Pag(b, r, j).marco /\ Pag(g, r, j).marco = Pag(b, r, j).marco
  <2>1. Hay(g, r, j) /\ Dentro(g, r, j) /\ Pag(b, r, j) = Pag(g, r, j)
    BY <1>9, <1>15
  <2>2. Hay(a, r, j)
    BY <2>1, <1>4 DEF MismaForma, Hay
  <2>3. Pag(g, r, j) = Pag(a, r, j)
    BY <2>1, <2>2, <1>4 DEF SoloSalen, Hay
  <2> QED BY <2>1, <2>2, <2>3 DEF Dentro, Hay
<1>16. \A r \in Slots : \A j : Dentro(b, r, j) => j \in DOMAIN PaginasDe(b, r)
  BY DEF Dentro, Hay
<1>17. ASSUME NEW h \in CompartidosEn(b), h \notin CompartidosEn(a)
       PROVE  /\ ~ b.tablas[s].enLista /\ Libres(b) = {}
              /\ \A r \in Slots : \A j \in DOMAIN PaginasDe(b, r) :
                    Dentro(b, r, j) /\ Pag(b, r, j).marco = h => r = s
  <2>1. PICK r \in Slots, q \in Slots : \E j \in DOMAIN PaginasDe(b, r), i \in DOMAIN PaginasDe(b, q) :
            /\ <<r, j>> # <<q, i>> /\ Dentro(b, r, j) /\ Dentro(b, q, i)
            /\ Pag(b, r, j).marco = h /\ Pag(b, q, i).marco = h
    BY <1>17 DEF CompartidosEn
  <2>2. PICK j, i : /\ <<r, j>> # <<q, i>> /\ Dentro(b, r, j) /\ Dentro(b, q, i)
                    /\ Pag(b, r, j).marco = h /\ Pag(b, q, i).marco = h
    BY <2>1
  <2>3. h \in Marcos
    BY <1>17 DEF CompartidosEn
  <2>4. h = f
    <3> SUFFICES ASSUME h # f PROVE FALSE
      OBVIOUS
    <3>1. (r # s \/ j # n) /\ (q # s \/ i # n)
      BY <2>2, <1>6
    <3>2. /\ Dentro(a, r, j) /\ Dentro(a, q, i) /\ Pag(a, r, j).marco = h /\ Pag(a, q, i).marco = h
          /\ j \in DOMAIN PaginasDe(a, r) /\ i \in DOMAIN PaginasDe(a, q)
      BY <2>2, <3>1, <1>15
    <3>3. h \in CompartidosEn(a)
      BY <2>2, <2>3, <3>2 DEF CompartidosEn
    <3> QED BY <3>3, <1>17
  <2>5. \E x \in Slots : \E y \in DOMAIN PaginasDe(g, x) : Dentro(g, x, y) /\ Pag(g, x, y).marco = f
    <3>1. CASE r # s \/ j # n
      BY <2>2, <2>4, <3>1, <1>15
    <3>2. CASE q # s \/ i # n
      BY <2>2, <2>4, <3>2, <1>15
    <3> QED BY <2>2, <3>1, <3>2
  <2>6. Libres(g) = {} /\ ~ a.tablas[s].enLista
    BY <2>4, <2>5, <1>17, <1>4 DEF Quedan
  <2>7. ~ b.tablas[s].enLista /\ Libres(b) = {}
    BY <2>6, <1>4, <1>6 DEF MismaForma
  <2>8. \A x \in Slots : \A y \in DOMAIN PaginasDe(g, x) : Dentro(g, x, y) /\ Pag(g, x, y).marco = f => x = s
    BY <2>4, <1>17, <1>4 DEF Quedan
  <2>9. \A x \in Slots : \A y : Dentro(b, x, y) /\ Pag(b, x, y).marco = f => x = s
    BY <2>8, <1>15
  <2> QED BY <2>4, <2>7, <2>9
<1>18. Avanza(a, b, s)
  <2>1. b.tablas[s].enLista = a.tablas[s].enLista /\ Libres(b) \subseteq Libres(a)
    BY <1>4, <1>6 DEF MismaForma
  <2> QED BY <2>1, <1>15, <1>17 DEF Avanza
<1> QED BY <1>10, <1>11, <1>12, <1>13, <1>14, <1>18 DEF Orden

LEMMA IgualesSigue ==
    ASSUME NEW a, NEW b, NEW c, Iguales(a, b), Iguales(b, c)
    PROVE  Iguales(a, c)
BY DEF Iguales

\* A table written anew with the same pages.
LEMMA TablaIgual ==
    ASSUME NEW a \in Memoria, NEW s \in Slots, NEW t, NEW b, TrasTabla(a, s, t, b),
           t.paginas = a.tablas[s].paginas, t.tiene = a.tablas[s].tiene,
           t.enLista = a.tablas[s].enLista, t.heaps = <<>> => a.tablas[s].heaps = <<>>
    PROVE  Iguales(a, b)
<1>1. a.tablas \in [Slots -> Segmento]
  BY CampoEs
<1>2. \A r \in Slots : b.tablas[r] = IF r = s THEN t ELSE a.tablas[r]
  BY <1>1 DEF TrasTabla
<1> QED BY <1>2 DEF TrasTabla, Iguales, PaginasDe

\* What ubicarMetadataYHeapLista leaves.
TrasUbicar(a, s, b) ==
    /\ b \in Memoria /\ PaginasDe(b, s) # <<>>
    /\ \A r \in Slots : b.tablas[r].tiene = a.tablas[r].tiene /\ b.tablas[r].enLista = a.tablas[r].enLista
    /\ b.caida = "no" =>
        /\ a.caida = "no" /\ Len(b.tablas[s].heaps) = Len(a.tablas[s].heaps) + 1
        /\ Orden(a, -1, {s}) /\ a.tablas[s].tiene => Orden(b, -1, {s}) /\ Avanza(a, b, s)

LEMMA UbicarHace ==
    ASSUME NEW a \in Memoria, NEW s \in Slots, NEW dir \in Nat, NEW libre \in BOOLEAN, NEW size \in Nat,
           PaginasDe(a, s) # <<>>
    PROVE  TrasUbicar(a, s, Ubicar(a, s, dir, libre, size))
<1> DEFINE k == UltimaPagina(a, s)
           f == LaPagina(a, s, k).marco
           d == dir % PAG
           n == IF PAG - d < HM THEN PAG - d ELSE HM
           h == [dir |-> dir, libre |-> libre, size |-> size, bytes |-> n]
           x == [a EXCEPT !.marcos[f].uso = 1, !.marcos[f].mod = 1]
           t == [x.tablas[s] EXCEPT !.heaps = Append(@, h)]
           y == [x EXCEPT !.tablas[s] = t]
           e == Escribir(y, f * PAG + d, Tira("cab", 0, n))
           o == AgregarPagina(e, s)
           w == Escribir(o, o.elegido * PAG, Tira("cab", n, HM - n))
           z == ObtenerPosicion(w, s, k)
           b == Ubicar(a, s, dir, libre, size)
<1>1. b = IF f = -1 THEN Caer(a, "nulo") ELSE IF n = HM THEN e ELSE z
  BY DEF Ubicar
<1>2. /\ PaginasDe(a, s) \in Seq(Pagina) /\ Len(PaginasDe(a, s)) \in Nat \ {0}
      /\ Len(PaginasDe(a, s)) \in DOMAIN PaginasDe(a, s)
  BY SegmentoEs, EmptySeq, LenProperties
<1>3. k \in Int /\ k + 1 = Len(PaginasDe(a, s))
  BY <1>2 DEF UltimaPagina
<1>4. f \in Marcos \cup {-1}
  BY <1>2, <1>3, PaginaEs DEF LaPagina
<1>5. d \in 0..(PAG - 1) /\ n \in 1..5 /\ HM - n \in Nat
  BY Numeros
<1>6. h \in Heap
  BY SMTT(60), <1>5 DEF Heap
<1>7. x \in Memoria /\ Aparte(a, x)
  BY ZenonT(60), BitsAparte DEF Aparte
<1> HIDE DEF b, f, h, d, n, x
<1>8. x.tablas[s] \in Segmento /\ x.tablas[s].heaps \in Seq(Heap)
  BY <1>7, SegmentoEs
<1>9. /\ Append(x.tablas[s].heaps, h) \in Seq(Heap) /\ Append(x.tablas[s].heaps, h) # <<>>
      /\ Len(Append(x.tablas[s].heaps, h)) = Len(x.tablas[s].heaps) + 1
  BY <1>6, <1>8, AppendProperties
<1>10. /\ t \in Segmento /\ t.paginas = x.tablas[s].paginas /\ t.tiene = x.tablas[s].tiene
       /\ t.enLista = x.tablas[s].enLista /\ t.heaps # <<>> /\ Len(t.heaps) = Len(x.tablas[s].heaps) + 1
  BY <1>8, <1>9 DEF Segmento
<1> HIDE DEF t
<1>11. TrasTabla(x, s, t, y)
  BY <1>7, <1>10, TablaHace
<1> HIDE DEF y
<1>12. Iguales(x, y)
  BY <1>7, <1>10, <1>11, TablaIgual
<1>13. y \in Memoria /\ y.caida = x.caida /\ y.tablas = [x.tablas EXCEPT ![s] = t]
  BY <1>11 DEF TrasTabla
<1>14. Tira("cab", 0, n) \in Seq(Byte) /\ Tira("cab", n, HM - n) \in Seq(Byte)
  <2>1. n \in Nat /\ 0 \in Nat /\ HM - n \in Nat /\ "cab" \in Valores \cup {"cab", "basura", "cero"}
    BY <1>5
  <2> HIDE DEF n
  <2>2. Tira("cab", 0, n) \in Seq(Byte)
    BY <2>1, TiraTipo
  <2>3. Tira("cab", n, HM - n) \in Seq(Byte)
    BY <2>1, TiraTipo
  <2> QED BY <2>2, <2>3
<1>15. Aparte(a, Caer(a, "nulo")) /\ Caer(a, "nulo").caida # "no"
  BY CaerAparte, CaerForma DEF Caidas
<1>16. CASE f = -1
  <2>1. b = Caer(a, "nulo")
    BY <1>1, <1>16
  <2> HIDE DEF k
  <2>2. b \in Memoria /\ b.tablas = a.tablas /\ b.caida # "no"
    BY <1>15, <2>1 DEF Aparte
  <2> QED BY <2>2 DEF TrasUbicar, PaginasDe, b
<1>17. CASE f # -1
  <2>1. f \in Nat /\ d \in Nat /\ PAG \in Nat
    BY <1>4, <1>5, <1>17, Numeros
  <2>2. f * PAG + d \in Int
    BY <2>1
  <2>3. Aparte(y, e)
    BY <1>13, <1>14, <2>2, EscribirAparte
  <2> HIDE DEF e
  <2>4. /\ e \in Memoria /\ (e.caida = "no" => a.caida = "no")
        /\ \A r \in Slots : /\ e.tablas[r].tiene = a.tablas[r].tiene
                            /\ e.tablas[r].enLista = a.tablas[r].enLista
        /\ PaginasDe(e, s) # <<>> /\ Len(e.tablas[s].heaps) = Len(a.tablas[s].heaps) + 1
    <3>1. a.tablas \in [Slots -> Segmento]
      BY CampoEs
    <3>2. e.tablas = [a.tablas EXCEPT ![s] = t] /\ x.tablas = a.tablas
      BY <1>7, <1>13, <2>3 DEF Aparte
    <3>3. \A r \in Slots : e.tablas[r] = IF r = s THEN t ELSE a.tablas[r]
      BY <3>1, <3>2
    <3>4. PaginasDe(e, s) = PaginasDe(a, s)
      BY <1>10, <3>2, <3>3 DEF PaginasDe
    <3> QED BY <1>7, <1>10, <1>13, <2>3, <3>2, <3>3, <3>4 DEF Aparte
  <2>5. Iguales(a, e)
    BY <1>7, <1>12, <2>3, AparteIgual, IgualesSigue
  <2>6. Avanza(a, e, s) /\ (Orden(a, -1, {s}) => Orden(e, -1, {s}))
    BY <2>5, AvanzaIgual, OrdenIgual
  <2>7. CASE n = HM
    <3>1. b = e
      BY <1>1, <1>17, <2>7
    <3> QED BY <2>4, <2>6, <3>1 DEF TrasUbicar, b
  <2>8. CASE n # HM
    <3>1. /\ o \in Memoria /\ (o.caida = "no" => e.caida = "no") /\ o.elegido \in Marcos
          /\ Len(PaginasDe(o, s)) = Len(PaginasDe(e, s)) + 1
          /\ \A r \in Slots :
                /\ o.tablas[r].heaps = e.tablas[r].heaps /\ o.tablas[r].tiene = e.tablas[r].tiene
                /\ o.tablas[r].enLista = e.tablas[r].enLista
      BY <2>4, AgregarPaginaTipo
    <3>2. Orden(e, -1, {s}) /\ e.tablas[s].tiene /\ o.caida = "no" => Orden(o, -1, {s}) /\ Avanza(e, o, s)
      BY <2>4, AgregarPaginaOrden
    <3> HIDE DEF o
    <3>3. PaginasDe(o, s) # <<>>
      BY <2>4, <3>1, SegmentoEs, EmptySeq, LenProperties
    <3>4. o.elegido * PAG \in Int
      BY <3>1, Numeros
    <3>5. Aparte(o, w)
      BY <1>14, <3>1, <3>4, EscribirAparte
    <3> HIDE DEF w, k
    <3>6. w \in Memoria /\ w.tablas = o.tablas /\ Iguales(o, w) /\ (w.caida = "no" => o.caida = "no")
      BY <3>5, AparteIgual DEF Aparte
    <3>7. z \in Memoria /\ (z.caida = "no" => w.caida = "no") /\ MismaForma(w, z)
      BY <1>3, <3>6, ObtenerPosicionTipo
    <3>8. PaginasDe(z, s) # <<>>
      BY <3>3, <3>6, <3>7, VacioForma DEF PaginasDe
    <3>9. Orden(w, -1, {s}) /\ z.caida = "no" => z = w
      BY <1>3, <3>6, ObtenerPosicionNada
    <3>10. z = b
      BY <1>1, <1>17, <2>8
    <3> HIDE DEF z
    <3>11. Avanza(o, w, s) /\ (Orden(o, -1, {s}) => Orden(w, -1, {s}))
      BY <3>6, AvanzaIgual, OrdenIgual
    <3>12. Orden(a, -1, {s}) /\ a.tablas[s].tiene /\ z.caida = "no" => Orden(z, -1, {s}) /\ Avanza(a, z, s)
      <4> SUFFICES ASSUME Orden(a, -1, {s}), a.tablas[s].tiene, z.caida = "no"
                   PROVE  Orden(z, -1, {s}) /\ Avanza(a, z, s)
        OBVIOUS
      <4>1. Orden(o, -1, {s}) /\ Avanza(e, o, s)
        BY <2>4, <2>6, <3>2, <3>6, <3>7
      <4>2. Orden(w, -1, {s}) /\ z = w
        BY <3>9, <3>11, <4>1
      <4>3. Avanza(a, o, s)
        BY <2>6, <4>1, AvanzaSigue
      <4> QED BY <3>11, <4>2, <4>3, AvanzaSigue
    <3>13. \A r \in Slots : /\ z.tablas[r].tiene = a.tablas[r].tiene
                            /\ z.tablas[r].enLista = a.tablas[r].enLista
      BY <2>4, <3>1, <3>6, <3>7 DEF MismaForma
    <3>14. Len(z.tablas[s].heaps) = Len(a.tablas[s].heaps) + 1
      BY <2>4, <3>1, <3>6, <3>7 DEF MismaForma
    <3>15. z.caida = "no" => a.caida = "no"
      BY <2>4, <3>1, <3>6, <3>7
    <3>16. TrasUbicar(a, s, z)
      BY <3>7, <3>8, <3>12, <3>13, <3>14, <3>15 DEF TrasUbicar
    <3> QED BY <3>10, <3>16 DEF b
  <2> QED BY <2>7, <2>8
<1> QED BY <1>4, <1>16, <1>17

\* The size of a segment, which nothing else depends on.
LEMMA TamHace ==
    ASSUME NEW a \in Memoria, NEW s \in Slots, NEW v \in Nat, NEW b, b = [a EXCEPT !.tablas[s].tam = v]
    PROVE  /\ b \in Memoria /\ Iguales(a, b) /\ b.caida = a.caida
           /\ \A r \in Slots : b.tablas[r].heaps = a.tablas[r].heaps
<1> DEFINE t == [a.tablas[s] EXCEPT !.tam = v]
<1>1. /\ t \in Segmento /\ t.paginas = a.tablas[s].paginas /\ t.heaps = a.tablas[s].heaps
      /\ t.tiene = a.tablas[s].tiene /\ t.enLista = a.tablas[s].enLista
  BY SegmentoEs DEF Segmento
<1>2. b = [a EXCEPT !.tablas[s] = t]
  OBVIOUS
<1> HIDE DEF t
<1>3. TrasTabla(a, s, t, b)
  BY <1>1, <1>2, TablaHace
<1>4. Iguales(a, b)
  BY <1>1, <1>3, TablaIgual
<1>5. a.tablas \in [Slots -> Segmento]
  BY CampoEs
<1>6. \A r \in Slots : b.tablas[r] = IF r = s THEN t ELSE a.tablas[r]
  BY <1>3, <1>5 DEF TrasTabla
<1> QED BY <1>1, <1>3, <1>4, <1>6 DEF TrasTabla

LEMMA PrimeraPaginaHace ==
    ASSUME NEW a \in Memoria, NEW s \in Slots, NEW n \in Nat, NEW b, b = PrimeraPagina(a, s, n)
    PROVE  TrasUbicar(a, s, b)
<1> DEFINE p == AgregarPagina(a, s)
           q == [p EXCEPT !.tablas[s].tam = 0]
           u == Ubicar(q, s, 0, FALSE, n)
           v == u.tablas[s].tam + Len(PaginasDe(u, s)) * PAG
<1>1. b = [u EXCEPT !.tablas[s].tam = v]
  BY DEF PrimeraPagina
<1>2. /\ p \in Memoria /\ (p.caida = "no" => a.caida = "no")
      /\ Len(PaginasDe(p, s)) = Len(PaginasDe(a, s)) + 1
      /\ \A r \in Slots : /\ p.tablas[r].heaps = a.tablas[r].heaps /\ p.tablas[r].tiene = a.tablas[r].tiene
                          /\ p.tablas[r].enLista = a.tablas[r].enLista
  BY AgregarPaginaTipo
<1>3. Orden(a, -1, {s}) /\ a.tablas[s].tiene /\ p.caida = "no" => Orden(p, -1, {s}) /\ Avanza(a, p, s)
  BY AgregarPaginaOrden
<1> HIDE DEF p
<1>4. /\ q \in Memoria /\ Iguales(p, q) /\ q.caida = p.caida
      /\ \A r \in Slots : q.tablas[r].heaps = p.tablas[r].heaps
  BY SMTT(60), <1>2, TamHace
<1> HIDE DEF q
<1>5. Avanza(p, q, s) /\ (Orden(p, -1, {s}) => Orden(q, -1, {s}))
  BY <1>4, AvanzaIgual, OrdenIgual
<1>6. PaginasDe(q, s) = PaginasDe(p, s)
  BY <1>4 DEF Iguales
<1>7. PaginasDe(p, s) # <<>>
  BY <1>2, SegmentoEs, EmptySeq, LenProperties
<1>8. TrasUbicar(q, s, u)
  BY <1>4, <1>6, <1>7, UbicarHace
<1> HIDE DEF u
<1>9. u \in Memoria /\ PaginasDe(u, s) # <<>>
  BY <1>8 DEF TrasUbicar
<1>10. v \in Nat
  <2>1. u.tablas[s].tam \in Nat /\ Len(PaginasDe(u, s)) \in Nat /\ PAG \in Nat
    BY <1>9, SegmentoEs, LenProperties, Numeros
  <2>2. Len(PaginasDe(u, s)) * PAG \in Nat
    BY <2>1
  <2> QED BY <2>1, <2>2
<1> HIDE DEF v
<1>11. /\ b \in Memoria /\ Iguales(u, b) /\ b.caida = u.caida
       /\ \A r \in Slots : b.tablas[r].heaps = u.tablas[r].heaps
  BY <1>1, <1>9, <1>10, TamHace
<1>12. Avanza(u, b, s) /\ (Orden(u, -1, {s}) => Orden(b, -1, {s}))
  BY <1>11, AvanzaIgual, OrdenIgual
<1>13. PaginasDe(b, s) # <<>>
  BY <1>9, <1>11 DEF Iguales
<1>14. \A r \in Slots : b.tablas[r].tiene = a.tablas[r].tiene /\ b.tablas[r].enLista = a.tablas[r].enLista
  BY <1>2, <1>4, <1>8, <1>11 DEF TrasUbicar, Iguales
<1>15. ASSUME b.caida = "no"
       PROVE  /\ a.caida = "no" /\ Len(b.tablas[s].heaps) = Len(a.tablas[s].heaps) + 1
              /\ Orden(a, -1, {s}) /\ a.tablas[s].tiene => Orden(b, -1, {s}) /\ Avanza(a, b, s)
  <2>1. /\ q.caida = "no" /\ Len(u.tablas[s].heaps) = Len(q.tablas[s].heaps) + 1
        /\ Orden(q, -1, {s}) /\ q.tablas[s].tiene => Orden(u, -1, {s}) /\ Avanza(q, u, s)
    BY <1>8, <1>11, <1>15 DEF TrasUbicar
  <2>2. p.caida = "no" /\ a.caida = "no"
    BY <1>2, <1>4, <2>1
  <2>3. Len(b.tablas[s].heaps) = Len(a.tablas[s].heaps) + 1
    BY <1>2, <1>4, <1>11, <2>1
  <2>4. ASSUME Orden(a, -1, {s}), a.tablas[s].tiene PROVE Orden(b, -1, {s}) /\ Avanza(a, b, s)
    <3>1. Orden(p, -1, {s}) /\ Avanza(a, p, s) /\ q.tablas[s].tiene
      BY <1>2, <1>3, <1>4, <2>2, <2>4 DEF Iguales
    <3>2. Orden(u, -1, {s}) /\ Avanza(q, u, s)
      BY <1>5, <2>1, <3>1
    <3>3. Avanza(a, q, s)
      BY <1>5, <3>1, AvanzaSigue
    <3>4. Avanza(a, u, s)
      BY <3>2, <3>3, AvanzaSigue
    <3> QED BY <1>12, <3>2, <3>4, AvanzaSigue
  <2> QED BY <2>2, <2>3, <2>4
<1> QED BY <1>11, <1>13, <1>14, <1>15 DEF TrasUbicar

LEMMA CerrarSegmentoHace ==
    ASSUME NEW a \in Memoria, NEW s \in Slots, NEW u \in 1..PAG, PaginasDe(a, s) # <<>>,
           NEW b, b = CerrarSegmento(a, s, u)
    PROVE  TrasUbicar(a, s, b)
<1> DEFINE f == LaPagina(a, s, UltimaPagina(a, s)).marco
           dir == DireccionUltima(f, u)
           x == Ubicar(a, s, dir, u # PAG, PAG - u)
           v == x.tablas[s].tam + PAG
<1>1. b = IF f = -1 THEN Caer(a, "nulo") ELSE [x EXCEPT !.tablas[s].tam = v]
  BY DEF CerrarSegmento
<1>2. f \in Marcos \cup {-1}
  <2>1. Len(PaginasDe(a, s)) \in DOMAIN PaginasDe(a, s) /\ Len(PaginasDe(a, s)) \in Nat
    BY SegmentoEs, EmptySeq, LenProperties
  <2>2. UltimaPagina(a, s) + 1 = Len(PaginasDe(a, s))
    BY <2>1 DEF UltimaPagina
  <2> QED BY <2>1, <2>2, PaginaEs DEF LaPagina
<1> HIDE DEF f
<1>3. CASE f = -1
  <2>1. Aparte(a, b) /\ b.caida # "no"
    BY <1>1, <1>3, CaerAparte, CaerForma DEF Caidas
  <2> QED BY <2>1 DEF TrasUbicar, Aparte, PaginasDe
<1>4. CASE f # -1
  <2>1. f \in Nat /\ PAG \in Nat /\ PAG >= 4 /\ HM = 5 /\ u \in Nat /\ u >= 1 /\ u <= PAG
    BY <1>2, <1>4, Numeros
  <2>2. f * PAG \in Nat
    BY <2>1
  <2>3. dir \in Nat /\ PAG - u \in Nat
    BY <2>1, <2>2 DEF DireccionUltima
  <2> HIDE DEF dir
  <2>4. (u # PAG) \in BOOLEAN
    OBVIOUS
  <2>5. TrasUbicar(a, s, x)
    BY <2>3, <2>4, UbicarHace
  <2> HIDE DEF x
  <2>6. x \in Memoria /\ PaginasDe(x, s) # <<>>
    BY <2>5 DEF TrasUbicar
  <2>7. v \in Nat
    BY SMTT(60), <2>1, <2>6, SegmentoEs
  <2> HIDE DEF v
  <2>8. /\ b \in Memoria /\ Iguales(x, b) /\ b.caida = x.caida
        /\ \A r \in Slots : b.tablas[r].heaps = x.tablas[r].heaps
    BY <1>1, <1>4, <2>6, <2>7, TamHace
  <2>9. Avanza(x, b, s) /\ (Orden(x, -1, {s}) => Orden(b, -1, {s}))
    BY <2>8, AvanzaIgual, OrdenIgual
  <2>10. Avanza(a, x, s) => Avanza(a, b, s)
    BY <2>9, AvanzaSigue
  <2>11. \A r \in Slots : /\ PaginasDe(b, r) = PaginasDe(x, r) /\ b.tablas[r].tiene = x.tablas[r].tiene
                          /\ b.tablas[r].enLista = x.tablas[r].enLista
    BY <2>8 DEF Iguales
  <2> QED BY <2>5, <2>8, <2>9, <2>10, <2>11 DEF TrasUbicar
<1> QED BY <1>3, <1>4

\* One header of a segment written anew.
LEMMA HeaderHace ==
    ASSUME NEW a \in Memoria, NEW s \in Slots, NEW j \in DOMAIN Headers(a, s), NEW h \in Heap,
           NEW b, b = [a EXCEPT !.tablas[s].heaps[j] = h]
    PROVE  /\ b \in Memoria /\ Iguales(a, b) /\ b.caida = a.caida
           /\ \A r \in Slots : Len(b.tablas[r].heaps) = Len(a.tablas[r].heaps)
<1> DEFINE x == [a.tablas[s].heaps EXCEPT ![j] = h]
           t == [a.tablas[s] EXCEPT !.heaps = x]
<1>0. a.tablas[s].heaps \in Seq(Heap) /\ j \in Int /\ j \in DOMAIN a.tablas[s].heaps
  BY SegmentoEs, LenProperties DEF Headers
<1>1. x \in Seq(Heap) /\ Len(x) = Len(a.tablas[s].heaps)
  BY <1>0, UnoDeSeq
<1>2. b = [a EXCEPT !.tablas[s] = t]
  OBVIOUS
<1> HIDE DEF x
<1>3. x = <<>> => a.tablas[s].heaps = <<>>
  BY <1>0, <1>1, EmptySeq, LenProperties
<1>4. /\ t \in Segmento /\ t.paginas = a.tablas[s].paginas /\ t.heaps = x
      /\ t.tiene = a.tablas[s].tiene /\ t.enLista = a.tablas[s].enLista
  BY <1>1, SegmentoEs DEF Segmento
<1> HIDE DEF t
<1>5. TrasTabla(a, s, t, b)
  BY <1>2, <1>4, TablaHace
<1>6. Iguales(a, b)
  BY <1>3, <1>4, <1>5, TablaIgual
<1>7. a.tablas \in [Slots -> Segmento]
  BY CampoEs
<1>8. \A r \in Slots : b.tablas[r] = IF r = s THEN t ELSE a.tablas[r]
  BY <1>5, <1>7 DEF TrasTabla
<1> QED BY <1>1, <1>4, <1>5, <1>6, <1>8 DEF TrasTabla

LEMMA OcuparUltimoHace ==
    ASSUME NEW a \in Memoria, NEW s \in Slots, NEW n \in Nat, Headers(a, s) # <<>>,
           NEW b, b = OcuparUltimo(a, s, n)
    PROVE  /\ b \in Memoria /\ Iguales(a, b) /\ b.caida = a.caida
           /\ \A r \in Slots : Len(b.tablas[r].heaps) = Len(a.tablas[r].heaps)
<1> DEFINE j == Len(Headers(a, s))
           h == [Headers(a, s)[j] EXCEPT !.size = n]
           x == [a EXCEPT !.tablas[s].heaps[j] = h]
           g == [Headers(x, s)[j] EXCEPT !.libre = FALSE]
<1>1. Headers(a, s) \in Seq(Heap) /\ j \in DOMAIN Headers(a, s) /\ Headers(a, s)[j] \in Heap
  BY SMTT(60), SegmentoEs, EmptySeq, LenProperties, ElementOfSeq DEF Headers
<1>2. h \in Heap
  BY <1>1 DEF Heap
<1>3. b = [x EXCEPT !.tablas[s].heaps[j] = g]
  BY DEF OcuparUltimo, Headers
<1> HIDE DEF h
<1>4. /\ x \in Memoria /\ Iguales(a, x) /\ x.caida = a.caida
      /\ \A r \in Slots : Len(x.tablas[r].heaps) = Len(a.tablas[r].heaps)
  BY <1>1, <1>2, HeaderHace
<1> HIDE DEF x
<1>5. j \in DOMAIN Headers(x, s) /\ Headers(x, s)[j] \in Heap
  BY <1>1, <1>4, SegmentoEs, LenProperties, ElementOfSeq DEF Headers
<1>6. g \in Heap
  BY <1>5 DEF Heap
<1> HIDE DEF g
<1>7. /\ b \in Memoria /\ Iguales(x, b) /\ b.caida = x.caida
      /\ \A r \in Slots : Len(b.tablas[r].heaps) = Len(x.tablas[r].heaps)
  BY SMTT(60), <1>3, <1>4, <1>5, <1>6, HeaderHace
<1> QED BY <1>4, <1>7, IgualesSigue

\* Where the pages are depends on the tables only.
LEMMA EnPaginaEs ==
    ASSUME NEW h \in Heap
    PROVE  PaginaDatos(h) \in Nat /\ (h.dir % PAG) \in Nat /\ HM - h.bytes \in 0..4 /\ h.bytes \in 1..5
<1>1. h.dir \in Nat /\ h.bytes \in 1..5 /\ PAG \in Nat /\ PAG > 0 /\ HM = 5
  BY Numeros DEF Heap
<1>2. h.dir \div PAG \in Nat /\ (h.dir % PAG) \in Nat
  BY <1>1
<1> QED BY <1>1, <1>2 DEF PaginaDatos

LEMMA EnPrimeraEs ==
    ASSUME NEW h \in Heap, NEW d \in Nat, NEW n \in Nat
    PROVE  EnPrimera(h, d, n) \in 0..n
<1>1. HM - h.bytes \in 0..4 /\ PAG \in Nat /\ PAG >= 4
  BY EnPaginaEs, Numeros
<1>2. (d % PAG) \in 0..(PAG - 1)
  BY Numeros
<1>3. PAG - (IF Partido(h) THEN HM - h.bytes ELSE (d % PAG)) \in Nat
  BY <1>1, <1>2
<1> DEFINE c == PAG - (IF Partido(h) THEN HM - h.bytes ELSE (d % PAG))
<1> HIDE DEF c
<1>4. EnPrimera(h, d, n) = IF n < c THEN n ELSE c
  BY DEF EnPrimera, c
<1> QED BY <1>3, <1>4 DEF c

LEMMA CopiarPrimeraHace ==
    ASSUME NEW a \in Memoria, NEW s \in Slots, NEW h \in Heap, NEW d \in Nat, NEW n \in Nat,
           NEW v \in Valores, HayPagina(a, s, PaginaDatos(h)), NEW b, b = CopiarPrimera(a, s, h, d, n, v)
    PROVE  Aparte(a, b)
<1> DEFINE f == LaPagina(a, s, PaginaDatos(h)).marco
           x == [a EXCEPT !.marcos[f].uso = 1, !.marcos[f].mod = 1]
           y == Tira(v, 0, EnPrimera(h, d, n))
           e == Escribir(x, f * PAG + (d % PAG), y)
<1>1. b = IF f = -1 THEN Caer(a, "nulo") ELSE e
  BY DEF CopiarPrimera
<1>2. f \in Marcos \cup {-1}
  BY PaginaEs DEF HayPagina, LaPagina
<1>3. f \in Int /\ PAG \in Nat /\ PAG > 0
  BY <1>2, MuseAssumption DEF Marcos
<1>4. f * PAG + (d % PAG) \in Int
  <2>1. f * PAG \in Int
    BY <1>3
  <2>2. (d % PAG) \in Int
    BY SMTT(60), <1>3
  <2> QED BY <2>1, <2>2
<1>5. Aparte(a, x)
  BY ZenonT(60), BitsAparte
<1>6. y \in Seq(Byte)
  <2>1. EnPrimera(h, d, n) \in Nat
    BY EnPrimeraEs
  <2> QED BY <2>1, TiraTipo
<1> HIDE DEF f, x, y
<1>7. x \in Memoria
  BY <1>5 DEF Aparte
<1>8. Aparte(x, e)
  BY <1>4, <1>6, <1>7, EscribirAparte
<1> HIDE DEF e
<1>9. Aparte(a, e)
  BY <1>5, <1>8, AparteSigue
<1>10. Aparte(a, Caer(a, "nulo"))
  BY CaerAparte DEF Caidas
<1> QED BY <1>1, <1>9, <1>10

LEMMA PosicionEs ==
    ASSUME NEW a \in Memoria, NEW s \in Slots, NEW k \in Int
    PROVE  Posicion(a, s, k) \in Int
<1>1. CASE HayPagina(a, s, k)
  <2>1. LaPagina(a, s, k).marco \in Marcos \cup {-1}
    BY <1>1, PaginaEs DEF HayPagina, LaPagina
  <2>2. LaPagina(a, s, k).marco \in Int /\ PAG \in Int
    BY <2>1, MuseAssumption DEF Marcos
  <2>3. LaPagina(a, s, k).marco * PAG \in Int
    BY <2>2
  <2> QED BY <1>1, <2>3 DEF Posicion
<1>2. CASE ~ HayPagina(a, s, k)
  BY <1>2 DEF Posicion
<1> QED BY <1>1, <1>2

\* What a piece of a handler leaves that brings no page and gives none: the pages
\* are those of a, if the server is up.
TrasNada(a, b) ==
    /\ b \in Memoria
    /\ b.caida = "no" => a.caida = "no" /\ (Orden(a, -1, {}) => Orden(b, -1, {}) /\ Iguales(a, b))

LEMMA NadaSigue ==
    ASSUME NEW a, NEW b, NEW c, TrasNada(a, b), TrasNada(b, c)
    PROVE  TrasNada(a, c)
BY IgualesSigue DEF TrasNada

LEMMA AparteNada ==
    ASSUME NEW a \in Memoria, NEW b, Aparte(a, b)
    PROVE  TrasNada(a, b)
<1>1. Iguales(a, b)
  BY AparteIgual
<1>2. Orden(a, -1, {}) => Orden(b, -1, {})
  BY <1>1, OrdenIgual
<1> QED BY <1>1, <1>2 DEF TrasNada, Aparte

LEMMA PosicionNada ==
    ASSUME NEW a \in Memoria, NEW s \in Slots, NEW k \in Int
    PROVE  TrasNada(a, ObtenerPosicion(a, s, k))
<1> DEFINE b == ObtenerPosicion(a, s, k)
<1>1. b \in Memoria /\ (b.caida = "no" => a.caida = "no")
  BY ObtenerPosicionTipo
<1>2. b.caida = "no" /\ Orden(a, -1, {}) => b = a
  BY ObtenerPosicionNada
<1>3. Iguales(a, a)
  BY DEF Iguales
<1> HIDE DEF b
<1>4. TrasNada(a, b)
  BY <1>1, <1>2, <1>3 DEF TrasNada
<1> QED BY <1>4 DEF b

LEMMA EscribirNada ==
    ASSUME NEW a \in Memoria, NEW pos \in Int, NEW bytes \in Seq(Byte)
    PROVE  TrasNada(a, Escribir(a, pos, bytes))
BY EscribirAparte, AparteNada

LEMMA MarcarNada ==
    ASSUME NEW a \in Memoria, NEW s \in Slots, NEW d \in Nat, NEW j \in DOMAIN Headers(a, s),
           HayPagina(a, s, d \div PAG), NEW t, t = ObtenerPosicion(a, s, d \div PAG)
    PROVE  TrasNada(a, Marcar(a, t, s, d, j))
<1> DEFINE h == Headers(a, s)[j]
           I == {i \in DOMAIN PaginasDe(a, s) : PaginasDe(a, s)[i] = LaPagina(a, s, d \div PAG)}
           k == Menor(I) - 2
           g == [Headers(t, s)[j] EXCEPT !.libre = TRUE]
           x == [t EXCEPT !.tablas[s].heaps[j] = g]
           p == ObtenerPosicion(x, s, k)
           e == Escribir(p, Posicion(p, s, k) + (h.dir % PAG), Tira("cab", 0, h.bytes))
           c == ObtenerPosicion(e, s, k + 1)
           w == Escribir(c, Posicion(c, s, k + 1), Tira("cab", h.bytes, HM - h.bytes))
           r == Marcar(a, t, s, d, j)
<1>1. r = IF ~ HayPagina(a, s, k) THEN Caer(a, "nulo") ELSE IF ~ Partido(h) THEN e ELSE w
  BY DEF Marcar, Headers
<1> HIDE DEF r
<1>2. d \div PAG \in Int
  BY Numeros
<1>3. k \in Int
  <2>1. (d \div PAG) + 1 \in I
    BY DEF HayPagina, LaPagina
  <2>2. I \subseteq Nat
    <3>1. PaginasDe(a, s) \in Seq(Pagina)
      BY SegmentoEs
    <3> QED BY <3>1, LenProperties
  <2> HIDE DEF I
  <2>3. Menor(I) \in Nat
    BY <2>1, <2>2, MenorEsMenor
  <2> QED BY <2>3
<1>4. h \in Heap
  BY SegmentoEs, ElementOfSeq DEF Headers
<1>5. h.bytes \in Nat /\ HM - h.bytes \in Nat /\ (h.dir % PAG) \in Int
  BY <1>4, EnPaginaEs
<1>6. /\ t \in Memoria /\ MismaForma(a, t) /\ TrasNada(a, t)
  BY <1>2, ObtenerPosicionTipo, PosicionNada
<1>7. j \in DOMAIN Headers(t, s) /\ Headers(t, s)[j] \in Heap
  <2>1. Headers(t, s) = Headers(a, s)
    BY <1>6 DEF MismaForma, Headers
  <2> QED BY <1>4, <2>1
<1>8. g \in Heap
  BY <1>7 DEF Heap
<1> HIDE DEF g, h, k
<1>9. x \in Memoria /\ Iguales(t, x) /\ x.caida = t.caida
  BY <1>6, <1>7, <1>8, HeaderHace
<1> HIDE DEF x
<1>10. TrasNada(t, x)
  <2>1. Orden(t, -1, {}) => Orden(x, -1, {})
    BY <1>9, OrdenIgual
  <2> QED BY <1>9, <2>1 DEF TrasNada
<1>11. TrasNada(x, p)
  BY <1>3, <1>9, PosicionNada
<1> HIDE DEF p
<1>12. p \in Memoria
  BY <1>11 DEF TrasNada
<1>13. Posicion(p, s, k) + (h.dir % PAG) \in Int
  <2>1. Posicion(p, s, k) \in Int
    BY <1>3, <1>12, PosicionEs
  <2> QED BY <1>5, <2>1
<1>14. "cab" \in Valores \cup {"cab", "basura", "cero"} /\ 0 \in Nat
  OBVIOUS
<1>15. Tira("cab", 0, h.bytes) \in Seq(Byte)
  BY <1>5, <1>14, TiraTipo
<1>16. Tira("cab", h.bytes, HM - h.bytes) \in Seq(Byte)
  BY <1>5, <1>14, TiraTipo
<1>17. TrasNada(p, e)
  BY <1>12, <1>13, <1>15, EscribirNada
<1> HIDE DEF e
<1>18. e \in Memoria /\ k + 1 \in Int
  BY <1>3, <1>17 DEF TrasNada
<1>19. TrasNada(e, c)
  BY <1>18, PosicionNada
<1> HIDE DEF c
<1>20. c \in Memoria
  BY <1>19 DEF TrasNada
<1>21. Posicion(c, s, k + 1) \in Int
  BY <1>18, <1>20, PosicionEs
<1>22. TrasNada(c, w)
  BY <1>16, <1>20, <1>21, EscribirNada
<1> HIDE DEF w
<1>23. TrasNada(a, x)
  BY <1>6, <1>10, NadaSigue
<1>24. TrasNada(a, p)
  BY <1>11, <1>23, NadaSigue
<1>25. TrasNada(a, e)
  BY <1>17, <1>24, NadaSigue
<1>26. TrasNada(a, c)
  BY <1>19, <1>25, NadaSigue
<1>27. TrasNada(a, w)
  BY <1>22, <1>26, NadaSigue
<1>28. TrasNada(a, Caer(a, "nulo"))
  BY CaerAparte, AparteNada DEF Caidas
<1>29. TrasNada(a, r)
  BY <1>1, <1>25, <1>27, <1>28
<1> QED BY <1>29 DEF r

LEMMA MuseFreeNada ==
    ASSUME NEW a \in Memoria, NEW s \in Slots, NEW d \in Nat, NEW b \in MuseFree(a, s, d)
    PROVE  TrasNada(a, b)
<1> DEFINE k == d \div PAG
           t == ObtenerPosicion(a, s, k)
           C == DeDir(a, s, d)
<1>1. k \in Int
  BY Numeros
<1>2. b \in IF ~ EnSegmento(a, s, d) THEN {a}
            ELSE IF ~ HayPagina(a, s, k) THEN {Caer(a, "nulo")}
            ELSE IF C = {} THEN {t, Caer(t, "sinIniciar")}
            ELSE {Marcar(a, t, s, d, Menor(C))}
  BY DEF MuseFree
<1>3. Iguales(a, a)
  BY DEF Iguales
<1>4. TrasNada(a, a)
  BY <1>3 DEF TrasNada
<1>5. TrasNada(a, t)
  BY <1>1, PosicionNada
<1>6. t \in Memoria
  BY <1>5 DEF TrasNada
<1>7. TrasNada(a, Caer(a, "nulo")) /\ TrasNada(t, Caer(t, "sinIniciar"))
  BY <1>6, CaerAparte, AparteNada DEF Caidas
<1>8. TrasNada(a, Caer(t, "sinIniciar"))
  BY <1>5, <1>7, NadaSigue
<1>9. ASSUME HayPagina(a, s, k), C # {}
      PROVE  TrasNada(a, Marcar(a, t, s, d, Menor(C)))
  <2>1. C \subseteq DOMAIN Headers(a, s) /\ C \subseteq Nat
    BY SegmentoEs, LenProperties DEF DeDir, Headers
  <2> HIDE DEF C
  <2>2. Menor(C) \in C
    BY <1>9, <2>1, MenorEsMenor
  <2> QED BY <1>9, <2>1, <2>2, MarcarNada
<1> HIDE DEF t, C, k
<1> QED BY <1>2, <1>4, <1>5, <1>7, <1>8, <1>9

\* The page j of the segment s goes back to memory, in the only free frame e.
TrasVolver(a, s, j, e, b) ==
    /\ MismaForma(a, b) /\ b.swap = a.swap \ {Pag(a, s, j).indice} /\ Libres(b) = Libres(a) \ {e}
    /\ \A r \in Slots : \A i \in DOMAIN PaginasDe(a, r) :
          r # s \/ i # j => Pag(b, r, i) = Pag(a, r, i)
    /\ Pag(b, s, j).presencia /\ Pag(b, s, j).marco = e /\ Pag(b, s, j).indice = -1

LEMMA TraerHace ==
    ASSUME NEW a \in Memoria, NEW s \in Slots, NEW k \in Int, HayPagina(a, s, k),
           LaPagina(a, s, k).indice \in Indices, NEW b, b = Traer(a, s, k)
    PROVE  /\ b \in Memoria /\ MismaForma(a, b) /\ (b.caida = "no" => a.caida = "no")
           /\ \A e : Libres(a) = {e} => TrasVolver(a, s, k + 1, e, b)
<1> DEFINE idx == LaPagina(a, s, k).indice
           g == AsignarUnFrame(a)
           f == g.elegido
           pag == [presencia |-> TRUE, marco |-> f, indice |-> -1]
           p == ConPagina(g, s, k, pag)
           q == [p EXCEPT !.swap = @ \ {idx}]
           x == [q EXCEPT !.marcos[f].mod = 0, !.marcos[f].uso = 1]
<1>1. b = Escribir(x, f * PAG, a.disco[idx])
  BY DEF Traer
<1>2. g \in Memoria /\ MismaForma(a, g) /\ (g.caida = "no" => a.caida = "no")
  BY AsignarForma
<1>3. \A e : Libres(a) = {e} => e \in Marcos /\ TrasOcupar(a, e, g)
  <2> SUFFICES ASSUME NEW e, Libres(a) = {e} PROVE e \in Marcos /\ TrasOcupar(a, e, g)
    OBVIOUS
  <2>1. Menor(Libres(a)) = e /\ e \in Marcos
    BY LibreEs
  <2>2. g = Ocupar(a, e)
    BY <2>1, AsignarCasos
  <2> QED BY <2>1, <2>2, OcuparHace
<1> HIDE DEF g
<1>4. f \in Marcos
  BY <1>2, CampoEs
<1> HIDE DEF f
<1>5. pag \in Pagina /\ pag.presencia /\ pag.marco = f /\ pag.indice = -1
  BY <1>4 DEF Pagina
<1> HIDE DEF pag
<1>6. p \in Memoria /\ TrasConPagina(g, s, k, pag, p)
  BY <1>2, <1>5, ConPaginaTipo, ConPaginaHace
<1> HIDE DEF p, idx
<1>7. q \in Memoria
  BY <1>6, CampoTipo, CampoEs
<1>8. /\ q.tablas = p.tablas /\ q.clientes = p.clientes /\ q.swap = p.swap \ {idx}
      /\ q.marcos = p.marcos /\ q.caida = p.caida
  BY <1>6 DEF Memoria
<1> HIDE DEF q
<1>9. Aparte(q, x)
  BY ZenonT(60), <1>7, BitsAparte
<1> HIDE DEF x
<1>10. x \in Memoria
  BY <1>9 DEF Aparte
<1>11. f * PAG \in Int
  <2>1. f \in Int /\ PAG \in Int
    BY <1>4, Numeros
  <2> QED BY <2>1
<1>12. a.disco[idx] \in Seq(Byte)
  BY CampoEs DEF idx
<1>13. Aparte(x, b)
  BY <1>1, <1>10, <1>11, <1>12, EscribirAparte
<1>14. Aparte(q, b)
  BY <1>9, <1>13, AparteSigue
<1>15. /\ b \in Memoria /\ b.tablas = p.tablas /\ b.clientes = p.clientes /\ b.swap = p.swap \ {idx}
       /\ Libres(b) = Libres(p) /\ (b.caida = "no" => p.caida = "no")
  BY <1>8, <1>14 DEF Aparte, Libres
<1>16. MismaForma(g, p) /\ p.caida = g.caida /\ p.swap = g.swap /\ Libres(p) = Libres(g)
  BY <1>6 DEF TrasConPagina, Libres
<1>17. MismaForma(a, b)
  BY <1>2, <1>15, <1>16 DEF MismaForma, PaginasDe
<1>18. ASSUME NEW e, Libres(a) = {e} PROVE TrasVolver(a, s, k + 1, e, b)
  <2>1. /\ g.tablas = a.tablas /\ g.swap = a.swap /\ f = e /\ Libres(g) = Libres(a) \ {e}
    BY <1>3, <1>18 DEF TrasOcupar, f
  <2>2. \A r \in Slots : \A j \in DOMAIN PaginasDe(a, r) :
            Pag(b, r, j) = IF r = s /\ j = k + 1 THEN pag ELSE Pag(a, r, j)
    BY <1>6, <1>15, <2>1 DEF TrasConPagina, Pag, PaginasDe
  <2>3. k + 1 \in DOMAIN PaginasDe(a, s) /\ idx = Pag(a, s, k + 1).indice
    BY DEF HayPagina, LaPagina, Pag, idx
  <2>4. Pag(b, s, k + 1) = pag
    BY <2>2, <2>3
  <2>5. b.swap = a.swap \ {Pag(a, s, k + 1).indice} /\ Libres(b) = Libres(a) \ {e}
    BY <1>15, <1>16, <2>1, <2>3
  <2> QED BY <1>5, <1>17, <2>1, <2>2, <2>4, <2>5 DEF TrasVolver
<1> QED BY <1>2, <1>15, <1>16, <1>17, <1>18

\* A page that goes back to memory keeps frames, pages and swap in step, and shares
\* its frame with none: m is the memory before its frame was given away.
LEMMA VolverOrden ==
    ASSUME NEW c \in Memoria, NEW a \in Memoria, NEW b \in Memoria, NEW e \in Marcos,
           Orden(a, e, {}), Libres(a) = {e}, MismaForma(c, a), SoloSalen(c, a), Quedan(c, a, e, {}),
           NEW s \in Slots, NEW j, Fuera(a, s, j), TrasVolver(a, s, j, e, b)
    PROVE  Orden(b, -1, {}) /\ CompartidosEn(b) \subseteq CompartidosEn(c)
<1>1. /\ MismaForma(a, b) /\ b.swap = a.swap \ {Pag(a, s, j).indice} /\ Libres(b) = {}
      /\ Dentro(b, s, j) /\ Pag(b, s, j).marco = e /\ Pag(b, s, j).indice = -1
      /\ j \in DOMAIN PaginasDe(a, s) /\ j \in DOMAIN PaginasDe(b, s)
  BY DEF TrasVolver, Dentro, Fuera, Hay, MismaForma
<1>2. \A r \in Slots : \A i : Hay(b, r, i) = Hay(a, r, i) /\ (i \in DOMAIN PaginasDe(a, r)) = Hay(a, r, i)
                                /\ (i \in DOMAIN PaginasDe(b, r)) = Hay(b, r, i)
  BY <1>1 DEF Hay, MismaForma
<1>3. \A r \in Slots : \A i : Hay(a, r, i) /\ (r # s \/ i # j) =>
        Pag(b, r, i) = Pag(a, r, i) /\ Dentro(b, r, i) = Dentro(a, r, i) /\ Fuera(b, r, i) = Fuera(a, r, i)
  BY ZenonT(60), <1>2 DEF TrasVolver, Dentro, Fuera
<1>4. ~ Fuera(b, s, j) /\ ~ Dentro(a, s, j)
  BY <1>1 DEF Fuera, Dentro
<1>5. \A r \in Slots : \A i : Fuera(b, r, i) =>
        /\ Fuera(a, r, i) /\ Pag(b, r, i) = Pag(a, r, i) /\ (r # s \/ i # j)
        /\ i \in DOMAIN PaginasDe(a, r)
  BY <1>2, <1>3, <1>4 DEF Fuera
<1>6. \A r \in Slots : \A i : Dentro(b, r, i) /\ (r # s \/ i # j) =>
        /\ Dentro(a, r, i) /\ Pag(b, r, i) = Pag(a, r, i) /\ i \in DOMAIN PaginasDe(a, r)
  BY <1>2, <1>3 DEF Dentro
<1>7. Ubicadas(b, -1)
  <2> SUFFICES ASSUME NEW r \in Slots, NEW i \in DOMAIN PaginasDe(b, r)
               PROVE  /\ Dentro(b, r, i) => Pag(b, r, i).marco \in Marcos /\ Pag(b, r, i).indice = -1
                      /\ Fuera(b, r, i) => Pag(b, r, i).marco = -1 /\ Pag(b, r, i).indice \in b.swap
    BY <1>1 DEF Ubicadas
  <2>1. CASE r = s /\ i = j
    BY <1>1, <1>4, <2>1
  <2>2. CASE r # s \/ i # j
    <3>1. Dentro(b, r, i) => Pag(b, r, i).marco \in Marcos /\ Pag(b, r, i).indice = -1
      BY <1>6, <2>2 DEF Orden, Ubicadas
    <3>2. ASSUME Fuera(b, r, i) PROVE Pag(b, r, i).marco = -1 /\ Pag(b, r, i).indice \in b.swap
      <4>1. Fuera(a, r, i) /\ Pag(b, r, i) = Pag(a, r, i) /\ i \in DOMAIN PaginasDe(a, r)
        BY <1>5, <3>2
      <4>2. Pag(a, r, i).marco = -1 /\ Pag(a, r, i).indice \in a.swap
        BY <4>1 DEF Orden, Ubicadas
      <4>3. Pag(a, r, i).indice # Pag(a, s, j).indice
        BY <1>1, <2>2, <4>1 DEF Orden, SwapExacto
      <4> QED BY <1>1, <4>1, <4>2, <4>3
    <3> QED BY <3>1, <3>2
  <2> QED BY <2>1, <2>2
<1>8. SwapExacto(b)
  <2>1. ASSUME NEW x \in b.swap
        PROVE  \E r \in Slots : \E i \in DOMAIN PaginasDe(b, r) : Fuera(b, r, i) /\ Pag(b, r, i).indice = x
    <3>1. x \in a.swap /\ x # Pag(a, s, j).indice
      BY <1>1, <2>1
    <3>2. PICK r \in Slots : \E i \in DOMAIN PaginasDe(a, r) : Fuera(a, r, i) /\ Pag(a, r, i).indice = x
      BY <3>1 DEF Orden, SwapExacto
    <3>3. PICK i \in DOMAIN PaginasDe(a, r) : Fuera(a, r, i) /\ Pag(a, r, i).indice = x
      BY <3>2
    <3>4. r # s \/ i # j
      BY <3>1, <3>3
    <3>5. Hay(a, r, i) /\ i \in DOMAIN PaginasDe(b, r)
      BY <1>2, <3>3 DEF Hay
    <3> QED BY <1>3, <3>3, <3>4, <3>5
  <2>2. ASSUME NEW r \in Slots, NEW q \in Slots, NEW i, NEW l, Fuera(b, r, i), Fuera(b, q, l),
               Pag(b, r, i).indice = Pag(b, q, l).indice
        PROVE  r = q /\ i = l
    BY <1>5, <2>2 DEF Orden, SwapExacto
  <2> QED BY <2>1, <2>2 DEF SwapExacto
<1>9. Llena(b, -1)
  BY <1>1 DEF Llena
<1>10. ConPag(b, -1)
  <2> SUFFICES ASSUME NEW f \in Marcos
               PROVE  \E r \in Slots : \E i \in DOMAIN PaginasDe(b, r) : Dentro(b, r, i) /\ Pag(b, r, i).marco = f
    BY DEF ConPag
  <2>1. CASE f = e
    BY <1>1, <2>1
  <2>2. CASE f # e
    <3>1. PICK r \in Slots : \E i \in DOMAIN PaginasDe(a, r) : Dentro(a, r, i) /\ Pag(a, r, i).marco = f
      BY <2>2 DEF Orden, ConPag
    <3>2. PICK i \in DOMAIN PaginasDe(a, r) : Dentro(a, r, i) /\ Pag(a, r, i).marco = f
      BY <3>1
    <3>3. (r # s \/ i # j) /\ Hay(a, r, i) /\ i \in DOMAIN PaginasDe(b, r)
      BY <1>2, <1>4, <3>2
    <3> QED BY <1>3, <3>2, <3>3
  <2> QED BY <2>1, <2>2
<1>11. EnListas(b, {})
  <2>1. \A r \in Slots : PaginasDe(b, r) = <<>> <=> PaginasDe(a, r) = <<>>
    BY <1>1, VacioForma
  <2> QED BY <1>1, <2>1 DEF Orden, EnListas, MismaForma
<1>12. ASSUME NEW f \in CompartidosEn(b) PROVE f \in CompartidosEn(c)
  <2>1. PICK r \in Slots, q \in Slots : \E i \in DOMAIN PaginasDe(b, r), l \in DOMAIN PaginasDe(b, q) :
            /\ <<r, i>> # <<q, l>> /\ Dentro(b, r, i) /\ Dentro(b, q, l)
            /\ Pag(b, r, i).marco = f /\ Pag(b, q, l).marco = f
    BY <1>12 DEF CompartidosEn
  <2>2. PICK i, l : /\ <<r, i>> # <<q, l>> /\ Dentro(b, r, i) /\ Dentro(b, q, l)
                    /\ Pag(b, r, i).marco = f /\ Pag(b, q, l).marco = f
    BY <2>1
  <2>3. ASSUME NEW x \in Slots, NEW y, Dentro(b, x, y), x # s \/ y # j
        PROVE  /\ Dentro(a, x, y) /\ y \in DOMAIN PaginasDe(a, x) /\ Pag(a, x, y) = Pag(b, x, y)
               /\ Dentro(c, x, y) /\ y \in DOMAIN PaginasDe(c, x) /\ Pag(c, x, y) = Pag(b, x, y)
    <3>1. Dentro(a, x, y) /\ y \in DOMAIN PaginasDe(a, x) /\ Pag(a, x, y) = Pag(b, x, y)
      BY <1>6, <2>3
    <3>2. y \in DOMAIN PaginasDe(c, x)
      BY <3>1 DEF MismaForma
    <3>3. Pag(a, x, y) = Pag(c, x, y)
      BY <3>1, <3>2 DEF SoloSalen
    <3> QED BY <3>1, <3>2, <3>3 DEF Dentro, Hay
  <2>4. f \in Marcos
    BY <1>12 DEF CompartidosEn
  <2>5. CASE (r # s \/ i # j) /\ (q # s \/ l # j)
    BY <2>2, <2>3, <2>4, <2>5 DEF CompartidosEn
  <2>6. ASSUME NEW x \in Slots, NEW y, Dentro(b, x, y), x # s \/ y # j, Pag(b, x, y).marco = e
        PROVE  e \in CompartidosEn(c)
    BY <2>3, <2>6 DEF Quedan
  <2>7. CASE r = s /\ i = j
    <3>1. (q # s \/ l # j) /\ f = e
      BY <1>1, <2>2, <2>7
    <3> QED BY <2>2, <2>6, <3>1
  <2>8. CASE q = s /\ l = j
    <3>1. (r # s \/ i # j) /\ f = e
      BY <1>1, <2>2, <2>8
    <3> QED BY <2>2, <2>6, <3>1
  <2> QED BY <2>5, <2>7, <2>8
<1> QED BY <1>7, <1>8, <1>9, <1>10, <1>11, <1>12 DEF Orden

\* What a round of museget or musecpy leaves: the page in memory, if the server is up.
TrasRonda(a, s, k, b) ==
    /\ b \in Memoria
    /\ b.caida = "no" =>
        /\ HayPagina(b, s, k) /\ LaPagina(b, s, k).marco \in Marcos
        /\ Orden(b, -1, {}) /\ CompartidosEn(b) \subseteq CompartidosEn(a)
        /\ \A r \in Slots : b.tablas[r].tiene = a.tablas[r].tiene

\* The first frame that is asked for an absent page.
LEMMA PrimerMarco ==
    ASSUME NEW a \in Memoria, NEW s \in Slots, NEW k \in Int, Orden(a, -1, {}), HayPagina(a, s, k),
           ~ LaPagina(a, s, k).presencia, NEW g, g = AsignarUnFrame(a)
    PROVE  /\ g \in Memoria /\ MismaForma(a, g) /\ HayPagina(g, s, k) /\ g.elegido \in Marcos
           /\ LaPagina(g, s, k) = LaPagina(a, s, k) /\ LaPagina(g, s, k).indice \in Indices
           /\ g.caida = "no" =>
                /\ Orden(g, g.elegido, {}) /\ Libres(g) = {g.elegido}
                /\ SoloSalen(a, g) /\ Quedan(a, g, g.elegido, {})
<1>1. k + 1 \in DOMAIN PaginasDe(a, s) /\ LaPagina(a, s, k) = Pag(a, s, k + 1) /\ Fuera(a, s, k + 1)
  BY DEF HayPagina, LaPagina, Pag, Fuera, Hay
<1>2. Pag(a, s, k + 1).marco = -1 /\ Pag(a, s, k + 1).indice \in a.swap
  BY <1>1 DEF Orden, Ubicadas
<1>3. Libres(a) = {}
  <2>1. Libres(a) \subseteq {-1} /\ Libres(a) \subseteq Marcos
    BY <1>1 DEF Orden, Llena, Libres
  <2> QED BY <2>1, Numeros
<1>4. /\ g \in Memoria /\ MismaForma(a, g)
      /\ PaginasDe(g, s)[k + 1] = PaginasDe(a, s)[k + 1]
  BY <1>1, <1>2, AsignarForma DEF Pag
<1>5. HayPagina(g, s, k) /\ LaPagina(g, s, k) = LaPagina(a, s, k) /\ LaPagina(g, s, k).indice \in Indices
  BY <1>1, <1>2, <1>4, CampoEs DEF MismaForma, HayPagina, LaPagina, Pag
<1>6. g.caida = "no" => TrasAsignar(a, {}, g)
  BY AsignarOrden
<1> QED BY <1>3, <1>4, <1>5, <1>6, CampoEs DEF TrasAsignar

LEMMA LeerPaginaHace ==
    ASSUME NEW a \in Memoria, NEW s \in Slots, NEW k \in Int, Orden(a, -1, {}),
           NEW b, b = LeerPagina(a, s, k)
    PROVE  TrasRonda(a, s, k, b)
<1> DEFINE p == LaPagina(a, s, k)
           g == AsignarUnFrame(a)
           e == g.elegido
           t == Traer(g, s, k)
           x == [a EXCEPT !.marcos[p.marco].uso = 1]
           y == [t EXCEPT !.marcos[e].uso = 1]
<1>1. b = IF ~ HayPagina(a, s, k) THEN Caer(a, "nulo") ELSE IF p.presencia THEN x ELSE y
  BY DEF LeerPagina
<1>2. CASE ~ HayPagina(a, s, k)
  <2>1. b = Caer(a, "nulo")
    BY <1>1, <1>2
  <2>2. b \in Memoria /\ b.caida # "no"
    BY <2>1, CaerTipo, CaerForma DEF Caidas
  <2> QED BY <2>2 DEF TrasRonda
<1>3. CASE HayPagina(a, s, k) /\ p.presencia
  <2>1. Aparte(a, b)
    BY ZenonT(60), <1>1, <1>3, UnBitAparte
  <2>2. Iguales(a, b)
    BY <2>1, AparteIgual
  <2>3. Orden(b, -1, {}) /\ CompartidosEn(b) = CompartidosEn(a)
    BY <2>2, OrdenIgual
  <2>4. HayPagina(b, s, k) /\ LaPagina(b, s, k) = p
    BY <1>3, <2>2 DEF Iguales, HayPagina, LaPagina
  <2>5. p.marco \in Marcos
    <3>1. Dentro(a, s, k + 1) /\ k + 1 \in DOMAIN PaginasDe(a, s) /\ p = Pag(a, s, k + 1)
      BY <1>3 DEF Dentro, Hay, HayPagina, Pag, LaPagina
    <3> QED BY <3>1 DEF Orden, Ubicadas
  <2>6. b \in Memoria /\ \A r \in Slots : b.tablas[r].tiene = a.tablas[r].tiene
    BY <2>1 DEF Aparte
  <2> QED BY <2>3, <2>4, <2>5, <2>6 DEF TrasRonda
<1>4. CASE HayPagina(a, s, k) /\ ~ p.presencia
  <2>1. /\ g \in Memoria /\ MismaForma(a, g) /\ HayPagina(g, s, k) /\ e \in Marcos
        /\ LaPagina(g, s, k) = p /\ LaPagina(g, s, k).indice \in Indices
        /\ g.caida = "no" =>
             Orden(g, e, {}) /\ Libres(g) = {e} /\ SoloSalen(a, g) /\ Quedan(a, g, e, {})
    BY <1>4, PrimerMarco
  <2>2. b = y
    BY <1>1, <1>4
  <2> HIDE DEF g, e
  <2>3. /\ t \in Memoria /\ MismaForma(g, t) /\ (t.caida = "no" => g.caida = "no")
        /\ \A z : Libres(g) = {z} => TrasVolver(g, s, k + 1, z, t)
    BY <2>1, TraerHace
  <2> HIDE DEF t
  <2>4. Aparte(t, y)
    BY <2>3, UnBitAparte
  <2> HIDE DEF y
  <2>5. y \in Memoria /\ (y.caida = "no" => t.caida = "no") /\ y.tablas = t.tablas
    BY <2>4 DEF Aparte
  <2>6. ASSUME y.caida = "no"
        PROVE  /\ HayPagina(y, s, k) /\ LaPagina(y, s, k).marco \in Marcos
               /\ Orden(y, -1, {}) /\ CompartidosEn(y) \subseteq CompartidosEn(a)
               /\ \A r \in Slots : y.tablas[r].tiene = a.tablas[r].tiene
    <3>1. TrasVolver(g, s, k + 1, e, t) /\ Orden(g, e, {}) /\ Libres(g) = {e} /\ SoloSalen(a, g)
            /\ Quedan(a, g, e, {})
      BY <2>1, <2>3, <2>5, <2>6
    <3>2. Fuera(g, s, k + 1)
      BY <1>4, <2>1 DEF Fuera, Hay, HayPagina, LaPagina, Pag
    <3>3. Orden(t, -1, {}) /\ CompartidosEn(t) \subseteq CompartidosEn(a)
      BY <2>1, <2>3, <3>1, <3>2, VolverOrden
    <3>4. Orden(y, -1, {}) /\ CompartidosEn(y) = CompartidosEn(t)
      BY SMTT(60), <2>4, <3>3, AparteIgual, OrdenIgual
    <3>5. HayPagina(y, s, k) /\ LaPagina(y, s, k).marco = e
      BY <2>1, <2>3, <2>5, <3>1 DEF TrasVolver, MismaForma, HayPagina, LaPagina, Pag, PaginasDe
    <3>6. \A r \in Slots : y.tablas[r].tiene = a.tablas[r].tiene
      BY <2>1, <2>3, <2>5 DEF MismaForma
    <3> QED BY <2>1, <3>3, <3>4, <3>5, <3>6
  <2> QED BY <2>2, <2>5, <2>6 DEF TrasRonda
<1> QED BY SMTT(60), <1>2, <1>3, <1>4

LEMMA CopiarPaginaHace ==
    ASSUME NEW a \in Memoria, NEW s \in Slots, NEW k \in Int, Orden(a, -1, {}),
           NEW v \in Valores, NEW hecho \in Nat, NEW n \in Nat, hecho <= n,
           NEW b, b = CopiarPagina(a, s, k, v, hecho, n)
    PROVE  TrasRonda(a, s, k, b)
<1> DEFINE p == LaPagina(a, s, k)
           g == AsignarUnFrame(a)
           x == g.elegido
           pag == [LaPagina(g, s, k) EXCEPT !.marco = x]
           c == ConPagina(g, s, k, pag)
           t == Traer(c, s, k)
           lista == IF p.presencia THEN a ELSE t
           f == IF p.presencia THEN p.marco ELSE x
           cuanto == IF n - hecho >= PAG THEN PAG ELSE n - hecho
           e == Escribir(lista, LaPagina(lista, s, k).marco * PAG, Tira(v, hecho, cuanto))
           y == [e EXCEPT !.marcos[f].uso = 1, !.marcos[f].mod = 1]
<1>1. b = IF ~ HayPagina(a, s, k) THEN Caer(a, "nulo") ELSE y
  BY DEF CopiarPagina
<1>2. Tira(v, hecho, cuanto) \in Seq(Byte)
  <2>1. cuanto \in Nat
    BY Numeros
  <2> QED BY <2>1, TiraTipo
<1> HIDE DEF cuanto
<1>3. ASSUME lista \in Memoria, HayPagina(lista, s, k) PROVE Aparte(lista, y)
  <2> HIDE DEF lista
  <2>1. LaPagina(lista, s, k).marco \in Marcos \cup {-1}
    BY <1>3, PaginaEs DEF HayPagina, LaPagina
  <2>2. LaPagina(lista, s, k).marco \in Int /\ PAG \in Int
    BY <2>1, MuseAssumption DEF Marcos
  <2>3. LaPagina(lista, s, k).marco * PAG \in Int
    BY <2>2
  <2>4. Aparte(lista, e)
    BY <1>2, <1>3, <2>3, EscribirAparte
  <2> HIDE DEF e
  <2>5. e \in Memoria
    BY SMTT(60), <2>4 DEF Aparte
  <2>6. Aparte(e, y)
    BY ZenonT(60), <2>5, BitsAparte
  <2> QED BY <2>4, <2>6, AparteSigue
<1> HIDE DEF e, y
<1>4. CASE ~ HayPagina(a, s, k)
  <2>1. b = Caer(a, "nulo")
    BY <1>1, <1>4
  <2>2. b \in Memoria /\ b.caida # "no"
    BY <2>1, CaerTipo, CaerForma DEF Caidas
  <2> QED BY <2>2 DEF TrasRonda
<1>5. CASE HayPagina(a, s, k) /\ p.presencia
  <2>1. lista = a
    BY <1>5
  <2>2. Aparte(a, b)
    BY <1>1, <1>3, <1>5, <2>1
  <2>3. Iguales(a, b)
    BY <2>2, AparteIgual
  <2>4. Orden(b, -1, {}) /\ CompartidosEn(b) = CompartidosEn(a)
    BY <2>3, OrdenIgual
  <2>5. HayPagina(b, s, k) /\ LaPagina(b, s, k) = p
    BY <1>5, <2>3 DEF Iguales, HayPagina, LaPagina
  <2>6. p.marco \in Marcos
    <3>1. Dentro(a, s, k + 1) /\ k + 1 \in DOMAIN PaginasDe(a, s) /\ p = Pag(a, s, k + 1)
      BY <1>5 DEF Dentro, Hay, HayPagina, Pag, LaPagina
    <3> QED BY <3>1 DEF Orden, Ubicadas
  <2>7. b \in Memoria /\ \A r \in Slots : b.tablas[r].tiene = a.tablas[r].tiene
    BY <2>2 DEF Aparte
  <2> QED BY <2>4, <2>5, <2>6, <2>7 DEF TrasRonda
<1>6. CASE HayPagina(a, s, k) /\ ~ p.presencia
  <2>1. /\ g \in Memoria /\ MismaForma(a, g) /\ HayPagina(g, s, k) /\ x \in Marcos
        /\ LaPagina(g, s, k) = p /\ LaPagina(g, s, k).indice \in Indices
        /\ g.caida = "no" =>
             Orden(g, x, {}) /\ Libres(g) = {x} /\ SoloSalen(a, g) /\ Quedan(a, g, x, {})
    BY <1>6, PrimerMarco
  <2>2. b = y /\ lista = t
    BY <1>1, <1>6
  <2> HIDE DEF g, x
  <2>3. k + 1 \in DOMAIN PaginasDe(g, s) /\ LaPagina(g, s, k) = Pag(g, s, k + 1) /\ Fuera(g, s, k + 1)
    BY <1>6, <2>1 DEF Fuera, Hay, HayPagina, LaPagina, Pag
  <2>4. LaPagina(g, s, k) \in Pagina
    BY <2>1, <2>3, PaginaEs DEF LaPagina
  <2>5. pag \in Pagina /\ pag.indice = LaPagina(g, s, k).indice
    BY <2>1, <2>4 DEF Pagina
  <2> HIDE DEF pag
  <2>6. c \in Memoria /\ TrasConPagina(g, s, k, pag, c)
    BY <2>1, <2>5, ConPaginaTipo, ConPaginaHace
  <2> HIDE DEF c
  <2>7. MismaForma(g, c) /\ c.caida = g.caida /\ c.swap = g.swap /\ Libres(c) = Libres(g)
    BY <2>6 DEF TrasConPagina, Libres
  <2>8. HayPagina(c, s, k) /\ LaPagina(c, s, k) = pag
    BY <2>3, <2>6 DEF TrasConPagina, MismaForma, HayPagina, LaPagina
  <2>9. /\ t \in Memoria /\ MismaForma(c, t) /\ (t.caida = "no" => c.caida = "no")
        /\ \A z : Libres(c) = {z} => TrasVolver(c, s, k + 1, z, t)
    BY <2>1, <2>5, <2>6, <2>8, TraerHace
  <2> HIDE DEF t
  <2>10. MismaForma(g, t)
    BY <2>7, <2>9 DEF MismaForma
  <2>11. HayPagina(t, s, k)
    BY <2>3, <2>10 DEF MismaForma, HayPagina
  <2>12. Aparte(t, y)
    BY <1>3, <2>2, <2>9, <2>11
  <2>13. y \in Memoria /\ (y.caida = "no" => t.caida = "no") /\ y.tablas = t.tablas
    BY <2>12 DEF Aparte
  <2>14. ASSUME y.caida = "no"
         PROVE  /\ HayPagina(y, s, k) /\ LaPagina(y, s, k).marco \in Marcos
                /\ Orden(y, -1, {}) /\ CompartidosEn(y) \subseteq CompartidosEn(a)
                /\ \A r \in Slots : y.tablas[r].tiene = a.tablas[r].tiene
    <3>1. Orden(g, x, {}) /\ Libres(g) = {x} /\ SoloSalen(a, g) /\ Quedan(a, g, x, {})
      BY <2>1, <2>7, <2>9, <2>13, <2>14
    <3>2. TrasVolver(c, s, k + 1, x, t)
      BY <2>7, <2>9, <3>1
    <3>3. TrasVolver(g, s, k + 1, x, t)
      <4>1. \A r \in Slots : \A i \in DOMAIN PaginasDe(g, r) :
                i \in DOMAIN PaginasDe(c, r) /\ (r # s \/ i # k + 1 => Pag(c, r, i) = Pag(g, r, i))
        BY <2>6 DEF TrasConPagina, MismaForma, Pag
      <4>2. Pag(c, s, k + 1).indice = Pag(g, s, k + 1).indice
        BY <2>3, <2>5, <2>8 DEF LaPagina, Pag
      <4> QED BY <2>7, <2>10, <3>2, <4>1, <4>2 DEF TrasVolver
    <3>4. Orden(t, -1, {}) /\ CompartidosEn(t) \subseteq CompartidosEn(a)
      BY <2>1, <2>3, <2>9, <3>1, <3>3, VolverOrden
    <3>5. Orden(y, -1, {}) /\ CompartidosEn(y) = CompartidosEn(t)
      BY <2>12, <3>4, AparteIgual, OrdenIgual
    <3>6. HayPagina(y, s, k) /\ LaPagina(y, s, k).marco = x
      BY <2>11, <2>13, <3>3 DEF TrasVolver, HayPagina, LaPagina, Pag, PaginasDe
    <3>7. \A r \in Slots : y.tablas[r].tiene = a.tablas[r].tiene
      BY <2>1, <2>10, <2>13 DEF MismaForma
    <3> QED BY <2>1, <3>4, <3>5, <3>6, <3>7
  <2> QED BY <2>2, <2>13, <2>14 DEF TrasRonda
<1> QED BY <1>4, <1>5, <1>6

----------------------------------------------------------------------------
(* The requests, one step at a time.                                       *)

Tarea ==
    [op: {"nada", "alloc", "get", "cpy"}, s: Slots, n: Nat, dir: Nat, v: Valores \cup {"cero"},
     k: Nat, hecho: Nat, resta: Int, leido: Seq(Byte)]
TareaBien ==
    tarea \in Tarea /\ tarea.hecho <= tarea.n /\ (tarea.op = "cpy" => tarea.v \in Valores)

\* What the programs see.
OtrosBien ==
    /\ programa \in [Slots -> {"ausente", "conectado", "listo"}]
    /\ bloques \in [Slots -> SUBSET Bloque]
    /\ respuesta.res \in {-1, 0}
    /\ pedidos \in 0..MaxPedidos

\* The segment that the request in hand creates or extends.
EnObra == IF tarea.op = "alloc" THEN {tarea.s} ELSE {}
Reservada ==
    tarea.op = "alloc" =>
        LET t == m.tablas[tarea.s]
        IN  /\ t.tiene /\ t.paginas # <<>> /\ t.heaps # <<>>
            /\ t.enLista /\ tarea.resta <= 0 => Len(t.heaps) >= 2
ListosConTabla == \A s \in Slots : programa[s] = "listo" => m.tablas[s].tiene

\* The inductive invariant.
MuseInv ==
    /\ m \in Memoria /\ TareaBien /\ OtrosBien
    /\ m.caida = "no" => Orden(m, -1, EnObra) /\ ListosConTabla /\ Reservada

\* What a step does to the frames that two pages share.
SinNuevos ==
    m'.caida = "no" =>
        \/ CompartidosEn(m') \subseteq CompartidosEn(m)
        \/ tarea'.op = "alloc" /\ Avanza(m, m', tarea'.s)

\* A segment in the list of its program is no longer under construction.
LEMMA OrdenEnLista ==
    ASSUME NEW a, NEW s \in Slots, Orden(a, -1, {s}), a.tablas[s].enLista
    PROVE  Orden(a, -1, {})
<1>1. EnListas(a, {})
  BY DEF Orden, EnListas
<1> QED BY <1>1 DEF Orden

EnLista(a, s) == [a EXCEPT !.tablas[s].enLista = TRUE]
LEMMA ListaHace ==
    ASSUME NEW a \in Memoria, NEW s \in Slots, Orden(a, -1, {s}), a.tablas[s].tiene,
           PaginasDe(a, s) # <<>>, a.tablas[s].heaps # <<>>, NEW b, b = EnLista(a, s)
    PROVE  /\ b \in Memoria /\ Orden(b, -1, {}) /\ CompartidosEn(b) = CompartidosEn(a)
           /\ b.caida = a.caida /\ \A r \in Slots : b.tablas[r].tiene = a.tablas[r].tiene
<1> DEFINE t == [a.tablas[s] EXCEPT !.enLista = TRUE]
<1>1. /\ t \in Segmento /\ t.paginas = a.tablas[s].paginas /\ t.heaps = a.tablas[s].heaps
      /\ t.tiene = a.tablas[s].tiene /\ t.enLista
  BY SegmentoEs DEF Segmento
<1>2. b = [a EXCEPT !.tablas[s] = t]
  BY DEF EnLista
<1> HIDE DEF t
<1>3. TrasTabla(a, s, t, b)
  BY <1>1, <1>2, TablaHace
<1>4. a.tablas \in [Slots -> Segmento]
  BY CampoEs
<1>5. \A r \in Slots : b.tablas[r] = IF r = s THEN t ELSE a.tablas[r]
  BY <1>3, <1>4 DEF TrasTabla
<1>6. \A r \in Slots : PaginasDe(b, r) = PaginasDe(a, r) /\ b.tablas[r].tiene = a.tablas[r].tiene
                       /\ b.tablas[r].heaps = a.tablas[r].heaps
  BY <1>1, <1>5 DEF PaginasDe
<1>7. EnListas(b, {})
  BY <1>1, <1>5, <1>6 DEF Orden, EnListas
<1>8. b.swap = a.swap /\ Libres(b) = Libres(a) /\ b \in Memoria /\ b.caida = a.caida
  BY <1>3 DEF TrasTabla
<1>9. Orden(b, -1, {}) /\ CompartidosEn(b) = CompartidosEn(a)
  BY <1>6, <1>7, <1>8, PaginasIguales
<1> QED BY <1>6, <1>8, <1>9

\* The bytes of a page in memory.
LEMMA LeidoTipo ==
    ASSUME NEW a \in Memoria, NEW s \in Slots, NEW k \in Int, HayPagina(a, s, k),
           LaPagina(a, s, k).marco \in Marcos
    PROVE  Leido(a, s, k) \in Seq(Byte)
<1> DEFINE f == LaPagina(a, s, k).marco
<1>1. f \in Nat /\ f <= NMarcos - 1 /\ PAG \in Nat /\ NMarcos \in Nat
  BY MuseAssumption DEF Marcos
<1> HIDE DEF f
<1>2. f * PAG \in Nat /\ f * PAG + PAG <= NMarcos * PAG
  <2>1. PICK z \in Nat : NMarcos = f + 1 + z
    <3>1. NMarcos - 1 - f \in Nat /\ NMarcos = f + 1 + (NMarcos - 1 - f)
      BY <1>1
    <3> QED BY <3>1
  <2>2. NMarcos * PAG = f * PAG + PAG + z * PAG
    BY <1>1, <2>1
  <2>3. z * PAG \in Nat /\ f * PAG \in Nat
    BY <1>1, <2>1
  <2> QED BY <1>1, <2>2, <2>3
<1>3. ASSUME NEW i \in 1..PAG PROVE a.mem[f * PAG + i - 1] \in Byte
  <2>1. NMarcos * PAG \in Int
    BY <1>1
  <2>2. f * PAG + i - 1 \in Direcciones
    BY <1>1, <1>2, <2>1 DEF Direcciones
  <2> QED BY <2>2, CampoEs
<1>4. Leido(a, s, k) = [i \in 1..PAG |-> a.mem[f * PAG + i - 1]]
  BY DEF Leido, Posicion, f
<1> QED BY <1>1, <1>3, <1>4

\* A step that leaves no segment under construction.
LEMMA PasoSinObra ==
    ASSUME MuseInv, m.caida = "no", tarea'.op # "alloc", TareaBien', OtrosBien', m' \in Memoria,
           m'.caida = "no" =>
             /\ Orden(m', -1, {}) /\ CompartidosEn(m') \subseteq CompartidosEn(m)
             /\ \A r \in Slots : m'.tablas[r].tiene = m.tablas[r].tiene,
           \A s \in Slots : programa'[s] = "listo" => programa[s] = "listo"
    PROVE  MuseInv' /\ SinNuevos
<1>1. EnObra' = {} /\ Reservada'
  BY DEF EnObra, Reservada
<1>2. ASSUME m'.caida = "no" PROVE ListosConTabla'
  BY <1>2 DEF MuseInv, ListosConTabla
<1> QED BY <1>1, <1>2 DEF MuseInv, SinNuevos

LEMMA PasoQuieto ==
    ASSUME MuseInv, m.caida = "no", Orden(m, -1, {}), tarea'.op # "alloc",
           TrasNada(m, m'), TareaBien', OtrosBien',
           \A s \in Slots : programa'[s] = "listo" => programa[s] = "listo"
    PROVE  MuseInv' /\ SinNuevos
<1>1. m' \in Memoria
  BY DEF TrasNada
<1>2. ASSUME m'.caida = "no"
      PROVE  /\ Orden(m', -1, {}) /\ CompartidosEn(m') \subseteq CompartidosEn(m)
             /\ \A r \in Slots : m'.tablas[r].tiene = m.tablas[r].tiene
  <2>1. Orden(m', -1, {}) /\ Iguales(m, m')
    BY <1>2 DEF TrasNada
  <2>2. CompartidosEn(m') = CompartidosEn(m)
    BY <2>1, OrdenIgual
  <2> QED BY <2>1, <2>2 DEF Iguales
<1> QED BY <1>1, <1>2, PasoSinObra

\* A round of museget or musecpy.
LEMMA PasoRonda ==
    ASSUME MuseInv, m.caida = "no", tarea'.op # "alloc",
           NEW s \in Slots, NEW k, TrasRonda(m, s, k, m'), TareaBien', OtrosBien', programa' = programa
    PROVE  MuseInv' /\ SinNuevos
BY PasoSinObra DEF TrasRonda

\* A piece of musemalloc that puts a header.
LEMMA PasoUbicar ==
    ASSUME MuseInv, m.caida = "no", NEW s \in Slots, EnObra \subseteq {s}, m.tablas[s].tiene,
           m.tablas[s].enLista => m.tablas[s].heaps # <<>>,
           TrasUbicar(m, s, m'), TareaBien', OtrosBien', programa' = programa,
           tarea'.op = "alloc", tarea'.s = s
    PROVE  MuseInv' /\ SinNuevos
<1>1. m' \in Memoria /\ PaginasDe(m', s) # <<>> /\ m'.tablas[s].enLista = m.tablas[s].enLista
      /\ \A r \in Slots : m'.tablas[r].tiene = m.tablas[r].tiene
  BY DEF TrasUbicar
<1>2. ASSUME m'.caida = "no"
      PROVE  Orden(m', -1, EnObra') /\ ListosConTabla' /\ Reservada' /\ Avanza(m, m', s)
  <2>1. Orden(m, -1, {s}) /\ EnObra' = {s}
    BY OrdenDebil DEF MuseInv, EnObra
  <2>2. Len(m'.tablas[s].heaps) = Len(m.tablas[s].heaps) + 1 /\ Orden(m', -1, {s}) /\ Avanza(m, m', s)
    BY <1>2, <2>1 DEF TrasUbicar
  <2>3. ListosConTabla'
    BY <1>1 DEF MuseInv, ListosConTabla
  <2>4. /\ m.tablas[s].heaps \in Seq(Heap) /\ m'.tablas[s].heaps \in Seq(Heap)
    BY <1>1, SegmentoEs DEF MuseInv
  <2>5. m'.tablas[s].heaps # <<>> /\ (m.tablas[s].enLista => Len(m'.tablas[s].heaps) >= 2)
    BY SMTT(60), <2>2, <2>4, EmptySeq, LenProperties
  <2>6. Reservada'
    BY <1>1, <2>5 DEF Reservada, PaginasDe
  <2> QED BY <2>1, <2>2, <2>3, <2>6
<1> QED BY <1>1, <1>2 DEF MuseInv, SinNuevos

LEMMA NingunaBien == Ninguna \in Tarea /\ Ninguna.hecho <= Ninguna.n /\ Ninguna.op = "nada"
<1>1. 0 \in Slots /\ <<>> \in Seq(Byte)
  BY Numeros DEF Slots
<1> QED BY <1>1 DEF Ninguna, Tarea

LEMMA ArranqueTipo == Arranque \in Memoria
<1>1. /\ 0 \in Marcos /\ <<"cero", 0>> \in Byte
      /\ [uso |-> 0, mod |-> 0, libre |-> TRUE] \in Marco
  BY Numeros DEF Marcos, Byte, Marco
<1>2. Tira("cero", 0, PAG) \in Seq(Byte)
  BY TiraTipo, Numeros
<1>3. SinSegmento \in Segmento
  BY DEF SinSegmento, Segmento
<1> QED BY <1>1, <1>2, <1>3 DEF Arranque, Memoria, Caidas

LEMMA ArranqueOrden == Orden(Arranque, -1, {})
<1> DEFINE a == Arranque
<1>1. \A s \in Slots : PaginasDe(a, s) = <<>> /\ ~ a.tablas[s].enLista
  BY DEF Arranque, PaginasDe, SinSegmento
<1>2. a.swap = {} /\ Libres(a) = Marcos
  BY DEF Arranque, Libres
<1> HIDE DEF a
<1>3. \A s \in Slots : DOMAIN PaginasDe(a, s) = {}
  BY <1>1
<1>4. Ubicadas(a, -1) /\ SwapExacto(a) /\ Llena(a, -1)
  BY <1>2, <1>3 DEF Ubicadas, SwapExacto, Llena
<1>5. ConPag(a, -1) /\ EnListas(a, {})
  BY <1>1, <1>2 DEF ConPag, EnListas
<1> QED BY <1>4, <1>5 DEF Orden, a

LEMMA InicioBien == Init => MuseInv
<1> SUFFICES ASSUME Init PROVE MuseInv
  OBVIOUS
<1>1. m = Arranque /\ tarea = Ninguna
  BY DEF Init
<1>2. m \in Memoria /\ Orden(m, -1, {})
  BY <1>1, ArranqueTipo, ArranqueOrden
<1>3. TareaBien /\ tarea.op = "nada"
  BY <1>1, NingunaBien DEF TareaBien
<1>4. OtrosBien
  BY PedidosAssumption DEF Init, OtrosBien, SinRespuesta
<1>5. ListosConTabla
  BY DEF Init, ListosConTabla
<1>6. EnObra = {} /\ Reservada
  BY <1>3 DEF EnObra, Reservada
<1> QED BY <1>2, <1>3, <1>4, <1>5, <1>6 DEF MuseInv

LEMMA LlamarBien ==
    ASSUME MuseInv, Llamar
    PROVE  /\ tarea = Ninguna /\ tarea.op = "nada" /\ m.caida = "no" /\ pedidos' \in 0..MaxPedidos
           /\ m \in Memoria /\ Orden(m, -1, {})
<1>1. tarea = Ninguna /\ tarea.op = "nada" /\ m.caida = "no" /\ pedidos' \in 0..MaxPedidos
  BY NingunaBien, PedidosAssumption DEF Llamar, MuseInv, OtrosBien
<1> QED BY <1>1 DEF MuseInv, EnObra

LEMMA MismaNada ==
    ASSUME NEW a \in Memoria
    PROVE  TrasNada(a, a)
BY DEF TrasNada, Iguales

LEMMA ClientesNada ==
    ASSUME NEW a \in Memoria, NEW x \in SUBSET Slots, NEW b, b = [a EXCEPT !.clientes = x]
    PROVE  TrasNada(a, b)
<1>1. b \in Memoria
  BY CampoTipo
<1>2. b.tablas = a.tablas /\ b.swap = a.swap /\ b.marcos = a.marcos /\ b.caida = a.caida
  BY DEF Memoria
<1>3. Iguales(a, b)
  BY <1>2 DEF Iguales, Libres, PaginasDe
<1>4. Orden(a, -1, {}) => Orden(b, -1, {})
  BY <1>3, OrdenIgual
<1> QED BY <1>1, <1>2, <1>3, <1>4 DEF TrasNada

LEMMA AceptarBien ==
    ASSUME MuseInv, Aceptar
    PROVE  MuseInv' /\ SinNuevos
<1> DEFINE s == Menor(Slots \ m.clientes)
<1>1. /\ tarea = Ninguna /\ tarea.op = "nada" /\ m.caida = "no" /\ pedidos' \in 0..MaxPedidos
      /\ m \in Memoria /\ Orden(m, -1, {})
  BY LlamarBien DEF Aceptar
<1>2. m \in Memoria /\ m.clientes \subseteq Slots
  BY CampoEs DEF MuseInv
<1>3. s \in Slots
  <2>1. Slots \ m.clientes # {} /\ Slots \ m.clientes \subseteq Nat
    BY <1>2, Numeros DEF Aceptar
  <2> QED BY <2>1, MenorEsMenor
<1>4. /\ m' = [m EXCEPT !.clientes = m.clientes \cup {s}]
      /\ programa' = [programa EXCEPT ![s] = "conectado"]
      /\ tarea' = tarea /\ bloques' = bloques /\ respuesta' = respuesta
  BY DEF Aceptar
<1> HIDE DEF s
<1>5. TrasNada(m, m')
  BY <1>2, <1>3, <1>4, ClientesNada
<1>6. TareaBien'
  BY <1>4 DEF MuseInv, TareaBien
<1>7. OtrosBien'
  BY <1>1, <1>3, <1>4 DEF MuseInv, OtrosBien
<1>8. \A r \in Slots : programa'[r] = "listo" => programa[r] = "listo"
  BY <1>4 DEF MuseInv, OtrosBien
<1> QED BY <1>1, <1>4, <1>5, <1>6, <1>7, <1>8, PasoQuieto

LEMMA MuseCloseBien ==
    ASSUME MuseInv, NEW s \in Slots, MuseClose(s)
    PROVE  MuseInv' /\ SinNuevos
<1>1. /\ tarea = Ninguna /\ tarea.op = "nada" /\ m.caida = "no" /\ pedidos' \in 0..MaxPedidos
      /\ m \in Memoria /\ Orden(m, -1, {})
  BY LlamarBien DEF MuseClose
<1>2. m \in Memoria /\ m.clientes \subseteq Slots
  BY CampoEs DEF MuseInv
<1>3. /\ m' = [m EXCEPT !.clientes = m.clientes \ {s}]
      /\ programa' = [programa EXCEPT ![s] = "ausente"]
      /\ bloques' = [bloques EXCEPT ![s] = {}]
      /\ tarea' = tarea /\ respuesta' = respuesta
  BY DEF MuseClose
<1>4. TrasNada(m, m')
  BY <1>2, <1>3, ClientesNada
<1>5. TareaBien'
  BY <1>3 DEF MuseInv, TareaBien
<1>6. OtrosBien'
  BY <1>1, <1>3 DEF MuseInv, OtrosBien
<1>7. \A r \in Slots : programa'[r] = "listo" => programa[r] = "listo"
  BY <1>3 DEF MuseInv, OtrosBien
<1> QED BY <1>1, <1>3, <1>4, <1>5, <1>6, <1>7, PasoQuieto

\* The table of a program that has none.
TablaPuesta(a, s) == [a EXCEPT !.tablas[s] = ConTabla(a.tablas[s])]
LEMMA ConTablaHace ==
    ASSUME NEW a \in Memoria, NEW s \in Slots, Orden(a, -1, {}), NEW b, b = TablaPuesta(a, s)
    PROVE  /\ b \in Memoria /\ Orden(b, -1, {}) /\ CompartidosEn(b) = CompartidosEn(a)
           /\ b.tablas[s].tiene
           /\ \A r \in Slots : a.tablas[r].tiene => b.tablas[r].tiene
<1> DEFINE t == ConTabla(a.tablas[s])
<1>1. a.tablas[s] \in Segmento /\ a.tablas[s].tiene \in BOOLEAN
  BY SegmentoEs
<1>2. /\ t \in Segmento /\ t.tiene = TRUE
      /\ \/ t = a.tablas[s]
         \/ t.paginas = <<>> /\ ~ t.enLista /\ ~ a.tablas[s].tiene
  <2>1. CASE a.tablas[s].tiene
    BY <1>1, <2>1 DEF ConTabla
  <2>2. CASE ~ a.tablas[s].tiene
    <3>1. t = [tiene |-> TRUE, enLista |-> FALSE, paginas |-> <<>>, heaps |-> <<>>, tam |-> 0]
      BY <2>2 DEF ConTabla, SinSegmento
    <3>2. <<>> \in Seq(Pagina) /\ <<>> \in Seq(Heap)
      BY EmptySeq
    <3> HIDE DEF t
    <3>3. t \in Segmento
      BY <3>1, <3>2 DEF Segmento
    <3> QED BY <2>2, <3>1, <3>3
  <2> QED BY <2>1, <2>2
<1> HIDE DEF t
<1>3. TrasTabla(a, s, t, b)
  BY <1>2, TablaHace DEF t, TablaPuesta
<1>4. a.tablas \in [Slots -> Segmento]
  BY CampoEs
<1>5. \A r \in Slots : b.tablas[r] = IF r = s THEN t ELSE a.tablas[r]
  BY <1>3, <1>4 DEF TrasTabla
<1>6. ~ a.tablas[s].tiene => PaginasDe(a, s) = <<>>
  BY DEF Orden, EnListas
<1>7. \A r \in Slots : PaginasDe(b, r) = PaginasDe(a, r)
  BY <1>2, <1>5, <1>6 DEF PaginasDe
<1>8. EnListas(b, {})
  BY <1>2, <1>5, <1>6, <1>7 DEF Orden, EnListas
<1>9. b.swap = a.swap /\ Libres(b) = Libres(a) /\ b \in Memoria
  BY <1>3 DEF TrasTabla
<1>10. Orden(b, -1, {}) /\ CompartidosEn(b) = CompartidosEn(a)
  BY <1>7, <1>8, <1>9, PaginasIguales
<1> QED BY <1>2, <1>5, <1>9, <1>10

LEMMA MuseInitBien ==
    ASSUME MuseInv, NEW s \in Slots, MuseInit(s)
    PROVE  MuseInv' /\ SinNuevos
<1>1. /\ tarea = Ninguna /\ tarea.op = "nada" /\ m.caida = "no" /\ pedidos' \in 0..MaxPedidos
      /\ m \in Memoria /\ Orden(m, -1, {})
  BY LlamarBien DEF MuseInit
<1>2. /\ m' = TablaPuesta(m, s)
      /\ programa' = [programa EXCEPT ![s] = "listo"]
      /\ tarea' = tarea /\ bloques' = bloques /\ respuesta' = respuesta
  BY DEF MuseInit, TablaPuesta
<1>3. m \in Memoria /\ Orden(m, -1, {}) /\ EnObra' = {}
  BY <1>1, <1>2 DEF MuseInv, EnObra
<1>4. /\ m' \in Memoria /\ Orden(m', -1, {}) /\ CompartidosEn(m') = CompartidosEn(m)
      /\ m'.tablas[s].tiene /\ \A r \in Slots : m.tablas[r].tiene => m'.tablas[r].tiene
  BY <1>2, <1>3, ConTablaHace
<1>5. TareaBien'
  BY <1>2 DEF MuseInv, TareaBien
<1>6. OtrosBien'
  BY <1>1, <1>2 DEF MuseInv, OtrosBien
<1>7. ListosConTabla'
  BY <1>1, <1>2, <1>4 DEF MuseInv, OtrosBien, ListosConTabla
<1>8. Reservada'
  BY <1>1, <1>2 DEF Reservada
<1> QED BY <1>3, <1>4, <1>5, <1>6, <1>7, <1>8 DEF MuseInv, SinNuevos

LEMMA ReposoBien ==
    ASSUME MuseInv, tarea' = Ninguna
    PROVE  TareaBien' /\ tarea'.op # "alloc"
BY NingunaBien DEF TareaBien

\* The answer of an alloc, whose address is one of the memory if the server is up.
LEMMA EntregarBien ==
    ASSUME MuseInv, NEW a, NEW s \in Slots, NEW n \in Nat, NEW dir, a.caida = "no" => dir \in Nat,
           Entregar(a, s, n, dir), programa' = programa, pedidos' \in 0..MaxPedidos
    PROVE  m' = a /\ TareaBien' /\ tarea'.op # "alloc" /\ OtrosBien'
<1>1. m' = a /\ tarea' = Ninguna
  BY DEF Entregar
<1>2. CASE a.caida # "no"
  <2>1. bloques' = bloques /\ respuesta' = respuesta
    BY <1>2 DEF Entregar
  <2>2. OtrosBien'
    BY <2>1 DEF MuseInv, OtrosBien
  <2> QED BY <1>1, <2>2, ReposoBien
<1>3. CASE a.caida = "no"
  <2> DEFINE x == [dir |-> dir, n |-> n, valor |-> "cero"]
  <2>1. x \in Bloque
    BY <1>3 DEF Bloque
  <2>2. bloques' = [bloques EXCEPT ![s] = bloques[s] \cup {x}] /\ respuesta'.res = 0
    BY <1>3 DEF Entregar
  <2> HIDE DEF x
  <2>3. OtrosBien'
    BY <2>1, <2>2 DEF MuseInv, OtrosBien
  <2> QED BY <1>1, <2>3, ReposoBien
<1> QED BY <1>2, <1>3

LEMMA PosicionNat ==
    ASSUME NEW a \in Memoria, NEW s \in Slots, NEW k \in Int, HayPagina(a, s, k),
           LaPagina(a, s, k).marco \in Marcos
    PROVE  Posicion(a, s, k) \in Nat
<1>1. LaPagina(a, s, k).marco \in Nat /\ PAG \in Nat
  BY Numeros
<1>2. LaPagina(a, s, k).marco * PAG \in Nat
  BY <1>1
<1> QED BY <1>2 DEF Posicion

LEMMA EntregarDatosBien ==
    ASSUME MuseInv, m.caida = "no", Orden(m, -1, {}), NEW s \in Slots, NEW n \in Nat, NEW h \in Heap,
           EntregarDatos(m, s, n, h), programa' = programa, pedidos' \in 0..MaxPedidos
    PROVE  MuseInv' /\ SinNuevos
<1> DEFINE k == PaginaDatos(h)
           b == ObtenerPosicion(m, s, k)
           dir == Posicion(b, s, k) + InicioDatos(h)
<1>1. k \in Int /\ (h.dir % PAG) \in Nat /\ HM - h.bytes \in Nat /\ HM \in Nat
  BY EnPaginaEs, Numeros
<1>2. Entregar(b, s, n, dir)
  BY DEF EntregarDatos
<1>3. m \in Memoria
  BY DEF MuseInv
<1>4. TrasNada(m, b)
  BY <1>1, <1>3, PosicionNada
<1>5. ASSUME b.caida = "no" PROVE dir \in Nat
  <2>1. b = m /\ HayPagina(m, s, k) /\ LaPagina(m, s, k).marco \in Marcos
    BY <1>1, <1>3, <1>5, ObtenerPosicionNada
  <2>2. Posicion(b, s, k) \in Nat
    BY <1>1, <1>3, <2>1, PosicionNat
  <2>3. InicioDatos(h) \in Nat
    BY <1>1 DEF InicioDatos
  <2> QED BY <2>2, <2>3
<1> HIDE DEF b, dir
<1>6. m' = b /\ TareaBien' /\ tarea'.op # "alloc" /\ OtrosBien'
  BY <1>2, <1>5, EntregarBien
<1> QED BY <1>4, <1>6, PasoQuieto

LEMMA ReservandoBien ==
    ASSUME NEW s \in Slots, NEW n \in Nat, NEW r \in Int, tarea' = Reservando(s, n, r)
    PROVE  TareaBien' /\ tarea'.op = "alloc" /\ tarea'.s = s /\ tarea'.resta = r
<1>1. <<>> \in Seq(Byte)
  OBVIOUS
<1>2. tarea' = [op |-> "alloc", s |-> s, n |-> n, dir |-> 0, v |-> "cero", k |-> 0, hecho |-> 0,
                resta |-> r, leido |-> <<>>]
  BY DEF Reservando, Ninguna
<1> QED BY <1>1, <1>2 DEF TareaBien, Tarea

LEMMA CrearBien ==
    ASSUME MuseInv, Llamar, NEW s \in Slots, NEW n \in Nat, programa[s] = "listo", programa' = programa,
           CrearSegmento(s, n)
    PROVE  MuseInv' /\ SinNuevos
<1>1. /\ tarea = Ninguna /\ tarea.op = "nada" /\ m.caida = "no" /\ pedidos' \in 0..MaxPedidos
      /\ m \in Memoria /\ Orden(m, -1, {})
  BY LlamarBien
<1>2. /\ ~ m.tablas[s].enLista /\ m' = PrimeraPagina(m, s, n)
      /\ tarea' = Reservando(s, n, RestaCrear(m', s, n))
      /\ bloques' = bloques /\ respuesta' = respuesta
  BY DEF CrearSegmento
<1>3. TrasUbicar(m, s, m')
  BY <1>1, <1>2, PrimeraPaginaHace
<1>4. RestaCrear(m', s, n) \in Int
  <2>1. Len(PaginasDe(m', s)) \in Int /\ PAG \in Int /\ HM \in Int
    BY <1>3, SegmentoEs, LenProperties, Numeros DEF TrasUbicar
  <2>2. Len(PaginasDe(m', s)) * PAG \in Int
    BY <2>1
  <2> QED BY <2>1, <2>2 DEF RestaCrear
<1>5. TareaBien' /\ tarea'.op = "alloc" /\ tarea'.s = s
  BY <1>2, <1>4, ReservandoBien
<1>6. OtrosBien'
  BY <1>1, <1>2 DEF MuseInv, OtrosBien
<1>7. m.tablas[s].tiene /\ EnObra = {}
  BY <1>1 DEF MuseInv, ListosConTabla, EnObra
<1> QED BY <1>1, <1>2, <1>3, <1>5, <1>6, <1>7, PasoUbicar

LEMMA ReusarBien ==
    ASSUME MuseInv, Llamar, NEW s \in Slots, NEW n \in Nat, programa' = programa, Reusar(s, n)
    PROVE  MuseInv' /\ SinNuevos
<1> DEFINE J == {j \in DOMAIN Headers(m, s) : Headers(m, s)[j].libre /\ Headers(m, s)[j].size >= n}
<1>1. /\ m.caida = "no" /\ pedidos' \in 0..MaxPedidos /\ m \in Memoria /\ Orden(m, -1, {})
  BY LlamarBien
<1>2. Headers(m, s) \in Seq(Heap)
  BY <1>1, SegmentoEs DEF Headers
<1>3. Menor(J) \in J
  <2>1. PICK j \in DOMAIN Headers(m, s) : Cabe(Headers(m, s)[j], n)
    BY DEF Reusar, Reusa
  <2>2. Headers(m, s)[j] \in Heap
    BY <1>2, ElementOfSeq
  <2>3. Headers(m, s)[j].size \in Nat /\ HM = 5
    BY <2>2, Numeros DEF Heap
  <2>4. j \in J
    BY <2>1, <2>3 DEF Cabe
  <2>5. J \subseteq Nat
    BY <1>2, LenProperties
  <2> HIDE DEF J
  <2> QED BY <2>4, <2>5, MenorEsMenor
<1>4. Reusado(m, s, n) \in Heap
  <2>1. Headers(m, s)[Menor(J)] \in Heap
    BY <1>2, <1>3, ElementOfSeq
  <2> QED BY <2>1 DEF Reusado
<1>5. EntregarDatos(m, s, n, Reusado(m, s, n))
  BY DEF Reusar
<1> QED BY <1>1, <1>4, <1>5, EntregarDatosBien

LEMMA ExtenderBien ==
    ASSUME MuseInv, Llamar, NEW s \in Slots, NEW n \in Nat, programa' = programa, ExtenderSegmento(s, n)
    PROVE  MuseInv' /\ SinNuevos
<1>1. /\ tarea = Ninguna /\ tarea.op = "nada" /\ m.caida = "no" /\ pedidos' \in 0..MaxPedidos
      /\ m \in Memoria /\ Orden(m, -1, {})
  BY LlamarBien
<1>2. /\ m.tablas[s].enLista /\ ~ Reusa(m, s, n) /\ m' = OcuparUltimo(m, s, n)
      /\ tarea' = Reservando(s, n, RestaExtender(m, s, n))
      /\ bloques' = bloques /\ respuesta' = respuesta
  BY DEF ExtenderSegmento
<1>3. m.tablas[s].tiene /\ PaginasDe(m, s) # <<>> /\ m.tablas[s].heaps # <<>>
  BY <1>1, <1>2 DEF Orden, EnListas
<1>4. /\ m' \in Memoria /\ Iguales(m, m') /\ m'.caida = m.caida
      /\ \A r \in Slots : Len(m'.tablas[r].heaps) = Len(m.tablas[r].heaps)
  BY <1>1, <1>2, <1>3, OcuparUltimoHace DEF Headers
<1>5. RestaExtender(m, s, n) \in Int /\ RestaExtender(m, s, n) > 0
  <2> DEFINE h == UltimoHeap(m, s)
  <2>1. Headers(m, s) \in Seq(Heap) /\ Headers(m, s) # <<>>
    BY <1>1, <1>3, SegmentoEs DEF Headers
  <2>2. Len(Headers(m, s)) \in DOMAIN Headers(m, s)
    BY <2>1, EmptySeq, LenProperties
  <2>3. h \in Heap
    BY <2>1, <2>2, ElementOfSeq DEF UltimoHeap
  <2>4. ~ Cabe(h, n)
    BY <1>2, <2>2 DEF Reusa, UltimoHeap
  <2> HIDE DEF h
  <2>5. h.size \in Nat /\ HM = 5 /\ (h.libre => h.size < n + HM)
    BY <2>3, <2>4, Numeros DEF Cabe, Heap
  <2> QED BY <2>5 DEF RestaExtender, h
<1>6. TareaBien' /\ tarea'.op = "alloc" /\ tarea'.s = s /\ tarea'.resta \in Int /\ tarea'.resta > 0
  BY <1>2, <1>5, ReservandoBien
<1>7. OtrosBien'
  BY <1>1, <1>2 DEF MuseInv, OtrosBien
<1>8. Orden(m', -1, {s}) /\ EnObra' = {s}
  <2>1. Orden(m, -1, {s})
    BY <1>1, OrdenDebil
  <2> QED BY <1>4, <1>6, <2>1, OrdenIgual DEF EnObra
<1>9. CompartidosEn(m') = CompartidosEn(m)
  BY <1>4, OrdenIgual
<1>10. ListosConTabla'
  BY <1>1, <1>4 DEF MuseInv, ListosConTabla, Iguales
<1>11. Reservada'
  <2>1. m'.tablas[s].heaps # <<>> /\ m'.tablas[s].tiene /\ PaginasDe(m', s) # <<>>
    BY <1>3, <1>4 DEF Iguales
  <2> QED BY <1>6, <2>1 DEF Reservada, PaginasDe
<1> QED BY <1>4, <1>6, <1>7, <1>8, <1>9, <1>10, <1>11 DEF MuseInv, SinNuevos

LEMMA MuseAllocBien ==
    ASSUME MuseInv, NEW s \in Slots, NEW n \in Tams, MuseAlloc(s, n)
    PROVE  MuseInv' /\ SinNuevos
<1>1. n \in Nat /\ Llamar /\ programa[s] = "listo" /\ programa' = programa
  BY PedidosAssumption DEF MuseAlloc
<1>2. CASE CrearSegmento(s, n)
  BY <1>1, <1>2, CrearBien
<1>3. CASE Reusar(s, n)
  BY <1>1, <1>3, ReusarBien
<1>4. CASE ExtenderSegmento(s, n)
  BY <1>1, <1>4, ExtenderBien
<1> QED BY <1>2, <1>3, <1>4 DEF MuseAlloc

\* The rounds of an alloc.
LEMMA EnAlloc ==
    ASSUME MuseInv, En("alloc")
    PROVE  /\ tarea.op = "alloc" /\ tarea.s \in Slots /\ m.caida = "no" /\ m \in Memoria
           /\ programa' = programa /\ pedidos' = pedidos /\ tarea \in Tarea /\ tarea.resta \in Int
           /\ Orden(m, -1, {tarea.s}) /\ EnObra = {tarea.s} /\ m.tablas[tarea.s].tiene
           /\ PaginasDe(m, tarea.s) # <<>> /\ m.tablas[tarea.s].heaps # <<>>
           /\ m.tablas[tarea.s].enLista /\ tarea.resta <= 0 => Len(m.tablas[tarea.s].heaps) >= 2
           /\ tarea.hecho <= tarea.n
<1>1. tarea.op = "alloc" /\ m.caida = "no" /\ programa' = programa /\ pedidos' = pedidos
  BY DEF En
<1>2. tarea \in Tarea /\ tarea.hecho <= tarea.n
  BY DEF MuseInv, TareaBien
<1>3. tarea.s \in Slots /\ tarea.resta \in Int
  BY <1>2 DEF Tarea
<1>4. Orden(m, -1, {tarea.s}) /\ EnObra = {tarea.s} /\ Reservada
  BY <1>1 DEF MuseInv, EnObra
<1> QED BY <1>1, <1>2, <1>3, <1>4 DEF MuseInv, Reservada, PaginasDe

LEMMA AgregarPaginaTablas ==
    ASSUME NEW a \in Memoria, NEW s \in Slots, NEW b, b = AgregarPagina(a, s), NEW r \in Slots
    PROVE  b.tablas[r].heaps = a.tablas[r].heaps /\ b.tablas[r].tiene = a.tablas[r].tiene
<1> DEFINE g == AsignarUnFrame(a)
<1>1. MismaForma(a, g)
  BY AsignarForma
<1>2. TrasAgregar(g, s, b)
  BY AgregarPaginaHace
<1> HIDE DEF g
<1> QED BY <1>1, <1>2 DEF TrasAgregar, MismaForma

LEMMA RestaBien ==
    ASSUME tarea \in Tarea, tarea.op = "alloc", tarea.hecho <= tarea.n, NEW r \in Int,
           tarea' = [tarea EXCEPT !.resta = r]
    PROVE  TareaBien' /\ tarea'.op = "alloc" /\ tarea'.s = tarea.s /\ tarea'.resta = r
BY DEF TareaBien, Tarea

LEMMA AsignarNuevaPaginaBien ==
    ASSUME MuseInv, AsignarNuevaPagina
    PROVE  MuseInv' /\ SinNuevos
<1> DEFINE s == tarea.s
<1>1. /\ tarea.op = "alloc" /\ s \in Slots /\ m.caida = "no" /\ m \in Memoria
      /\ programa' = programa /\ pedidos' = pedidos /\ tarea \in Tarea /\ tarea.resta \in Int
      /\ Orden(m, -1, {s}) /\ EnObra = {s} /\ m.tablas[s].tiene /\ tarea.hecho <= tarea.n
      /\ m.tablas[s].heaps # <<>>
  BY EnAlloc DEF AsignarNuevaPagina
<1>2. /\ tarea.resta > PAG /\ m' = AgregarPagina(m, s) /\ tarea' = [tarea EXCEPT !.resta = tarea.resta - PAG]
      /\ bloques' = bloques /\ respuesta' = respuesta
  BY DEF AsignarNuevaPagina
<1>3. tarea.resta - PAG \in Int /\ tarea.resta - PAG > 0
  BY <1>1, <1>2, Numeros
<1>4. TareaBien' /\ tarea'.op = "alloc" /\ tarea'.s = s /\ tarea'.resta \in Int /\ tarea'.resta > 0
  BY <1>1, <1>2, <1>3, RestaBien
<1>5. OtrosBien'
  BY <1>1, <1>2 DEF MuseInv, OtrosBien
<1> HIDE DEF s
<1>6. /\ m' \in Memoria /\ Len(PaginasDe(m', s)) = Len(PaginasDe(m, s)) + 1
      /\ \A r \in Slots :
           m'.tablas[r].heaps = m.tablas[r].heaps /\ m'.tablas[r].tiene = m.tablas[r].tiene
  <2>1. m \in Memoria /\ s \in Slots
    BY <1>1
  <2>2. m' = AgregarPagina(m, s)
    BY <1>2
  <2>3. m' \in Memoria
    BY <2>1, <2>2, AgregarPaginaTipo
  <2>4. Len(PaginasDe(m', s)) = Len(PaginasDe(m, s)) + 1
    BY <2>1, <2>2, AgregarPaginaTipo
  <2>5. \A r \in Slots :
          m'.tablas[r].heaps = m.tablas[r].heaps /\ m'.tablas[r].tiene = m.tablas[r].tiene
    BY <2>1, <2>2, AgregarPaginaTablas
  <2> QED BY <2>3, <2>4, <2>5
<1>7. PaginasDe(m', s) # <<>>
  BY <1>1, <1>6, SegmentoEs, EmptySeq, LenProperties
<1>8. ASSUME m'.caida = "no"
      PROVE  Orden(m', -1, EnObra') /\ ListosConTabla' /\ Reservada' /\ Avanza(m, m', s)
  <2>1. Orden(m', -1, {s}) /\ Avanza(m, m', s)
    BY <1>1, <1>2, <1>8, AgregarPaginaOrden
  <2>2. EnObra' = {s}
    BY <1>4 DEF EnObra
  <2>3. ListosConTabla'
    BY <1>1, <1>6 DEF MuseInv, ListosConTabla
  <2>4. m'.tablas[s].tiene /\ m'.tablas[s].heaps # <<>>
    BY <1>1, <1>6
  <2>5. Reservada'
    BY <1>4, <1>7, <2>4 DEF Reservada, PaginasDe
  <2> QED BY <2>1, <2>2, <2>3, <2>5
<1> QED BY <1>4, <1>5, <1>6, <1>8 DEF MuseInv, SinNuevos

LEMMA AsignarUltimaPaginaBien ==
    ASSUME MuseInv, AsignarUltimaPagina
    PROVE  MuseInv' /\ SinNuevos
<1> DEFINE s == tarea.s
<1>1. /\ tarea.op = "alloc" /\ s \in Slots /\ m.caida = "no" /\ m \in Memoria
      /\ programa' = programa /\ pedidos' = pedidos /\ tarea \in Tarea
      /\ EnObra = {s} /\ m.tablas[s].tiene /\ tarea.hecho <= tarea.n
      /\ m.tablas[s].heaps # <<>> /\ PaginasDe(m, s) # <<>>
  BY EnAlloc DEF AsignarUltimaPagina
<1>2. /\ tarea.resta \in 1..PAG /\ m' = CerrarSegmento(m, s, tarea.resta)
      /\ tarea' = [tarea EXCEPT !.resta = 0]
      /\ bloques' = bloques /\ respuesta' = respuesta
  BY DEF AsignarUltimaPagina
<1>3. TareaBien' /\ tarea'.op = "alloc" /\ tarea'.s = s
  BY <1>1, <1>2, RestaBien
<1>4. OtrosBien'
  BY <1>1, <1>2 DEF MuseInv, OtrosBien
<1> HIDE DEF s
<1>5. TrasUbicar(m, s, m')
  BY <1>1, <1>2, CerrarSegmentoHace
<1> QED BY <1>1, <1>3, <1>4, <1>5, PasoUbicar

LEMMA ContestarAllocBien ==
    ASSUME MuseInv, ContestarAlloc
    PROVE  MuseInv' /\ SinNuevos
<1> DEFINE s == tarea.s
           h == Headers(m, s)[Len(Headers(m, s)) - 1]
           x == EnLista(m, s)
           a == ObtenerPosicion(x, s, 0)
           dir == Posicion(a, s, 0) + HM
<1>1. /\ s \in Slots /\ m.caida = "no" /\ m \in Memoria
      /\ programa' = programa /\ pedidos' = pedidos /\ tarea \in Tarea
      /\ Orden(m, -1, {s}) /\ m.tablas[s].tiene
      /\ m.tablas[s].heaps # <<>> /\ PaginasDe(m, s) # <<>> /\ tarea.resta <= 0
      /\ (m.tablas[s].enLista => Len(m.tablas[s].heaps) >= 2)
  BY EnAlloc DEF ContestarAlloc
<1>2. tarea.n \in Nat /\ pedidos' \in 0..MaxPedidos
  BY <1>1 DEF Tarea, MuseInv, OtrosBien
<1>3. IF m.tablas[s].enLista THEN EntregarDatos(m, s, tarea.n, h) ELSE Entregar(a, s, tarea.n, dir)
  BY DEF ContestarAlloc, EnLista
<1> HIDE DEF s, x
<1>4. CASE m.tablas[s].enLista
  <2>1. Orden(m, -1, {})
    BY <1>1, <1>4, OrdenEnLista
  <2>2. h \in Heap
    <3>1. Headers(m, s) \in Seq(Heap) /\ Len(Headers(m, s)) >= 2
      BY <1>1, <1>4, SegmentoEs DEF Headers
    <3>2. Len(Headers(m, s)) - 1 \in DOMAIN Headers(m, s)
      BY <3>1, LenProperties
    <3> QED BY <3>1, <3>2, ElementOfSeq
  <2> HIDE DEF h
  <2>3. EntregarDatos(m, s, tarea.n, h)
    BY <1>3, <1>4
  <2> QED BY <1>1, <1>2, <2>1, <2>2, <2>3, EntregarDatosBien
<1>5. CASE ~ m.tablas[s].enLista
  <2>1. /\ x \in Memoria /\ Orden(x, -1, {}) /\ CompartidosEn(x) = CompartidosEn(m)
        /\ \A r \in Slots : x.tablas[r].tiene = m.tablas[r].tiene
    BY <1>1, ListaHace DEF x
  <2>2. a \in Memoria
    BY <2>1, <1>1, ObtenerPosicionTipo
  <2>3. ASSUME a.caida = "no" PROVE a = x /\ dir \in Nat
    <3>1. a = x /\ HayPagina(x, s, 0) /\ LaPagina(x, s, 0).marco \in Marcos
      BY <1>1, <2>1, <2>3, ObtenerPosicionNada
    <3>2. Posicion(x, s, 0) \in Nat
      BY <1>1, <2>1, <3>1, PosicionNat
    <3> QED BY <3>1, <3>2, Numeros
  <2>4. Entregar(a, s, tarea.n, dir)
    BY <1>3, <1>5
  <2> HIDE DEF a, dir
  <2>5. m' = a /\ TareaBien' /\ tarea'.op # "alloc" /\ OtrosBien'
    BY <1>1, <1>2, <2>3, <2>4, EntregarBien
  <2>6. /\ m' \in Memoria
        /\ m'.caida = "no" =>
             /\ Orden(m', -1, {}) /\ CompartidosEn(m') \subseteq CompartidosEn(m)
             /\ \A r \in Slots : m'.tablas[r].tiene = m.tablas[r].tiene
    BY <2>1, <2>2, <2>3, <2>5
  <2> QED BY <1>1, <2>5, <2>6, PasoSinObra
<1> QED BY <1>4, <1>5

----------------------------------------------------------------------------
(* museget, musecpy and musefree *)

LEMMA IgualBien ==
    ASSUME MuseInv, bloques' = bloques, programa' = programa, pedidos' \in 0..MaxPedidos,
           respuesta'.res \in {-1, 0}
    PROVE  OtrosBien'
BY DEF MuseInv, OtrosBien

LEMMA MuseGetBien ==
    ASSUME MuseInv, NEW s \in Slots, NEW b \in Bloque, MuseGet(s, b)
    PROVE  MuseInv' /\ SinNuevos
<1>1. /\ tarea = Ninguna /\ tarea.op = "nada" /\ m.caida = "no" /\ pedidos' \in 0..MaxPedidos
      /\ m \in Memoria /\ Orden(m, -1, {})
  BY LlamarBien DEF MuseGet
<1>2. programa' = programa /\ bloques' = bloques /\ respuesta' = respuesta
  BY DEF MuseGet
<1>3. OtrosBien'
  BY <1>1, <1>2 DEF MuseInv, OtrosBien
<1>4. CASE m' = m /\ tarea' = [Ninguna EXCEPT !.op = "get", !.s = s, !.n = b.n, !.dir = b.dir,
                                              !.k = b.dir \div PAG]
  <2>1. b.dir \in Nat /\ b.n \in Nat /\ b.dir \div PAG \in Nat
    BY Numeros DEF Bloque
  <2>2. <<>> \in Seq(Byte)
    OBVIOUS
  <2>3. tarea' = [op |-> "get", s |-> s, n |-> b.n, dir |-> b.dir, v |-> "cero", k |-> b.dir \div PAG,
                  hecho |-> 0, resta |-> 0, leido |-> <<>>]
    BY <1>4 DEF Ninguna
  <2>4. TareaBien' /\ tarea'.op # "alloc"
    BY <2>1, <2>2, <2>3 DEF TareaBien, Tarea
  <2> QED BY <1>1, <1>2, <1>3, <1>4, <2>4, MismaNada, PasoQuieto
<1>5. CASE m' = Caer(m, "nulo") /\ tarea' = tarea
  <2>1. TrasNada(m, m')
    BY <1>1, <1>5, CaerAparte, AparteNada DEF Caidas
  <2>2. TareaBien' /\ tarea'.op # "alloc"
    BY <1>1, <1>5 DEF MuseInv, TareaBien
  <2> QED BY <1>1, <1>2, <1>3, <2>1, <2>2, PasoQuieto
<1> QED BY <1>4, <1>5 DEF MuseGet

\* The requests whose handlers go round by round, when none is an alloc.
LEMMA EnRonda ==
    ASSUME MuseInv, NEW op \in {"get", "cpy"}, En(op)
    PROVE  /\ tarea.op = op /\ tarea.s \in Slots /\ m.caida = "no" /\ m \in Memoria /\ tarea \in Tarea
           /\ programa' = programa /\ pedidos' = pedidos /\ pedidos' \in 0..MaxPedidos
           /\ Orden(m, -1, {}) /\ tarea.hecho <= tarea.n
           /\ tarea.k \in Nat /\ tarea.n \in Nat /\ tarea.hecho \in Nat /\ tarea.leido \in Seq(Byte)
<1>1. tarea.op = op /\ m.caida = "no" /\ programa' = programa /\ pedidos' = pedidos
  BY DEF En
<1>2. tarea \in Tarea /\ tarea.hecho <= tarea.n /\ pedidos \in 0..MaxPedidos
  BY DEF MuseInv, TareaBien, OtrosBien
<1>3. tarea.s \in Slots /\ tarea.k \in Nat /\ tarea.n \in Nat /\ tarea.hecho \in Nat /\ tarea.leido \in Seq(Byte)
  BY <1>2 DEF Tarea
<1>4. EnObra = {}
  BY <1>1 DEF EnObra
<1>5. Orden(m, -1, {}) /\ m \in Memoria
  BY <1>1, <1>4 DEF MuseInv
<1> QED BY <1>1, <1>2, <1>3, <1>5

LEMMA LeerUnaPaginaBien ==
    ASSUME MuseInv, LeerUnaPagina
    PROVE  MuseInv' /\ SinNuevos
<1> DEFINE s == tarea.s
           k == tarea.k
           l == IF m'.caida # "no" THEN tarea.leido ELSE tarea.leido \o Leido(m', s, k)
<1>1. /\ tarea.op = "get" /\ s \in Slots /\ m.caida = "no" /\ m \in Memoria /\ tarea \in Tarea
      /\ programa' = programa /\ pedidos' \in 0..MaxPedidos
      /\ Orden(m, -1, {}) /\ tarea.hecho <= tarea.n
      /\ k \in Nat /\ tarea.leido \in Seq(Byte)
  BY EnRonda DEF LeerUnaPagina
<1>2. /\ m' = LeerPagina(m, s, k) /\ bloques' = bloques /\ respuesta' = respuesta
      /\ tarea' = [tarea EXCEPT !.k = tarea.k + 1, !.leido = l]
  BY DEF LeerUnaPagina
<1>3. TrasRonda(m, s, k, m')
  <2> HIDE DEF s, k
  <2> QED BY <1>1, <1>2, LeerPaginaHace
<1>4. l \in Seq(Byte)
  <2> HIDE DEF s, k
  <2>1. CASE m'.caida # "no"
    BY <1>1, <2>1
  <2>2. CASE m'.caida = "no"
    <3>1. m' \in Memoria /\ HayPagina(m', s, k) /\ LaPagina(m', s, k).marco \in Marcos
      BY <1>3, <2>2 DEF TrasRonda
    <3>2. Leido(m', s, k) \in Seq(Byte)
      BY <1>1, <3>1, LeidoTipo
    <3> QED BY <1>1, <2>2, <3>2, ConcatProperties
  <2> QED BY <2>1, <2>2
<1> HIDE DEF l
<1>5. TareaBien' /\ tarea'.op # "alloc"
  <2> DEFINE x == [tarea EXCEPT !.k = tarea.k + 1]
  <2>1. x \in Tarea /\ x.op = "get" /\ x.hecho <= x.n
    BY SMTT(60), <1>1 DEF Tarea
  <2>2. tarea' = [x EXCEPT !.leido = l]
    BY <1>2
  <2> HIDE DEF x
  <2>3. tarea' \in Tarea /\ tarea'.op = "get" /\ tarea'.hecho <= tarea'.n
    BY <1>4, <2>1, <2>2 DEF Tarea
  <2> QED BY <2>3 DEF TareaBien
<1>6. OtrosBien'
  BY <1>1, <1>2 DEF MuseInv, OtrosBien
<1> HIDE DEF s, k
<1> QED BY <1>1, <1>3, <1>5, <1>6, PasoRonda

LEMMA ContestarGetBien ==
    ASSUME MuseInv, ContestarGet
    PROVE  MuseInv' /\ SinNuevos
<1>1. m.caida = "no" /\ m \in Memoria /\ programa' = programa /\ pedidos' \in 0..MaxPedidos /\ Orden(m, -1, {})
  BY EnRonda DEF ContestarGet
<1>2. m' = m /\ bloques' = bloques /\ tarea' = Ninguna /\ respuesta'.res = 0
  BY DEF ContestarGet, Contestar
<1>3. OtrosBien'
  BY <1>1, <1>2, IgualBien
<1>4. TrasNada(m, m')
  BY <1>1, <1>2, MismaNada
<1> QED BY <1>1, <1>2, <1>3, <1>4, ReposoBien, PasoQuieto

LEMMA MuseCpyBien ==
    ASSUME MuseInv, NEW s \in Slots, NEW b \in Bloque, NEW v \in Valores, MuseCpy(s, b, v)
    PROVE  MuseInv' /\ SinNuevos
<1> DEFINE J == IF EnSegmento(m, s, b.dir) THEN Paradas(m, s, b.dir, b.n) ELSE {}
           h == Headers(m, s)[Menor(J)]
           e == EnPrimera(h, b.dir, b.n)
<1>1. /\ tarea = Ninguna /\ tarea.op = "nada" /\ m.caida = "no" /\ pedidos' \in 0..MaxPedidos
      /\ m \in Memoria /\ Orden(m, -1, {})
  BY LlamarBien DEF MuseCpy
<1>2. programa' = programa
  BY DEF MuseCpy
<1>3. b.dir \in Nat /\ b.n \in Nat
  BY DEF Bloque
<1>4. CASE J = {}
  <2>1. m' = m /\ tarea' = tarea /\ bloques' = bloques /\ respuesta'.res = -1
    BY <1>4 DEF MuseCpy, Contestar
  <2>2. OtrosBien' /\ TareaBien' /\ tarea'.op # "alloc"
    BY <1>1, <1>2, <2>1, IgualBien DEF MuseInv, TareaBien
  <2> QED BY <1>1, <1>2, <2>1, <2>2, MismaNada, PasoQuieto
<1>5. CASE J # {} /\ FaltaPagina(m, s, h, b.n)
  <2>1. m' = Caer(m, "nulo") /\ tarea' = tarea /\ bloques' = bloques /\ respuesta' = respuesta
    BY <1>5 DEF MuseCpy
  <2>2. OtrosBien' /\ TareaBien' /\ tarea'.op # "alloc"
    BY <1>1, <1>2, <2>1 DEF MuseInv, OtrosBien, TareaBien
  <2>3. TrasNada(m, m')
    BY <1>1, <2>1, CaerAparte, AparteNada DEF Caidas
  <2> QED BY <1>1, <1>2, <2>2, <2>3, PasoQuieto
<1>6. CASE J # {} /\ ~ FaltaPagina(m, s, h, b.n)
  <2>1. /\ m' = CopiarPrimera(m, s, h, b.dir, b.n, v)
        /\ tarea' = [Ninguna EXCEPT !.op = "cpy", !.s = s, !.n = b.n, !.dir = b.dir,
                        !.v = v, !.k = PaginaDatos(h) + 1, !.hecho = e]
        /\ Escrito(s, b, v) /\ respuesta' = respuesta
    BY <1>6 DEF MuseCpy
  <2>2. h \in Heap
    <3>1. Headers(m, s) \in Seq(Heap)
      BY <1>1, SegmentoEs DEF Headers
    <3>2. J \subseteq DOMAIN Headers(m, s) /\ J \subseteq Nat
      BY <3>1, LenProperties DEF Paradas
    <3> HIDE DEF J
    <3>3. Menor(J) \in J
      BY <1>6, <3>2, MenorEsMenor
    <3>4. Menor(J) \in DOMAIN Headers(m, s)
      BY <3>2, <3>3
    <3>5. \A x \in Seq(Heap) : \A i \in DOMAIN x : x[i] \in Heap
      BY LenProperties, ElementOfSeq
    <3> QED BY <3>1, <3>4, <3>5
  <2>3. HayPagina(m, s, PaginaDatos(h))
    BY <1>6 DEF FaltaPagina
  <2> HIDE DEF h
  <2>4. e \in 0..b.n /\ PaginaDatos(h) \in Nat
    BY <1>3, <2>2, EnPrimeraEs, EnPaginaEs
  <2>5. TrasNada(m, m')
    BY <1>1, <1>3, <2>1, <2>2, <2>3, CopiarPrimeraHace, AparteNada
  <2> HIDE DEF e
  <2>6. tarea' = [op |-> "cpy", s |-> s, n |-> b.n, dir |-> b.dir, v |-> v, k |-> PaginaDatos(h) + 1,
                  hecho |-> e, resta |-> 0, leido |-> <<>>]
    BY <2>1 DEF Ninguna
  <2>7. TareaBien' /\ tarea'.op # "alloc"
    <3>1. <<>> \in Seq(Byte) /\ PaginaDatos(h) + 1 \in Nat /\ e \in Nat /\ e <= b.n
      BY <1>3, <2>4
    <3> QED BY <1>3, <2>6, <3>1 DEF TareaBien, Tarea
  <2>8. OtrosBien'
    <3>1. [b EXCEPT !.valor = v] \in Bloque
      BY DEF Bloque
    <3>2. bloques' = [bloques EXCEPT ![s] = (bloques[s] \ {b}) \cup {[b EXCEPT !.valor = v]}]
      BY <2>1 DEF Escrito
    <3> QED BY <1>1, <1>2, <2>1, <3>1, <3>2 DEF MuseInv, OtrosBien
  <2> QED BY <1>1, <1>2, <2>5, <2>7, <2>8, PasoQuieto
<1> QED BY <1>4, <1>5, <1>6

LEMMA CopiarUnaPaginaBien ==
    ASSUME MuseInv, CopiarUnaPagina
    PROVE  MuseInv' /\ SinNuevos
<1> DEFINE s == tarea.s
           k == tarea.k
           c == Avance(tarea.hecho, tarea.n)
<1>1. /\ tarea.op = "cpy" /\ s \in Slots /\ m.caida = "no" /\ m \in Memoria /\ tarea \in Tarea
      /\ programa' = programa /\ pedidos' \in 0..MaxPedidos
      /\ Orden(m, -1, {}) /\ tarea.hecho <= tarea.n
      /\ k \in Nat /\ tarea.n \in Nat /\ tarea.hecho \in Nat
  BY EnRonda DEF CopiarUnaPagina
<1>2. /\ m' = CopiarPagina(m, s, k, tarea.v, tarea.hecho, tarea.n)
      /\ bloques' = bloques /\ respuesta' = respuesta
      /\ tarea' = [tarea EXCEPT !.k = tarea.k + 1, !.hecho = c]
  BY DEF CopiarUnaPagina
<1>3. tarea.v \in Valores
  BY <1>1 DEF MuseInv, TareaBien
<1>4. TrasRonda(m, s, k, m')
  <2> HIDE DEF s, k
  <2>1. k \in Int
    BY <1>1
  <2> QED BY <1>1, <1>2, <1>3, <2>1, CopiarPaginaHace
<1>5. c \in Nat /\ c <= tarea.n
  BY <1>1, Numeros DEF Avance
<1> HIDE DEF c
<1>6. TareaBien' /\ tarea'.op # "alloc"
  <2> DEFINE x == [tarea EXCEPT !.k = tarea.k + 1]
  <2>1. x \in Tarea /\ x.op = "cpy" /\ x.n = tarea.n /\ x.v = tarea.v
    BY SMTT(60), <1>1 DEF Tarea
  <2>2. tarea' = [x EXCEPT !.hecho = c]
    BY <1>2
  <2> HIDE DEF x
  <2>3. /\ tarea' \in Tarea /\ tarea'.op = "cpy" /\ tarea'.hecho = c /\ tarea'.n = tarea.n
        /\ tarea'.v = tarea.v
    BY <1>5, <2>1, <2>2 DEF Tarea
  <2> QED BY <1>3, <1>5, <2>3 DEF TareaBien
<1>7. OtrosBien'
  BY <1>1, <1>2 DEF MuseInv, OtrosBien
<1> HIDE DEF s, k
<1> QED BY <1>1, <1>4, <1>6, <1>7, PasoRonda

LEMMA ContestarCpyBien ==
    ASSUME MuseInv, ContestarCpy
    PROVE  MuseInv' /\ SinNuevos
<1>1. m.caida = "no" /\ m \in Memoria /\ programa' = programa /\ pedidos' \in 0..MaxPedidos /\ Orden(m, -1, {})
  BY EnRonda DEF ContestarCpy
<1>2. m' = m /\ bloques' = bloques /\ tarea' = Ninguna /\ respuesta'.res = 0
  BY DEF ContestarCpy, Contestar
<1>3. OtrosBien'
  BY <1>1, <1>2, IgualBien
<1>4. TrasNada(m, m')
  BY <1>1, <1>2, MismaNada
<1> QED BY <1>1, <1>2, <1>3, <1>4, ReposoBien, PasoQuieto

LEMMA LiberarBloqueBien ==
    ASSUME MuseInv, NEW s \in Slots, NEW b \in Bloque, LiberarBloque(s, b)
    PROVE  MuseInv' /\ SinNuevos
<1>1. /\ tarea = Ninguna /\ tarea.op = "nada" /\ m.caida = "no" /\ pedidos' \in 0..MaxPedidos
      /\ m \in Memoria /\ Orden(m, -1, {})
  BY LlamarBien DEF LiberarBloque
<1>2. /\ m' \in MuseFree(m, s, b.dir) /\ bloques' = [bloques EXCEPT ![s] = bloques[s] \ {b}]
      /\ tarea' = tarea /\ programa' = programa /\ respuesta' = respuesta
  BY DEF LiberarBloque
<1>3. b.dir \in Nat
  BY DEF Bloque
<1>4. TrasNada(m, m')
  BY <1>1, <1>2, <1>3, MuseFreeNada
<1>5. TareaBien' /\ tarea'.op # "alloc"
  BY <1>1, <1>2 DEF MuseInv, TareaBien
<1>6. OtrosBien'
  BY <1>1, <1>2 DEF MuseInv, OtrosBien
<1> QED BY <1>1, <1>2, <1>4, <1>5, <1>6, PasoQuieto

\* map, sync and unmap leave the memory alone.
LEMMA MapaBien ==
    ASSUME MuseInv, Llamar, m' = m, tarea' = tarea, programa' = programa, OtrosBien'
    PROVE  MuseInv' /\ SinNuevos
<1>1. tarea.op = "nada" /\ m.caida = "no" /\ m \in Memoria /\ Orden(m, -1, {})
  BY LlamarBien
<1>2. TareaBien' /\ tarea'.op # "alloc"
  BY <1>1 DEF MuseInv, TareaBien
<1>3. TrasNada(m, m')
  BY <1>1, MismaNada
<1> QED BY <1>1, <1>2, <1>3, PasoQuieto

LEMMA MuseMapBien ==
    ASSUME MuseInv, NEW s \in Slots, NEW n \in Tams, MuseMap(s, n)
    PROVE  MuseInv' /\ SinNuevos
<1> DEFINE x == [dir |-> DirMapa, n |-> n, valor |-> "cero"]
<1>1. Llamar /\ m' = m /\ tarea' = tarea /\ programa' = programa
  BY DEF MuseMap
<1>2. x \in Bloque
  <2>1. NMarcos * PAG \in Nat
    BY Numeros
  <2> QED BY <2>1, PedidosAssumption DEF DirMapa, Bloque
<1>3. bloques' = [bloques EXCEPT ![s] = bloques[s] \cup {x}] /\ respuesta'.res = 0
  BY DEF MuseMap
<1> HIDE DEF x
<1>4. pedidos' \in 0..MaxPedidos
  BY <1>1, LlamarBien
<1>5. OtrosBien'
  BY <1>1, <1>2, <1>3, <1>4 DEF MuseInv, OtrosBien
<1> QED BY <1>1, <1>5, MapaBien

LEMMA MuseSyncBien ==
    ASSUME MuseInv, NEW s \in Slots, NEW b \in Bloque, MuseSync(s, b) \/ MuseUnmap(s, b)
    PROVE  MuseInv' /\ SinNuevos
<1>1. /\ Llamar /\ m' = m /\ tarea' = tarea /\ programa' = programa /\ respuesta'.res = 0
      /\ bloques' = bloques \/ bloques' = [bloques EXCEPT ![s] = bloques[s] \ {b}]
  BY DEF MuseSync, MuseUnmap, Contestar
<1>2. pedidos' \in 0..MaxPedidos
  BY <1>1, LlamarBien
<1>3. OtrosBien'
  BY <1>1, <1>2 DEF MuseInv, OtrosBien
<1> QED BY <1>1, <1>3, MapaBien

LEMMA ProgramaBien ==
    ASSUME MuseInv, NEW s \in Slots, Programa(s)
    PROVE  MuseInv' /\ SinNuevos
<1>1. CASE MuseInit(s)
  BY <1>1, MuseInitBien
<1>2. CASE MuseClose(s)
  BY <1>2, MuseCloseBien
<1>3. ASSUME NEW n \in Tams, MuseAlloc(s, n) PROVE MuseInv' /\ SinNuevos
  BY <1>3, MuseAllocBien
<1>4. ASSUME NEW n \in Tams, MuseMap(s, n) PROVE MuseInv' /\ SinNuevos
  BY <1>4, MuseMapBien
<1>5. ASSUME NEW b \in bloques[s], UsaBloque(s, b) PROVE MuseInv' /\ SinNuevos
  <2>1. b \in Bloque
    BY DEF MuseInv, OtrosBien
  <2>2. CASE MuseGet(s, b)
    BY <2>1, <2>2, MuseGetBien
  <2>3. ASSUME NEW v \in Valores, MuseCpy(s, b, v) PROVE MuseInv' /\ SinNuevos
    BY <2>1, <2>3, MuseCpyBien
  <2>4. CASE LiberarBloque(s, b)
    BY <2>1, <2>4, LiberarBloqueBien
  <2>5. CASE MuseSync(s, b) \/ MuseUnmap(s, b)
    BY <2>1, <2>5, MuseSyncBien
  <2> QED BY <1>5, <2>2, <2>3, <2>4, <2>5 DEF UsaBloque
<1> QED BY <1>1, <1>2, <1>3, <1>4, <1>5 DEF Programa

\* A round of the handler that the server is in.
LEMMA ServirBien ==
    ASSUME MuseInv, Servir
    PROVE  MuseInv' /\ SinNuevos
<1>1. CASE AsignarNuevaPagina
  BY <1>1, AsignarNuevaPaginaBien
<1>2. CASE AsignarUltimaPagina
  BY <1>2, AsignarUltimaPaginaBien
<1>3. CASE ContestarAlloc
  BY <1>3, ContestarAllocBien
<1>4. CASE LeerUnaPagina
  BY <1>4, LeerUnaPaginaBien
<1>5. CASE ContestarGet
  BY <1>5, ContestarGetBien
<1>6. CASE CopiarUnaPagina
  BY <1>6, CopiarUnaPaginaBien
<1>7. CASE ContestarCpy
  BY <1>7, ContestarCpyBien
<1> QED BY <1>1, <1>2, <1>3, <1>4, <1>5, <1>6, <1>7 DEF Servir

LEMMA NextBien ==
    ASSUME MuseInv, Next
    PROVE  MuseInv' /\ SinNuevos
<1>1. CASE Aceptar
  BY <1>1, AceptarBien
<1>2. ASSUME NEW s \in Slots, Programa(s) PROVE MuseInv' /\ SinNuevos
  BY <1>2, ProgramaBien
<1>3. CASE Servir
  BY <1>3, ServirBien
<1> QED BY <1>1, <1>2, <1>3 DEF Next

\* MuseInv is inductive.
LEMMA PasoBien == MuseInv /\ [Next]_vars => MuseInv'
<1> SUFFICES ASSUME MuseInv, [Next]_vars
             PROVE  MuseInv'
  OBVIOUS
<1>1. CASE Next
  BY <1>1, NextBien
<1>2. CASE UNCHANGED vars
  <2>1. m' = m /\ tarea' = tarea /\ programa' = programa /\ bloques' = bloques
        /\ respuesta' = respuesta /\ pedidos' = pedidos
    BY <1>2 DEF vars
  <2>2. TareaBien' /\ OtrosBien'
    BY <2>1 DEF MuseInv, TareaBien, OtrosBien
  <2>3. EnObra' = EnObra /\ (Reservada <=> Reservada') /\ (ListosConTabla <=> ListosConTabla')
    BY <2>1 DEF EnObra, Reservada, ListosConTabla
  <2> QED BY <2>1, <2>2, <2>3 DEF MuseInv
<1> QED BY <1>1, <1>2

LEMMA SiempreBien == Spec => []MuseInv
BY InicioBien, PasoBien, PTL DEF Spec

----------------------------------------------------------------------------
(* The properties.                                                         *)

\* A page of the properties is a page of the tables.
LEMMA DePaginas ==
    /\ \A q \in Paginas :
        /\ q[1] \in Slots /\ q[2] \in DOMAIN PaginasDe(m, q[1]) /\ q = <<q[1], q[2]>>
        /\ LaDe(q) = Pag(m, q[1], q[2])
        /\ q \in Ausentes <=> Fuera(m, q[1], q[2])
        /\ q \notin Ausentes <=> Dentro(m, q[1], q[2])
    /\ \A s \in Slots : \A k \in DOMAIN PaginasDe(m, s) : <<s, k>> \in Paginas
<1>1. ASSUME NEW q \in Paginas
      PROVE  q[1] \in Slots /\ q[2] \in DOMAIN PaginasDe(m, q[1]) /\ q = <<q[1], q[2]>>
  <2>1. PICK s \in Slots : q \in {s} \X DOMAIN PaginasDe(m, s)
    BY DEF Paginas
  <2> QED BY <2>1
<1>2. ASSUME NEW q \in Paginas
      PROVE  /\ LaDe(q) = Pag(m, q[1], q[2])
             /\ q \in Ausentes <=> Fuera(m, q[1], q[2])
             /\ q \notin Ausentes <=> Dentro(m, q[1], q[2])
  BY <1>1 DEF LaDe, Pag, Ausentes, Fuera, Dentro, Hay
<1>3. ASSUME NEW s \in Slots, NEW k \in DOMAIN PaginasDe(m, s)
      PROVE  <<s, k>> \in Paginas
  BY DEF Paginas
<1> QED BY <1>1, <1>2, <1>3

LEMMA SonCompartidos == Compartidos = CompartidosEn(m)
<1>1. ASSUME NEW f \in Compartidos PROVE f \in CompartidosEn(m)
  <2>1. PICK q \in Paginas \ Ausentes, r \in Paginas \ Ausentes :
            q # r /\ LaDe(q).marco = f /\ LaDe(r).marco = f
    BY DEF Compartidos
  <2>2. <<q[1], q[2]>> # <<r[1], r[2]>> /\ f \in Marcos
    BY <2>1, DePaginas DEF Compartidos
  <2>3. /\ Dentro(m, q[1], q[2]) /\ Dentro(m, r[1], r[2])
        /\ Pag(m, q[1], q[2]).marco = f /\ Pag(m, r[1], r[2]).marco = f
    BY <2>1, DePaginas
  <2>4. q[1] \in Slots /\ r[1] \in Slots /\ q[2] \in DOMAIN PaginasDe(m, q[1]) /\ r[2] \in DOMAIN PaginasDe(m, r[1])
    BY DePaginas
  <2> QED BY <2>2, <2>3, <2>4 DEF CompartidosEn
<1>2. ASSUME NEW f \in CompartidosEn(m) PROVE f \in Compartidos
  <2>1. PICK s \in Slots, r \in Slots :
            \E k \in DOMAIN PaginasDe(m, s), j \in DOMAIN PaginasDe(m, r) :
              /\ <<s, k>> # <<r, j>> /\ Dentro(m, s, k) /\ Dentro(m, r, j)
              /\ Pag(m, s, k).marco = f /\ Pag(m, r, j).marco = f
    BY DEF CompartidosEn
  <2>2. PICK k \in DOMAIN PaginasDe(m, s), j \in DOMAIN PaginasDe(m, r) :
              /\ <<s, k>> # <<r, j>> /\ Dentro(m, s, k) /\ Dentro(m, r, j)
              /\ Pag(m, s, k).marco = f /\ Pag(m, r, j).marco = f
    BY <2>1
  <2>3. <<s, k>> \in Paginas \ Ausentes /\ <<r, j>> \in Paginas \ Ausentes
    BY <2>2, DePaginas
  <2>4. LaDe(<<s, k>>).marco = f /\ LaDe(<<r, j>>).marco = f
    BY <2>2, <2>3, DePaginas
  <2>5. f \in Marcos
    BY DEF CompartidosEn
  <2> QED BY <2>2, <2>3, <2>4, <2>5 DEF Compartidos
<1> QED BY <1>1, <1>2

\* TypeOK: the memory, the request in hand and what the programs see keep their shape,
\* whatever is asked and also once the server has fallen.
THEOREM FormaSiempre == Spec => []TypeOK
<1>1. MuseInv => TypeOK
  BY DEF MuseInv, TareaBien, OtrosBien, Tarea, TypeOK
<1> QED BY <1>1, SiempreBien, PTL

\* No frame of a page in memory is marked as free.
THEOREM TomadosSiempre == Spec => []UsadosTomados
<1>1. MuseInv => UsadosTomados
  <2> SUFFICES ASSUME MuseInv, m.caida = "no", NEW q \in Paginas \ Ausentes
               PROVE  ~ m.marcos[LaDe(q).marco].libre
    BY DEF UsadosTomados
  <2>1. Ubicadas(m, -1) /\ m \in Memoria
    BY DEF MuseInv, Orden
  <2>2. q[1] \in Slots /\ q[2] \in DOMAIN PaginasDe(m, q[1]) /\ Dentro(m, q[1], q[2])
        /\ LaDe(q) = Pag(m, q[1], q[2])
    BY DePaginas
  <2>3. LaDe(q).marco \in Marcos /\ LaDe(q).marco \notin Libres(m)
    BY ZenonT(60), <2>1, <2>2, Numeros DEF Ubicadas
  <2> QED BY <2>3 DEF Libres
<1> QED BY <1>1, SiempreBien, PTL

\* Between two requests the entries of swap in use are those of the pages that are out
\* of memory, one for each: the index is a bijection of those pages with those entries.
THEOREM SwapSiempre == Spec => []SwapUnico
<1>1. MuseInv => SwapUnico
  <2> SUFFICES ASSUME MuseInv, Tranquilo
               PROVE  /\ m.swap = {LaDe(q).indice : q \in Ausentes}
                      /\ Cardinality(m.swap) = Cardinality(Ausentes)
                      /\ \A q \in Paginas \ Ausentes : LaDe(q).marco \in Marcos /\ LaDe(q).indice = -1
    BY DEF SwapUnico
  <2>1. Ubicadas(m, -1) /\ SwapExacto(m) /\ m \in Memoria
    BY DEF MuseInv, Orden, Tranquilo
  <2>2. \A q \in Paginas \ Ausentes : LaDe(q).marco \in Marcos /\ LaDe(q).indice = -1
    <3> SUFFICES ASSUME NEW q \in Paginas \ Ausentes
                 PROVE  LaDe(q).marco \in Marcos /\ LaDe(q).indice = -1
      OBVIOUS
    <3>1. q[1] \in Slots /\ q[2] \in DOMAIN PaginasDe(m, q[1]) /\ Dentro(m, q[1], q[2])
          /\ LaDe(q) = Pag(m, q[1], q[2])
      BY DePaginas
    <3> QED BY <2>1, <3>1 DEF Ubicadas
  <2>3. ASSUME NEW q \in Ausentes
        PROVE  /\ q \in Paginas /\ q[1] \in Slots /\ q[2] \in DOMAIN PaginasDe(m, q[1])
               /\ Fuera(m, q[1], q[2]) /\ LaDe(q) = Pag(m, q[1], q[2]) /\ q = <<q[1], q[2]>>
               /\ LaDe(q).indice \in m.swap
    <3>1. q \in Paginas
      BY DEF Ausentes
    <3>2. /\ q[1] \in Slots /\ q[2] \in DOMAIN PaginasDe(m, q[1])
          /\ Fuera(m, q[1], q[2]) /\ LaDe(q) = Pag(m, q[1], q[2]) /\ q = <<q[1], q[2]>>
      BY <3>1, DePaginas
    <3> QED BY <2>1, <3>1, <3>2 DEF Ubicadas
  <2>4. ASSUME NEW i \in m.swap PROVE \E q \in Ausentes : LaDe(q).indice = i
    <3>1. PICK s \in Slots : \E k \in DOMAIN PaginasDe(m, s) : Fuera(m, s, k) /\ Pag(m, s, k).indice = i
      BY <2>1 DEF SwapExacto
    <3>2. PICK k \in DOMAIN PaginasDe(m, s) : Fuera(m, s, k) /\ Pag(m, s, k).indice = i
      BY <3>1
    <3>3. <<s, k>> \in Paginas
      BY DePaginas
    <3>4. <<s, k>> \in Ausentes /\ LaDe(<<s, k>>).indice = i
      BY <3>2, <3>3, DePaginas
    <3> QED BY <3>4
  <2>5. ASSUME NEW q \in Ausentes, NEW r \in Ausentes, LaDe(q).indice = LaDe(r).indice
        PROVE  q = r
    <3>1. q[1] = r[1] /\ q[2] = r[2]
      BY <2>1, <2>3, <2>5 DEF SwapExacto
    <3>2. q = <<q[1], q[2]>> /\ r = <<r[1], r[2]>>
      BY <2>3
    <3> QED BY <3>1, <3>2
  <2>6. m.swap = {LaDe(q).indice : q \in Ausentes}
    BY <2>3, <2>4
  <2>7. Cardinality(m.swap) = Cardinality(Ausentes)
    <3> DEFINE g == [q \in Ausentes |-> LaDe(q).indice]
    <3>1. IsFiniteSet(m.swap)
      <4>1. m.swap \subseteq Indices
        BY <2>1, CampoEs
      <4>2. IsFiniteSet(Indices)
        BY FS_Interval, MuseAssumption DEF Indices
      <4> QED BY <4>1, <4>2, FS_Subset
    <3>2. g \in [Ausentes -> m.swap]
      BY <2>3
    <3>3. \A q, r \in Ausentes : g[q] = g[r] => q = r
      BY <2>5
    <3>4. \A i \in m.swap : \E q \in Ausentes : g[q] = i
      BY <2>4
    <3> HIDE DEF g
    <3>5. g \in Injection(Ausentes, m.swap) /\ g \in Surjection(Ausentes, m.swap)
      BY <3>2, <3>3, <3>4 DEF Injection, Surjection, IsInjective
    <3> QED BY <3>1, <3>5, FS_Injection
  <2> QED BY <2>2, <2>6, <2>7
<1> QED BY <1>1, SiempreBien, PTL

\* Two pages come to have one frame only while a segment is being created with no
\* frame free, and then both are of that segment.
THEOREM CompartirSiempre == Spec => SoloCrearComparte
<1> DEFINE A == m'.caida = "no" => \A f \in Compartidos' \ Compartidos :
                  /\ tarea'.op = "alloc" /\ ~ m'.tablas[tarea'.s].enLista /\ Libres(m') = {}
                  /\ \A q \in (Paginas \ Ausentes)' : LaDe(q)'.marco = f => q[1] = tarea'.s
<1>1. (Compartidos = CompartidosEn(m))'
  BY SonCompartidos, PTL
<1>2. (\A q \in Paginas \ Ausentes :
          /\ q[1] \in Slots /\ q[2] \in DOMAIN PaginasDe(m, q[1])
          /\ Dentro(m, q[1], q[2]) /\ LaDe(q) = Pag(m, q[1], q[2]))'
  <2>1. \A q \in Paginas \ Ausentes :
          /\ q[1] \in Slots /\ q[2] \in DOMAIN PaginasDe(m, q[1])
          /\ Dentro(m, q[1], q[2]) /\ LaDe(q) = Pag(m, q[1], q[2])
    BY DePaginas
  <2> QED BY <2>1, PTL
<1>3. ASSUME MuseInv, Next PROVE A
  <2> SUFFICES ASSUME m'.caida = "no", NEW f \in Compartidos' \ Compartidos
               PROVE  /\ tarea'.op = "alloc" /\ ~ m'.tablas[tarea'.s].enLista /\ Libres(m') = {}
                      /\ \A q \in (Paginas \ Ausentes)' : LaDe(q)'.marco = f => q[1] = tarea'.s
    OBVIOUS
  <2>1. f \in CompartidosEn(m') \ CompartidosEn(m)
    BY <1>1, SonCompartidos
  <2>2. tarea'.op = "alloc" /\ Avanza(m, m', tarea'.s)
    BY <1>3, <2>1, NextBien DEF SinNuevos
  <2>3. ~ m'.tablas[tarea'.s].enLista /\ Libres(m') = {}
        /\ \A r \in Slots : \A k \in DOMAIN PaginasDe(m', r) :
              Dentro(m', r, k) /\ Pag(m', r, k).marco = f => r = tarea'.s
    BY <2>1, <2>2 DEF Avanza
  <2>4. ASSUME NEW q \in (Paginas \ Ausentes)', LaDe(q)'.marco = f PROVE q[1] = tarea'.s
    BY <1>2, <2>3, <2>4
  <2> QED BY <2>2, <2>3, <2>4
<1>4. MuseInv /\ [Next]_vars => [A]_vars
  BY <1>3
<1> HIDE DEF A
<1>5. Spec => [][A]_vars
  BY <1>4, SiempreBien, PTL DEF Spec
<1> QED BY <1>5 DEF SoloCrearComparte, A

\* The modified clock, called in any state, elects the first frame of least weight.
THEOREM RelojEligeSiempre == Spec => []RelojElige
<1>1. MuseInv => RelojElige
  <2> SUFFICES ASSUME MuseInv PROVE RelojElige
    OBVIOUS
  <2>1. m.marcos \in [Marcos -> Marco] /\ m.puntero \in Marcos
    BY CampoEs DEF MuseInv
  <2> QED BY <2>1, ClockElige DEF RelojElige
<1> QED BY <1>1, SiempreBien, PTL

----------------------------------------------------------------------------
(* One program at a time.                                                  *)

\* One program at a time is connected, it does not call muse_map, and a page has the
\* 4 bytes of src/Memoria/muse_config, so every header goes on in a page more.
UnoSolo == NSlots = 1 /\ PAG = 4 /\ NMarcos >= 2 /\ Mapean = {}

\* There is a frame for the page that an alloc needs.
HayMarcos == tarea.op = "alloc" /\ tarea.resta > 0 => Libres(m) # {}

\* No block that was freed has room for another and a header.
SinReuso == \A a, b \in Tams : a < b + HM

Hs(a) == Headers(a, 0)
Ps(a) == PaginasDe(a, 0)
Sig(h) == h.dir + HM + h.size

\* Page k is in frame k, and the frames after the last page are free.
Recto(a) ==
    /\ \A k \in 1..Len(Ps(a)) : Ps(a)[k].presencia /\ Ps(a)[k].marco = k - 1
    /\ Libres(a) = Len(Ps(a))..(NMarcos - 1)
    /\ Len(Ps(a)) <= NMarcos

LEMMA Cuatro ==
    ASSUME UnoSolo
    PROVE  /\ Slots = {0} /\ PAG = 4 /\ HM = 5 /\ NMarcos \in Nat /\ NMarcos >= 2 /\ Mapean = {}
           /\ NMarcos * PAG = 4 * NMarcos /\ Direcciones = 0..(4 * NMarcos - 1) /\ 0 \in Slots
BY MuseAssumption DEF UnoSolo, Slots, HM, Direcciones

LEMMA SegmentoUno ==
    ASSUME UnoSolo, NEW a \in Memoria
    PROVE  /\ Ps(a) \in Seq(Pagina) /\ Hs(a) \in Seq(Heap) /\ Len(Ps(a)) \in Nat /\ Len(Hs(a)) \in Nat
           /\ DOMAIN Ps(a) = 1..Len(Ps(a)) /\ DOMAIN Hs(a) = 1..Len(Hs(a))
           /\ a.tablas[0].tam \in Nat /\ a.tablas[0].enLista \in BOOLEAN /\ a.tablas[0] \in Segmento
           /\ Ps(a) = a.tablas[0].paginas /\ Hs(a) = a.tablas[0].heaps
           /\ Ps(a) = <<>> <=> Len(Ps(a)) = 0
           /\ Hs(a) = <<>> <=> Len(Hs(a)) = 0
<1>1. 0 \in Slots
  BY Cuatro
<1>2. Ps(a) \in Seq(Pagina) /\ Hs(a) \in Seq(Heap)
  BY <1>1, SegmentoEs DEF Ps, Hs, Headers
<1> QED BY <1>1, <1>2, SegmentoEs, LenProperties, EmptySeq DEF Ps, Hs, PaginasDe, Headers

LEMMA HeaderUno ==
    ASSUME UnoSolo, NEW a \in Memoria, NEW j \in 1..Len(Hs(a))
    PROVE  /\ Hs(a)[j] \in Heap /\ Hs(a)[j].dir \in Nat /\ Hs(a)[j].size \in Nat
           /\ Hs(a)[j].libre \in BOOLEAN /\ Hs(a)[j].bytes \in 1..5
<1>1. Hs(a)[j] \in Heap
  BY SegmentoUno, ElementOfSeq
<1> QED BY <1>1 DEF Heap

\* What changes neither the segment nor the frames that are free.
Quieto(a, b) ==
    /\ b \in Memoria /\ b.tablas = a.tablas /\ Libres(b) = Libres(a)
    /\ b.caida = a.caida /\ b.elegido = a.elegido

LEMMA QuietoRecto ==
    ASSUME NEW a, NEW b, Quieto(a, b)
    PROVE  /\ Ps(b) = Ps(a) /\ Hs(b) = Hs(a) /\ b.tablas[0] = a.tablas[0]
           /\ (Recto(a) => Recto(b)) /\ b.caida = a.caida /\ b.elegido = a.elegido /\ b \in Memoria
<1>1. Ps(b) = Ps(a) /\ Hs(b) = Hs(a) /\ Libres(b) = Libres(a)
  BY DEF Quieto, Ps, Hs, PaginasDe, Headers
<1> QED BY <1>1 DEF Quieto, Recto

\* The bytes from pos on are written, and no other.
TrasEscribir(a, pos, bytes, b) ==
    /\ Quieto(a, b)
    /\ \A x \in Direcciones :
          b.mem[x] = IF x >= pos /\ x < pos + Len(bytes) THEN bytes[x - pos + 1] ELSE a.mem[x]

LEMMA EscribirHace ==
    ASSUME UnoSolo, NEW a \in Memoria, NEW pos \in Nat, NEW bytes \in Seq(Byte),
           NEW n, n = Len(bytes), pos + n <= 4 * NMarcos
    PROVE  TrasEscribir(a, pos, bytes, Escribir(a, pos, bytes))
<1> DEFINE b == Escribir(a, pos, bytes)
           x == [d \in Direcciones |->
                  IF d >= pos /\ d < pos + Len(bytes) THEN bytes[d - pos + 1] ELSE a.mem[d]]
<1>1. b \in Memoria
  BY EscribirTipo
<1>2. b = [a EXCEPT !.mem = x]
  <2>1. Len(bytes) \in Nat /\ NMarcos * PAG = 4 * NMarcos
    BY Cuatro, LenProperties
  <2>2. ~ (pos < 0) /\ ~ (pos + Len(bytes) > NMarcos * PAG)
    BY <2>1, Cuatro
  <2> QED BY <2>2 DEF Escribir
<1> HIDE DEF b
<1>3. \A d \in Direcciones :
          x[d] = IF d >= pos /\ d < pos + Len(bytes) THEN bytes[d - pos + 1] ELSE a.mem[d]
  OBVIOUS
<1> HIDE DEF x
<1>4. b.tablas = a.tablas /\ b.marcos = a.marcos /\ b.caida = a.caida /\ b.elegido = a.elegido /\ b.mem = x
  BY <1>2 DEF Memoria
<1>5. TrasEscribir(a, pos, bytes, b)
  BY <1>1, <1>3, <1>4 DEF Quieto, Libres, TrasEscribir
<1> QED BY <1>5 DEF b

LEMMA MarcasHacen ==
    ASSUME NEW a \in Memoria, NEW f, NEW b,
           b = [a EXCEPT !.marcos[f].uso = 1, !.marcos[f].mod = 1] \/ b = [a EXCEPT !.marcos[f].uso = 1]
    PROVE  Quieto(a, b) /\ b.mem = a.mem
<1>1. Aparte(a, b)
  BY ZenonT(60), BitsAparte, UnBitAparte
<1>2. b.caida = a.caida /\ b.mem = a.mem
  BY DEF Memoria
<1> QED BY SMTT(60), <1>1, <1>2 DEF Aparte, Quieto

\* A page more, in the next frame.
MasPaginas(a, b) ==
    /\ b \in Memoria /\ b.caida = "no" /\ Recto(b) /\ Len(Ps(b)) = Len(Ps(a)) + 1
    /\ b.tablas[0].enLista = a.tablas[0].enLista /\ b.tablas[0].tam >= a.tablas[0].tam + 4

LEMMA PrimeroLibre ==
    ASSUME UnoSolo, NEW a \in Memoria, Recto(a), Libres(a) # {}
    PROVE  Menor(Libres(a)) = Len(Ps(a)) /\ Len(Ps(a)) \in Libres(a) /\ Len(Ps(a)) \in Marcos
           /\ Len(Ps(a)) < NMarcos
<1> DEFINE N == Len(Ps(a))
<1>1. N \in Nat /\ NMarcos \in Nat
  BY SegmentoUno, Cuatro
<1>2. Libres(a) = N..(NMarcos - 1)
  BY DEF Recto
<1> HIDE DEF N
<1>3. N \in Libres(a) /\ N < NMarcos /\ Libres(a) \subseteq Nat
  BY <1>1, <1>2
<1>4. Menor(Libres(a)) \in Libres(a) /\ Menor(Libres(a)) <= N
  BY <1>3, MenorEsMenor
<1>5. Menor(Libres(a)) = N
  BY <1>1, <1>2, <1>4
<1> QED BY <1>1, <1>3, <1>5 DEF N, Marcos

LEMMA AgregarRecto ==
    ASSUME UnoSolo, NEW a \in Memoria, a.caida = "no", Recto(a), Libres(a) # {},
           NEW b, b = AgregarPagina(a, 0)
    PROVE  MasPaginas(a, b) /\ Hs(b) = Hs(a) /\ b.mem = a.mem /\ b.elegido = Len(Ps(a))
           /\ b.tablas[0].tam = a.tablas[0].tam + 4
<1> DEFINE f == Len(Ps(a))
           g == Ocupar(a, f)
           x == Ocupar(g, f)
           pag == [presencia |-> TRUE, marco |-> f, indice |-> -1]
           ps == Append(Ps(a), pag)
           t1 == [x.tablas[0] EXCEPT !.paginas = Append(@, pag)]
           t == [t1 EXCEPT !.tam = @ + PAG]
<1>1. Menor(Libres(a)) = f /\ f \in Libres(a) /\ f \in Marcos /\ f < NMarcos
  BY PrimeroLibre
<1>2. AsignarUnFrame(a) = g
  BY <1>1 DEF AsignarUnFrame
<1>3. g \in Memoria /\ TrasOcupar(a, f, g)
  BY <1>1, OcuparTipo, OcuparHace
<1>4. g.elegido = f
  BY <1>3 DEF TrasOcupar
<1>5. x \in Memoria /\ TrasOcupar(g, f, x)
  BY <1>1, <1>3, OcuparTipo, OcuparHace
<1>6. b = [x EXCEPT !.tablas[0] = t]
  BY ZenonT(60), <1>2, <1>4 DEF AgregarPagina
<1> HIDE DEF x, g
<1>7. /\ x.tablas = a.tablas /\ x.caida = "no" /\ x.mem = a.mem /\ x.elegido = f
      /\ Libres(x) = Libres(a) \ {f}
  BY <1>3, <1>5 DEF TrasOcupar
<1>8. /\ a.tablas[0] \in Segmento /\ a.tablas[0].paginas = Ps(a) /\ Ps(a) \in Seq(Pagina)
      /\ a.tablas[0].tam \in Nat /\ Hs(a) = a.tablas[0].heaps /\ f \in Nat
      /\ DOMAIN Ps(a) = 1..f
  BY SegmentoUno
<1>9. /\ t1.paginas = ps /\ t1.heaps = a.tablas[0].heaps /\ t1.enLista = a.tablas[0].enLista
      /\ t1.tam = a.tablas[0].tam /\ t1.tiene = a.tablas[0].tiene
      /\ DOMAIN t1 = {"tiene", "enLista", "paginas", "heaps", "tam"}
  BY <1>7, <1>8 DEF Segmento
<1>10. pag \in Pagina
  BY <1>1 DEF Pagina
<1>11. ps \in Seq(Pagina) /\ Len(ps) = f + 1 /\ ps[f + 1] = pag /\ \A k \in 1..f : ps[k] = Ps(a)[k]
  BY <1>8, <1>10, AppendProperties
<1>12. t1 \in Segmento
  BY <1>7, <1>8, <1>9, <1>11, SegmentoTipo
<1> HIDE DEF t1
<1>13. t.paginas = ps /\ t.heaps = Hs(a) /\ t.enLista = a.tablas[0].enLista /\ t.tam = a.tablas[0].tam + 4
  BY <1>8, <1>9, Cuatro
<1>14. t \in Segmento
  <2>1. t1.tam + PAG \in Nat
    BY SMTT(60), <1>8, <1>9, Cuatro
  <2> QED BY <1>12, <2>1, SegmentoTipo
<1> HIDE DEF t
<1>15. TrasTabla(x, 0, t, b)
  BY <1>5, <1>6, <1>14, TablaHace, Cuatro
<1>16. b.mem = x.mem
  BY <1>5, <1>6 DEF Memoria
<1>17. b.tablas[0] = t
  BY <1>5, <1>15, CampoEs, Cuatro DEF TrasTabla
<1>18. Ps(b) = ps /\ Hs(b) = Hs(a)
  BY <1>13, <1>17 DEF Ps, Hs, PaginasDe, Headers
<1>19. b \in Memoria /\ b.caida = "no" /\ b.elegido = f /\ Libres(b) = Libres(a) \ {f}
  BY <1>7, <1>15 DEF TrasTabla
<1>20. Recto(b)
  <2>1. \A k \in 1..(f + 1) : ps[k].presencia /\ ps[k].marco = k - 1
    <3> SUFFICES ASSUME NEW k \in 1..(f + 1) PROVE ps[k].presencia /\ ps[k].marco = k - 1
      OBVIOUS
    <3>1. CASE k = f + 1
      BY <1>8, <1>11, <3>1
    <3>2. CASE k # f + 1
      <4>1. k \in 1..f
        BY <1>8, <3>2
      <4> QED BY <1>11, <4>1 DEF Recto
    <3> QED BY <3>1, <3>2
  <2>2. Libres(b) = (f + 1)..(NMarcos - 1)
    <3>1. Libres(b) = (f..(NMarcos - 1)) \ {f}
      BY <1>19 DEF Recto
    <3> HIDE DEF f
    <3>2. f \in Nat /\ NMarcos \in Nat
      BY <1>8, Cuatro
    <3>3. \A y : y \in (f..(NMarcos - 1)) \ {f} <=> y \in (f + 1)..(NMarcos - 1)
      BY <3>2
    <3>4. (f..(NMarcos - 1)) \ {f} = (f + 1)..(NMarcos - 1)
      BY <3>3
    <3> QED BY <3>1, <3>4
  <2>3. f + 1 <= NMarcos
    BY <1>1, <1>8, Cuatro
  <2> HIDE DEF ps, f
  <2> QED BY <1>11, <1>18, <2>1, <2>2, <2>3 DEF Recto
<1>21. b.tablas[0].tam = a.tablas[0].tam + 4 /\ b.tablas[0].tam >= a.tablas[0].tam + 4
  BY <1>8, <1>13, <1>17
<1> QED BY <1>7, <1>11, <1>13, <1>16, <1>17, <1>18, <1>19, <1>20, <1>21 DEF MasPaginas

LEMMA PaginaRecta ==
    ASSUME UnoSolo, NEW a \in Memoria, Recto(a), NEW k \in 0..(Len(Ps(a)) - 1)
    PROVE  /\ HayPagina(a, 0, k) /\ LaPagina(a, 0, k).presencia /\ LaPagina(a, 0, k).marco = k
           /\ Posicion(a, 0, k) = 4 * k /\ ObtenerPosicion(a, 0, k) = a
           /\ k \in Nat /\ k < NMarcos /\ 4 * k + 4 <= 4 * NMarcos
<1>1. Len(Ps(a)) \in Nat /\ DOMAIN Ps(a) = 1..Len(Ps(a)) /\ PAG = 4 /\ NMarcos \in Nat /\ Len(Ps(a)) <= NMarcos
  BY SegmentoUno, Cuatro DEF Recto
<1>2. k + 1 \in 1..Len(Ps(a)) /\ k \in Nat /\ k < NMarcos
  BY <1>1
<1>3. HayPagina(a, 0, k) /\ LaPagina(a, 0, k) = Ps(a)[k + 1]
  BY <1>1, <1>2 DEF HayPagina, LaPagina, Ps
<1>4. LaPagina(a, 0, k).presencia /\ LaPagina(a, 0, k).marco = k
  <2>1. Ps(a)[k + 1].presencia /\ Ps(a)[k + 1].marco = (k + 1) - 1
    BY <1>2 DEF Recto
  <2> QED BY <1>2, <1>3, <2>1
<1>5. Posicion(a, 0, k) = 4 * k
  BY <1>1, <1>2, <1>3, <1>4 DEF Posicion
<1>6. ObtenerPosicion(a, 0, k) = a
  BY <1>3, <1>4 DEF ObtenerPosicion
<1> QED BY <1>1, <1>2, <1>3, <1>4, <1>5, <1>6

LEMMA SinPagina ==
    ASSUME UnoSolo, NEW a \in Memoria, NEW k \in Nat, k >= Len(Ps(a))
    PROVE  ~ HayPagina(a, 0, k)
BY SegmentoUno DEF HayPagina, Ps

\* A header at the end of the segment, which takes a page more.
UnHeader(dir, libre, size) == [dir |-> dir, libre |-> libre, size |-> size, bytes |-> 4 - (dir % 4)]
MasHeader(a, b, dir, libre, size) ==
    /\ MasPaginas(a, b) /\ Hs(b) = Append(Hs(a), UnHeader(dir, libre, size))
    /\ \A x \in Direcciones : x < dir => b.mem[x] = a.mem[x]

LEMMA UbicarRecto ==
    ASSUME UnoSolo, NEW a \in Memoria, a.caida = "no", Recto(a), Libres(a) # {}, NEW dir \in Nat,
           dir \div 4 = Len(Ps(a)) - 1, NEW libre \in BOOLEAN, NEW size \in Nat,
           NEW b, b = Ubicar(a, 0, dir, libre, size)
    PROVE  MasHeader(a, b, dir, libre, size) /\ b.tablas[0].tam = a.tablas[0].tam + 4
<1> DEFINE k == UltimaPagina(a, 0)
           f == LaPagina(a, 0, k).marco
           d == dir % PAG
           n == IF PAG - d < HM THEN PAG - d ELSE HM
           h == [dir |-> dir, libre |-> libre, size |-> size, bytes |-> n]
           x == [a EXCEPT !.marcos[f].uso = 1, !.marcos[f].mod = 1]
           t == [x.tablas[0] EXCEPT !.heaps = Append(@, h)]
           y == [x EXCEPT !.tablas[0] = t]
           e == Escribir(y, f * PAG + d, Tira("cab", 0, n))
           o == AgregarPagina(e, 0)
           w == Escribir(o, o.elegido * PAG, Tira("cab", n, HM - n))
<1>0. b = IF f = -1 THEN Caer(a, "nulo") ELSE IF n = HM THEN e ELSE ObtenerPosicion(w, 0, k)
  BY DEF Ubicar
<1>1. /\ k = Len(Ps(a)) - 1 /\ Len(Ps(a)) \in Nat /\ PAG = 4 /\ HM = 5 /\ NMarcos \in Nat
      /\ k \in 0..(Len(Ps(a)) - 1) /\ k \in Nat /\ Len(Ps(a)) < NMarcos /\ dir = 4 * k + d
      /\ d = dir % 4 /\ d \in 0..3 /\ n = 4 - d /\ n \in 1..4
  <2>1. Len(Ps(a)) \in Nat /\ Len(Ps(a)) < NMarcos /\ NMarcos \in Nat
    BY SegmentoUno, PrimeroLibre, Cuatro
  <2>2. k = Len(Ps(a)) - 1
    BY DEF UltimaPagina, Ps
  <2> HIDE DEF k
  <2>3. dir \div 4 \in Nat /\ dir = 4 * (dir \div 4) + (dir % 4) /\ dir % 4 \in 0..3
    OBVIOUS
  <2>4. d = dir % 4
    BY Cuatro
  <2> HIDE DEF d
  <2>5. n = 4 - d
    BY <2>3, <2>4, Cuatro
  <2> HIDE DEF n
  <2> QED BY <2>1, <2>2, <2>3, <2>4, <2>5, Cuatro
<1>2. f = k
  BY <1>1, PaginaRecta
<1> HIDE DEF k, f, d, n
<1>3. b = ObtenerPosicion(w, 0, k)
  <2>1. f # -1 /\ n # HM
    BY <1>1, <1>2
  <2> QED BY <1>0, <2>1
<1>4. h \in Heap /\ h = UnHeader(dir, libre, size)
  BY <1>1 DEF UnHeader, Heap
<1> HIDE DEF h
<1>5. Quieto(a, x) /\ x.mem = a.mem
  BY ZenonT(60), MarcasHacen
<1> HIDE DEF x
<1>6. x.tablas[0] \in Segmento /\ Hs(x) = Hs(a) /\ Ps(x) = Ps(a) /\ Hs(a) \in Seq(Heap)
      /\ x.tablas[0].heaps = Hs(a) /\ x.tablas[0].paginas = Ps(a) /\ x.tablas[0] = a.tablas[0]
      /\ x \in Memoria
  BY <1>5, QuietoRecto, SegmentoUno
<1>7. Append(Hs(a), h) \in Seq(Heap)
  BY <1>4, <1>6, AppendProperties
<1>8. /\ t \in Segmento /\ t.paginas = Ps(a) /\ t.heaps = Append(Hs(a), h)
      /\ t.enLista = a.tablas[0].enLista /\ t.tam = a.tablas[0].tam
  BY <1>6, <1>7 DEF Segmento
<1> HIDE DEF t
<1>9. TrasTabla(x, 0, t, y) /\ y.mem = x.mem
  <2>1. y.mem = x.mem
    BY <1>6 DEF Memoria
  <2> QED BY <1>6, <1>8, <2>1, TablaHace, Cuatro
<1> HIDE DEF y
<1>10. /\ y \in Memoria /\ y.caida = "no" /\ Libres(y) = Libres(a) /\ y.tablas[0] = t
  BY <1>5, <1>6, <1>9, CampoEs, Cuatro DEF TrasTabla, Quieto
<1>11. Tira("cab", 0, n) \in Seq(Byte) /\ Len(Tira("cab", 0, n)) = n
       /\ Tira("cab", n, HM - n) \in Seq(Byte) /\ Len(Tira("cab", n, HM - n)) = HM - n
  <2>1. n \in Nat /\ HM - n \in Nat /\ 0 \in Nat
    BY <1>1
  <2> HIDE DEF n
  <2> QED BY <2>1, TiraTipo
<1>12. /\ f * PAG + d = dir /\ dir + n = 4 * k + 4 /\ 4 * k + 4 <= 4 * NMarcos
  BY <1>1, <1>2
<1>13. /\ Quieto(y, e)
       /\ \A z \in Direcciones : z < dir => e.mem[z] = y.mem[z]
  <2>1. e = Escribir(y, dir, Tira("cab", 0, n))
    BY <1>12
  <2> HIDE DEF e, n
  <2>a. dir + n <= 4 * NMarcos
    BY <1>12
  <2>2. TrasEscribir(y, dir, Tira("cab", 0, n), e)
    BY <1>10, <1>11, <2>a, <2>1, EscribirHace
  <2>3. \A z \in Direcciones : z \in Nat
    BY Cuatro
  <2> QED BY <2>2, <2>3 DEF TrasEscribir
<1> HIDE DEF e
<1>14. /\ e \in Memoria /\ e.caida = "no" /\ Libres(e) = Libres(a) /\ e.tablas[0] = t
       /\ Ps(e) = Ps(a) /\ Hs(e) = Append(Hs(a), h)
  <2>1. e.tablas[0] = t
    BY <1>10, <1>13 DEF Quieto
  <2> QED BY <1>8, <1>10, <1>13, <2>1 DEF Quieto, Ps, Hs, PaginasDe, Headers
<1>15. Recto(e)
  BY <1>14 DEF Recto
<1>16. MasPaginas(e, o) /\ Hs(o) = Hs(e) /\ o.mem = e.mem /\ o.elegido = Len(Ps(a))
       /\ o.tablas[0].tam = e.tablas[0].tam + 4
  BY <1>14, <1>15, AgregarRecto
<1> HIDE DEF o
<1>17. Quieto(o, w) /\ \A z \in Direcciones : z < dir => w.mem[z] = o.mem[z]
  <2>1. o \in Memoria /\ o.elegido * PAG = 4 * (k + 1)
    BY <1>1, <1>16 DEF MasPaginas
  <2>2. 4 * (k + 1) \in Nat /\ 4 * (k + 1) + (HM - n) <= 4 * NMarcos /\ dir < 4 * (k + 1)
    BY <1>1
  <2> DEFINE c == Tira("cab", n, HM - n)
             p == 4 * (k + 1)
  <2>3. w = Escribir(o, p, c)
    BY <2>1
  <2>4. c \in Seq(Byte) /\ p \in Nat /\ p + Len(c) <= 4 * NMarcos /\ dir < p
    BY <1>11, <2>2
  <2> HIDE DEF w, c, p
  <2>5. TrasEscribir(o, p, c, w)
    BY <2>1, <2>3, <2>4, EscribirHace
  <2>6. \A z \in Direcciones : z \in Nat
    BY Cuatro
  <2> QED BY <2>4, <2>5, <2>6 DEF TrasEscribir
<1> HIDE DEF w
<1>18. /\ w \in Memoria /\ Ps(w) = Ps(o) /\ Hs(w) = Hs(o) /\ w.tablas[0] = o.tablas[0] /\ Recto(w)
       /\ w.caida = "no"
  BY <1>16, <1>17, QuietoRecto DEF MasPaginas
<1>19. Len(Ps(w)) = Len(Ps(a)) + 1
  BY <1>14, <1>16, <1>18 DEF MasPaginas
<1>20. b = w
  <2>1. k \in 0..(Len(Ps(w)) - 1)
    BY <1>1, <1>19
  <2> QED BY <1>3, <1>18, <2>1, PaginaRecta
<1>21. /\ b.tablas[0].enLista = a.tablas[0].enLista /\ b.tablas[0].tam = a.tablas[0].tam + 4
       /\ a.tablas[0].tam \in Nat
  BY <1>8, <1>14, <1>16, <1>18, <1>20, SegmentoUno DEF MasPaginas
<1>22. \A z \in Direcciones : z < dir => b.mem[z] = a.mem[z]
  BY <1>5, <1>9, <1>13, <1>16, <1>17, <1>20
<1>23. MasPaginas(a, b)
  BY <1>18, <1>19, <1>20, <1>21 DEF MasPaginas
<1>24. Hs(b) = Append(Hs(a), h)
  BY <1>14, <1>16, <1>18, <1>20
<1> QED BY <1>4, <1>21, <1>22, <1>23, <1>24 DEF MasHeader

\* The table of the program, its size and a header of it, written anew.
PonerTabla(a, t) == [a EXCEPT !.tablas[0] = t]
PonerTam(a, v) == [a EXCEPT !.tablas[0].tam = v]
PonerHeader(a, j, h) == [a EXCEPT !.tablas[0].heaps[j] = h]

\* What changes no page and no byte.
MismasPaginas(a, b) ==
    /\ b \in Memoria /\ Ps(b) = Ps(a) /\ (Recto(a) => Recto(b))
    /\ b.caida = a.caida /\ b.mem = a.mem /\ Libres(b) = Libres(a)

LEMMA TablaUna ==
    ASSUME UnoSolo, NEW a \in Memoria, NEW t \in Segmento, t.paginas = Ps(a)
    PROVE  /\ MismasPaginas(a, PonerTabla(a, t)) /\ PonerTabla(a, t).tablas[0] = t
           /\ Hs(PonerTabla(a, t)) = t.heaps
<1> DEFINE b == PonerTabla(a, t)
<1>1. TrasTabla(a, 0, t, b)
  BY TablaHace, Cuatro DEF PonerTabla
<1>2. b.mem = a.mem
  BY DEF Memoria, PonerTabla
<1> HIDE DEF b
<1>3. b.tablas[0] = t
  BY <1>1, CampoEs, Cuatro DEF TrasTabla
<1>4. Ps(b) = Ps(a) /\ Hs(b) = t.heaps
  BY <1>3 DEF Ps, Hs, PaginasDe, Headers
<1>5. MismasPaginas(a, b)
  BY <1>1, <1>2, <1>4 DEF TrasTabla, Recto, MismasPaginas
<1> QED BY <1>3, <1>4, <1>5 DEF b

LEMMA TamUno ==
    ASSUME UnoSolo, NEW a \in Memoria, NEW v \in Nat
    PROVE  /\ MismasPaginas(a, PonerTam(a, v)) /\ Hs(PonerTam(a, v)) = Hs(a)
           /\ PonerTam(a, v).tablas[0].tam = v
           /\ PonerTam(a, v).tablas[0].enLista = a.tablas[0].enLista
<1> DEFINE t == [a.tablas[0] EXCEPT !.tam = v]
<1>1. /\ t \in Segmento /\ t.paginas = Ps(a) /\ t.heaps = Hs(a)
      /\ t.tam = v /\ t.enLista = a.tablas[0].enLista
  BY SegmentoUno DEF Segmento
<1>2. PonerTam(a, v) = PonerTabla(a, t)
  BY DEF PonerTabla, PonerTam
<1> HIDE DEF t
<1> QED BY <1>1, <1>2, TablaUna

LEMMA ListaUna ==
    ASSUME UnoSolo, NEW a \in Memoria
    PROVE  /\ MismasPaginas(a, EnLista(a, 0)) /\ Hs(EnLista(a, 0)) = Hs(a)
           /\ EnLista(a, 0).tablas[0].tam = a.tablas[0].tam /\ EnLista(a, 0).tablas[0].enLista
<1> DEFINE t == [a.tablas[0] EXCEPT !.enLista = TRUE]
<1>1. /\ t \in Segmento /\ t.paginas = Ps(a) /\ t.heaps = Hs(a)
      /\ t.tam = a.tablas[0].tam /\ t.enLista
  BY SegmentoUno DEF Segmento
<1>2. EnLista(a, 0) = PonerTabla(a, t)
  BY DEF PonerTabla, EnLista
<1> HIDE DEF t
<1> QED BY <1>1, <1>2, TablaUna

LEMMA HeapsUno ==
    ASSUME UnoSolo, NEW a \in Memoria, NEW j \in 1..Len(Hs(a)), NEW h \in Heap
    PROVE  LET b == PonerHeader(a, j, h)
           IN  /\ MismasPaginas(a, b) /\ Hs(b) \in Seq(Heap) /\ Len(Hs(b)) = Len(Hs(a))
               /\ \A i \in 1..Len(Hs(a)) : Hs(b)[i] = IF i = j THEN h ELSE Hs(a)[i]
               /\ b.tablas[0].tam = a.tablas[0].tam /\ b.tablas[0].enLista = a.tablas[0].enLista
<1> DEFINE x == [Hs(a) EXCEPT ![j] = h]
           t == [a.tablas[0] EXCEPT !.heaps = x]
           b == PonerHeader(a, j, h)
<1>0. Hs(a) \in Seq(Heap) /\ j \in Int /\ a.tablas[0].heaps = Hs(a) /\ DOMAIN Hs(a) = 1..Len(Hs(a))
  BY SegmentoUno
<1>1. x \in Seq(Heap) /\ Len(x) = Len(Hs(a))
  BY <1>0, UnoDeSeq
<1>2. b = PonerTabla(a, t)
  BY <1>0 DEF PonerTabla, PonerHeader
<1>a. \A i \in 1..Len(Hs(a)) : x[i] = IF i = j THEN h ELSE Hs(a)[i]
  BY <1>0
<1> HIDE DEF x
<1>3. /\ t \in Segmento /\ t.paginas = Ps(a) /\ t.heaps = x
      /\ t.tam = a.tablas[0].tam /\ t.enLista = a.tablas[0].enLista
  BY <1>1, SegmentoUno DEF Segmento
<1> HIDE DEF t, b
<1>4. b.tablas[0] = t /\ MismasPaginas(a, b) /\ Hs(b) = x
  BY <1>2, <1>3, TablaUna
<1> QED BY <1>1, <1>a, <1>3, <1>4 DEF b

LEMMA PrimeraRecto ==
    ASSUME UnoSolo, NEW a \in Memoria, a.caida = "no", Recto(a), Ps(a) = <<>>, Hs(a) = <<>>, NEW n \in Nat,
           NEW b, b = PrimeraPagina(a, 0, n)
    PROVE  /\ b \in Memoria /\ b.caida = "no" /\ Recto(b) /\ Len(Ps(b)) = 2 /\ b.tablas[0].tam >= 8
           /\ b.tablas[0].enLista = a.tablas[0].enLista /\ Hs(b) = Append(<<>>, UnHeader(0, FALSE, n))
<1> DEFINE p == AgregarPagina(a, 0)
           q == PonerTam(p, 0)
           u == Ubicar(q, 0, 0, FALSE, n)
           v == u.tablas[0].tam + Len(PaginasDe(u, 0)) * PAG
<1>1. b = PonerTam(u, v)
  BY DEF PrimeraPagina, PonerTam
<1>2. Len(Ps(a)) = 0 /\ Libres(a) = 0..(NMarcos - 1) /\ Libres(a) # {}
  BY SegmentoUno, Cuatro DEF Recto
<1>3. MasPaginas(a, p) /\ Hs(p) = <<>>
  BY <1>2, AgregarRecto
<1> HIDE DEF p
<1>4. p \in Memoria /\ p.caida = "no" /\ Recto(p) /\ Len(Ps(p)) = 1 /\ p.tablas[0].enLista = a.tablas[0].enLista
  BY <1>2, <1>3 DEF MasPaginas
<1>5. /\ q \in Memoria /\ Ps(q) = Ps(p) /\ Hs(q) = Hs(p) /\ q.tablas[0].tam = 0 /\ q.caida = "no"
      /\ Recto(q) /\ q.tablas[0].enLista = a.tablas[0].enLista
  <2>1. 0 \in Nat
    OBVIOUS
  <2> QED BY <1>4, <2>1, TamUno DEF MismasPaginas
<1> HIDE DEF q
<1>6. Libres(q) # {}
  <2>1. Libres(q) = 1..(NMarcos - 1)
    BY <1>4, <1>5 DEF Recto
  <2>2. 1 \in 1..(NMarcos - 1)
    BY Cuatro
  <2> QED BY <2>1, <2>2
<1>7. MasHeader(q, u, 0, FALSE, n)
  <2>1. 0 \in Nat /\ 0 \div 4 = Len(Ps(q)) - 1 /\ FALSE \in BOOLEAN
    BY <1>4, <1>5
  <2> QED BY <1>5, <1>6, <2>1, UbicarRecto
<1> HIDE DEF u
<1>8. /\ u \in Memoria /\ u.caida = "no" /\ Recto(u) /\ Len(Ps(u)) = 2
      /\ u.tablas[0].enLista = a.tablas[0].enLista /\ Hs(u) = Append(<<>>, UnHeader(0, FALSE, n))
  BY <1>3, <1>4, <1>5, <1>7 DEF MasHeader, MasPaginas
<1>9. v \in Nat /\ v >= 8
  <2>0. Len(PaginasDe(u, 0)) = 2 /\ PAG = 4
    BY <1>8, Cuatro DEF Ps
  <2>1. Len(PaginasDe(u, 0)) * PAG = 2 * 4
    BY <2>0
  <2>2. u.tablas[0].tam \in Nat
    BY <1>8, SegmentoUno
  <2> QED BY <2>1, <2>2
<1> HIDE DEF v
<1>10. /\ b \in Memoria /\ Ps(b) = Ps(u) /\ Hs(b) = Hs(u) /\ b.tablas[0].tam = v
       /\ b.tablas[0].enLista = u.tablas[0].enLista
       /\ (Recto(u) => Recto(b)) /\ b.caida = u.caida
  <2>1. /\ MismasPaginas(u, PonerTam(u, v)) /\ Hs(PonerTam(u, v)) = Hs(u)
        /\ PonerTam(u, v).tablas[0].tam = v
        /\ PonerTam(u, v).tablas[0].enLista = u.tablas[0].enLista
    BY <1>8, <1>9, TamUno
  <2> QED BY <1>1, <2>1 DEF MismasPaginas
<1> QED BY <1>8, <1>9, <1>10

LEMMA CerrarRecto ==
    ASSUME UnoSolo, NEW a \in Memoria, a.caida = "no", Recto(a), Libres(a) # {}, NEW r \in 1..4,
           Len(Ps(a)) >= 1, NEW b, b = CerrarSegmento(a, 0, r)
    PROVE  MasHeader(a, b, 4 * Len(Ps(a)) - 5 + r, r # 4, 4 - r)
<1> DEFINE k == UltimaPagina(a, 0)
           f == LaPagina(a, 0, k).marco
           dir == DireccionUltima(f, r)
           x == Ubicar(a, 0, dir, r # PAG, PAG - r)
           v == x.tablas[0].tam + PAG
<1>1. b = IF f = -1 THEN Caer(a, "nulo") ELSE PonerTam(x, v)
  BY DEF CerrarSegmento, PonerTam
<1>2. Len(Ps(a)) \in Nat /\ k = Len(Ps(a)) - 1 /\ k \in Nat
  BY SegmentoUno DEF UltimaPagina, Ps
<1> HIDE DEF k
<1>3. f = k
  BY <1>2, PaginaRecta
<1> HIDE DEF f
<1>4. dir = 4 * Len(Ps(a)) - 5 + r /\ dir \in Nat /\ dir \div 4 = Len(Ps(a)) - 1
      /\ PAG = 4 /\ 4 - r \in Nat /\ (r # 4) \in BOOLEAN
  <2>1. dir = 4 * Len(Ps(a)) - 5 + r
    BY <1>2, <1>3, Cuatro DEF DireccionUltima
  <2> HIDE DEF dir
  <2> QED BY <1>2, <2>1, Cuatro
<1> HIDE DEF dir
<1>5. MasHeader(a, x, dir, r # 4, 4 - r)
  BY <1>4, UbicarRecto
<1> HIDE DEF x
<1>6. x \in Memoria /\ x.tablas[0].tam \in Nat
  BY <1>5, SegmentoUno DEF MasHeader, MasPaginas
<1>7. v \in Nat /\ v >= x.tablas[0].tam
  BY SMTT(60), <1>4, <1>6
<1> HIDE DEF v
<1>8. b = PonerTam(x, v)
  BY <1>1, <1>2, <1>3
<1>9. /\ b \in Memoria /\ Ps(b) = Ps(x) /\ Hs(b) = Hs(x) /\ b.tablas[0].tam = v
      /\ b.tablas[0].enLista = x.tablas[0].enLista
      /\ (Recto(x) => Recto(b)) /\ b.caida = x.caida /\ b.mem = x.mem
  <2>1. /\ MismasPaginas(x, PonerTam(x, v)) /\ Hs(PonerTam(x, v)) = Hs(x)
        /\ PonerTam(x, v).tablas[0].tam = v
        /\ PonerTam(x, v).tablas[0].enLista = x.tablas[0].enLista
    BY <1>6, <1>7, TamUno
  <2> QED BY <1>8, <2>1 DEF MismasPaginas
<1>10. b.tablas[0].tam >= a.tablas[0].tam + 4
  <2>1. x.tablas[0].tam >= a.tablas[0].tam + 4 /\ a.tablas[0].tam \in Nat
    BY <1>5, SegmentoUno DEF MasHeader, MasPaginas
  <2> QED BY SMTT(60), <1>6, <1>7, <1>9, <2>1
<1>11. MasHeader(a, b, dir, r # 4, 4 - r)
  BY <1>5, <1>9, <1>10 DEF MasHeader, MasPaginas
<1> QED BY <1>4, <1>11

\* The last block is taken, with room for n bytes.
LEMMA OcuparRecto ==
    ASSUME UnoSolo, NEW a \in Memoria, NEW n \in Nat, Len(Hs(a)) >= 1, NEW b, b = OcuparUltimo(a, 0, n)
    PROVE  /\ MismasPaginas(a, b) /\ Len(Hs(b)) = Len(Hs(a)) /\ Hs(b) \in Seq(Heap)
           /\ \A j \in 1..Len(Hs(a)) :
                /\ Hs(b)[j].dir = Hs(a)[j].dir /\ Hs(b)[j].bytes = Hs(a)[j].bytes
                /\ Hs(b)[j].size = IF j = Len(Hs(a)) THEN n ELSE Hs(a)[j].size
           /\ b.tablas[0].tam = a.tablas[0].tam /\ b.tablas[0].enLista = a.tablas[0].enLista
<1> DEFINE j == Len(Hs(a))
           h == [Hs(a)[j] EXCEPT !.size = n]
           x == PonerHeader(a, j, h)
           g == [Hs(x)[j] EXCEPT !.libre = FALSE]
<1>1. Hs(a) \in Seq(Heap) /\ j \in 1..Len(Hs(a)) /\ DOMAIN Hs(a) = 1..Len(Hs(a)) /\ Hs(a)[j] \in Heap
  BY SegmentoUno, HeaderUno
<1>2. h \in Heap /\ h.dir = Hs(a)[j].dir /\ h.bytes = Hs(a)[j].bytes /\ h.size = n
  BY <1>1 DEF Heap
<1>3. b = PonerHeader(x, j, g)
  BY DEF PonerHeader, OcuparUltimo, Hs, Headers
<1> HIDE DEF h
<1>4. /\ MismasPaginas(a, x) /\ Hs(x) \in Seq(Heap) /\ Len(Hs(x)) = Len(Hs(a))
      /\ \A i \in 1..Len(Hs(a)) : Hs(x)[i] = IF i = j THEN h ELSE Hs(a)[i]
      /\ x.tablas[0].tam = a.tablas[0].tam /\ x.tablas[0].enLista = a.tablas[0].enLista
  BY ZenonT(60), <1>1, <1>2, HeapsUno
<1> HIDE DEF x
<1>5. Hs(x)[j] = h /\ x \in Memoria /\ j \in 1..Len(Hs(x))
  BY <1>1, <1>4 DEF MismasPaginas
<1>6. g \in Heap /\ g.dir = h.dir /\ g.bytes = h.bytes /\ g.size = n
  BY <1>2, <1>5 DEF Heap
<1> HIDE DEF g, j
<1>7. /\ MismasPaginas(x, b) /\ Hs(b) \in Seq(Heap) /\ Len(Hs(b)) = Len(Hs(x))
      /\ \A i \in 1..Len(Hs(x)) : Hs(b)[i] = IF i = j THEN g ELSE Hs(x)[i]
      /\ b.tablas[0].tam = x.tablas[0].tam /\ b.tablas[0].enLista = x.tablas[0].enLista
  <2>1. LET c == PonerHeader(x, j, g)
        IN  /\ MismasPaginas(x, c) /\ Hs(c) \in Seq(Heap) /\ Len(Hs(c)) = Len(Hs(x))
            /\ \A i \in 1..Len(Hs(x)) : Hs(c)[i] = IF i = j THEN g ELSE Hs(x)[i]
            /\ c.tablas[0].tam = x.tablas[0].tam /\ c.tablas[0].enLista = x.tablas[0].enLista
    BY <1>5, <1>6, HeapsUno
  <2> QED BY <1>3, <2>1
<1>8. \A i \in 1..Len(Hs(a)) : Hs(b)[i] = IF i = j THEN g ELSE Hs(a)[i]
  BY <1>4, <1>7
<1>a. MismasPaginas(a, b)
  BY <1>4, <1>7 DEF MismasPaginas
<1>9. \A i \in 1..Len(Hs(a)) :
                /\ Hs(b)[i].dir = Hs(a)[i].dir /\ Hs(b)[i].bytes = Hs(a)[i].bytes
                /\ Hs(b)[i].size = IF i = j THEN n ELSE Hs(a)[i].size
  BY <1>2, <1>6, <1>8
<1> QED BY <1>4, <1>7, <1>9, <1>a DEF j

LEMMA LeerRecto ==
    ASSUME UnoSolo, NEW a \in Memoria, Recto(a), NEW k \in 0..(Len(Ps(a)) - 1),
           NEW b, b = LeerPagina(a, 0, k)
    PROVE  /\ Quieto(a, b) /\ b.mem = a.mem
           /\ Leido(b, 0, k) = [i \in 1..4 |-> a.mem[4 * k + i - 1]]
<1>1. HayPagina(a, 0, k) /\ LaPagina(a, 0, k).presencia /\ LaPagina(a, 0, k).marco = k
  BY PaginaRecta
<1>2. b = [a EXCEPT !.marcos[k].uso = 1]
  BY SMTT(60), <1>1 DEF LeerPagina
<1>3. Quieto(a, b) /\ b.mem = a.mem
  BY ZenonT(60), <1>2, MarcasHacen
<1>4. Posicion(b, 0, k) = 4 * k
  BY <1>3, PaginaRecta, QuietoRecto
<1>5. Leido(b, 0, k) = [i \in 1..4 |-> a.mem[4 * k + i - 1]]
  BY <1>3, <1>4, Cuatro DEF Leido
<1> QED BY <1>3, <1>5

\* n bytes of v, from the one after hecho on, are at d.
Copiado(a, b, d, v, hecho, n) ==
    \A x \in Direcciones :
        b.mem[x] = IF x >= d /\ x < d + n THEN <<v, hecho + (x - d + 1)>> ELSE a.mem[x]

LEMMA EscribirTira ==
    ASSUME UnoSolo, NEW a \in Memoria, NEW d \in Nat, NEW v \in Valores \cup {"cab", "basura", "cero"},
           NEW hecho \in Nat, NEW n \in Nat, d + n <= 4 * NMarcos
    PROVE  /\ Quieto(a, Escribir(a, d, Tira(v, hecho, n)))
           /\ Copiado(a, Escribir(a, d, Tira(v, hecho, n)), d, v, hecho, n)
<1> DEFINE t == Tira(v, hecho, n)
           b == Escribir(a, d, t)
<1>1. t \in Seq(Byte) /\ Len(t) = n
  BY TiraTipo
<1>2. \A i \in 1..n : t[i] = <<v, hecho + i>>
  BY DEF Tira
<1> HIDE DEF t
<1>3. TrasEscribir(a, d, t, b)
  BY <1>1, EscribirHace
<1> HIDE DEF b
<1>4. ASSUME NEW x \in Direcciones
      PROVE  b.mem[x] = IF x >= d /\ x < d + n THEN <<v, hecho + (x - d + 1)>> ELSE a.mem[x]
  <2>1. x \in Int
    BY Cuatro
  <2>2. x >= d /\ x < d + n => x - d + 1 \in 1..n
    BY <2>1
  <2>3. x >= d /\ x < d + n => t[x - d + 1] = <<v, hecho + (x - d + 1)>>
    BY <1>2, <2>2
  <2> QED BY <1>1, <1>3, <2>3 DEF TrasEscribir
<1>5. Quieto(a, b) /\ Copiado(a, b, d, v, hecho, n)
  BY <1>3, <1>4 DEF Copiado, TrasEscribir
<1> QED BY <1>5 DEF b, t

LEMMA QuietoSigue ==
    ASSUME NEW a, NEW b, NEW c, Quieto(a, b), Quieto(b, c)
    PROVE  Quieto(a, c)
BY DEF Quieto

LEMMA CopiarRecto ==
    ASSUME UnoSolo, NEW a \in Memoria, Recto(a), NEW k \in 0..(Len(Ps(a)) - 1), NEW v \in Valores,
           NEW hecho \in Nat, NEW n \in Nat, hecho < n, NEW c, c = (IF n - hecho >= 4 THEN 4 ELSE n - hecho),
           NEW b, b = CopiarPagina(a, 0, k, v, hecho, n)
    PROVE  Quieto(a, b) /\ Copiado(a, b, 4 * k, v, hecho, c)
<1>1. /\ HayPagina(a, 0, k) /\ LaPagina(a, 0, k).presencia /\ LaPagina(a, 0, k).marco = k
      /\ k \in Nat /\ 4 * k + 4 <= 4 * NMarcos
  BY PaginaRecta
<1>2. c \in Nat /\ c <= 4 /\ c = (IF n - hecho >= PAG THEN PAG ELSE n - hecho) /\ k * PAG = 4 * k
  BY <1>1, Cuatro
<1> DEFINE e == Escribir(a, 4 * k, Tira(v, hecho, c))
<1>3. b = [e EXCEPT !.marcos[k].uso = 1, !.marcos[k].mod = 1]
  BY <1>1, <1>2 DEF CopiarPagina
<1>4. Quieto(a, e) /\ Copiado(a, e, 4 * k, v, hecho, c)
  <2>1. 4 * k \in Nat /\ 4 * k + c <= 4 * NMarcos
    BY <1>1, <1>2, Cuatro
  <2> QED BY <1>2, <2>1, EscribirTira
<1> HIDE DEF e
<1>5. e \in Memoria
  BY <1>4 DEF Quieto
<1>6. Quieto(e, b) /\ b.mem = e.mem
  BY ZenonT(60), <1>3, <1>5, MarcasHacen
<1> QED BY <1>4, <1>6, QuietoSigue DEF Copiado

\* The data of a header that is split begin after its second half.
EnDos(h) == h.bytes = 4 - (h.dir % 4)

LEMMA PorCuatro ==
    ASSUME NEW x \in Nat
    PROVE  x \div 4 \in Nat /\ (x % 4) \in 0..3 /\ x = 4 * (x \div 4) + (x % 4)
OBVIOUS

LEMMA DatosDe ==
    ASSUME UnoSolo, NEW h \in Heap, EnDos(h)
    PROVE  /\ Partido(h) /\ PaginaDatos(h) = h.dir \div 4 + 1 /\ PaginaDatos(h) \in Nat
           /\ InicioDatos(h) = 1 + (h.dir % 4)
           /\ 4 * PaginaDatos(h) + InicioDatos(h) = h.dir + HM
           /\ 4 * PaginaDatos(h) <= h.dir + 4
           /\ h.dir \in Nat /\ h.dir \div 4 \in Nat /\ h.dir = 4 * (h.dir \div 4) + (h.dir % 4) /\ (h.dir % 4) \in 0..3
<1>1. h.dir \in Nat /\ h.bytes \in Nat /\ PAG = 4 /\ HM = 5
  BY Cuatro DEF Heap
<1> DEFINE q == h.dir \div 4
           r == h.dir % 4
<1>2. q \in Nat /\ r \in 0..3 /\ h.dir = 4 * q + r
  BY <1>1, PorCuatro
<1>a. h.bytes = 4 - r
  BY DEF EnDos
<1> HIDE DEF r
<1>3. Partido(h) /\ PaginaDatos(h) = q + 1 /\ InicioDatos(h) = 1 + r
  <2>1. h.bytes < HM /\ HM - h.bytes = 1 + r
    BY <1>1, <1>2, <1>a
  <2> QED BY <1>1, <2>1 DEF Partido, PaginaDatos, InicioDatos
<1> HIDE DEF q
<1>4. /\ PaginaDatos(h) \in Nat /\ 4 * PaginaDatos(h) + InicioDatos(h) = h.dir + HM
      /\ 4 * PaginaDatos(h) <= h.dir + 4
  BY <1>1, <1>2, <1>3
<1> QED BY <1>1, <1>2, <1>3, <1>4 DEF q, r

LEMMA PrimeraRecta ==
    ASSUME UnoSolo, NEW a \in Memoria, Recto(a), NEW h \in Heap, EnDos(h),
           NEW d, d = h.dir + HM, NEW n \in Nat, NEW v \in Valores,
           h.dir + HM <= 4 * Len(Ps(a)) - 4, 
           NEW c, c = EnPrimera(h, d, n), NEW b, b = CopiarPrimera(a, 0, h, d, n, v)
    PROVE  /\ c \in 0..n /\ (c < n => 4 * (PaginaDatos(h) + 1) = d + c)
           /\ Quieto(a, b) /\ Copiado(a, b, d, v, 0, c)
<1> DEFINE k == PaginaDatos(h)
           r == h.dir % 4
           q == h.dir \div 4
<1>1. /\ Partido(h) /\ k = q + 1 /\ k \in Nat /\ q \in Nat /\ h.dir \in Nat /\ h.dir = 4 * q + r /\ r \in 0..3
      /\ PAG = 4 /\ HM = 5 /\ h.bytes = 4 - r /\ NMarcos \in Nat
  BY DatosDe, Cuatro DEF EnDos
<1>2. Len(Ps(a)) \in Nat /\ Len(Ps(a)) <= NMarcos
  BY SegmentoUno DEF Recto
<1> HIDE DEF k, r, q
<1>3. d \in Nat /\ d = 4 * q + r + 5 /\ k \in 0..(Len(Ps(a)) - 1)
  BY <1>1, <1>2
<1>4. c = IF n < 3 - r THEN n ELSE 3 - r
  BY <1>1 DEF EnPrimera
<1>5. c \in 0..n /\ (c < n => 4 * (k + 1) = d + c) /\ d + c <= 4 * NMarcos /\ c \in Nat
  <2>1. c \in Nat /\ c \in 0..n /\ c <= 3 - r /\ (c < n => c = 3 - r)
    BY <1>1, <1>4
  <2>2. d <= 4 * Len(Ps(a)) - 4
    BY <1>1
  <2>3. 4 * (k + 1) = d + (3 - r)
    BY <1>1, <1>3
  <2> QED BY SMTT(60), <1>1, <1>2, <1>3, <2>1, <2>2, <2>3
<1>6. LaPagina(a, 0, k).marco = k
  BY <1>3, PaginaRecta
<1> DEFINE x == [a EXCEPT !.marcos[k].uso = 1, !.marcos[k].mod = 1]
<1>7. b = Escribir(x, 4 * k + (d % 4), Tira(v, 0, c))
  <2>1. k # -1 /\ k * PAG + (d % PAG) = 4 * k + (d % 4)
    BY <1>1
  <2> QED BY <1>6, <2>1 DEF CopiarPrimera, k
<1>8. Quieto(a, x) /\ x.mem = a.mem
  BY ZenonT(60), MarcasHacen
<1> HIDE DEF x
<1>9. x \in Memoria
  BY <1>8 DEF Quieto
<1>10. CASE r < 3
  <2>1. 4 * k + (d % 4) = d
    BY <1>1, <1>3, <1>10
  <2>2. Quieto(x, b) /\ Copiado(x, b, d, v, 0, c)
    BY ZenonT(60), <1>3, <1>5, <1>7, <1>9, <2>1, EscribirTira
  <2>3. Quieto(a, b) /\ Copiado(a, b, d, v, 0, c)
    BY <1>8, <2>2, QuietoSigue DEF Copiado
  <2> QED BY <1>5, <2>3 DEF k
<1>11. CASE r = 3
  <2>1. c = 0 /\ 4 * k + (d % 4) \in Nat /\ 4 * k + (d % 4) + 0 <= 4 * NMarcos
    BY <1>1, <1>2, <1>3, <1>4, <1>11
  <2> DEFINE p == 4 * k + (d % 4)
  <2>2. b = Escribir(x, p, Tira(v, 0, 0))
    BY <1>7, <2>1
  <2>3. p \in Nat /\ p + 0 <= 4 * NMarcos
    BY <2>1
  <2> HIDE DEF p
  <2>4. Quieto(x, b) /\ Copiado(x, b, p, v, 0, 0)
    BY <1>9, <2>2, <2>3, EscribirTira
  <2>5. ASSUME NEW y \in Direcciones PROVE b.mem[y] = a.mem[y]
    <3>1. y \in Int /\ ~ (y >= p /\ y < p + 0)
      BY <2>3, Cuatro
    <3> QED BY <1>8, <2>4, <3>1 DEF Copiado
  <2>6. \A y \in Direcciones : ~ (y >= d /\ y < d + c)
    BY <1>3, <2>1, Cuatro
  <2>7. Quieto(a, b) /\ Copiado(a, b, d, v, 0, c)
    BY <1>8, <2>4, <2>5, <2>6, QuietoSigue DEF Copiado
  <2> QED BY <1>5, <2>7 DEF k
<1> QED BY <1>1, <1>10, <1>11

\* Header after header, each one where the data of the one before end.
Cadena(hs) ==
    /\ hs # <<>> => hs[1].dir = 0
    /\ \A j \in 1..Len(hs) : EnDos(hs[j])
    /\ \A j \in 1..(Len(hs) - 1) : hs[j + 1].dir = Sig(hs[j])
    /\ \A i, j \in 1..Len(hs) : i < j => Sig(hs[i]) <= hs[j].dir

LEMMA HeaderEs ==
    ASSUME UnoSolo, NEW a \in Memoria, Cadena(Hs(a)), NEW j \in 1..Len(Hs(a))
    PROVE  /\ Hs(a)[j] \in Heap /\ EnDos(Hs(a)[j]) /\ Hs(a)[j].dir \in Nat /\ Hs(a)[j].size \in Nat
           /\ HM = 5 /\ j \in Nat /\ Len(Ps(a)) \in Nat /\ Len(Hs(a)) \in Nat
           /\ \A i \in 1..Len(Hs(a)) : i < j => Hs(a)[i].dir + HM + Hs(a)[i].size <= Hs(a)[j].dir
<1>1. Hs(a)[j] \in Heap /\ Hs(a)[j].dir \in Nat /\ Hs(a)[j].size \in Nat
  BY HeaderUno
<1>2. HM = 5 /\ Len(Ps(a)) \in Nat /\ Len(Hs(a)) \in Nat
  BY Cuatro, SegmentoUno
<1>3. j \in Nat
  BY <1>2
<1>4. EnDos(Hs(a)[j])
  BY DEF Cadena
<1>5. \A i \in 1..Len(Hs(a)) : i < j => Hs(a)[i].dir + HM + Hs(a)[i].size <= Hs(a)[j].dir
  BY DEF Cadena, Sig
<1> QED BY <1>1, <1>2, <1>3, <1>4, <1>5

LEMMA FaltaEs ==
    ASSUME UnoSolo, NEW a \in Memoria, NEW h \in Heap, EnDos(h), NEW n \in Nat
    PROVE  /\ FaltaPagina(a, 0, h, n) <=> h.dir + HM + n >= 4 * Len(Ps(a))
           /\ PaginaFin(h, n) = (h.dir + HM + n) \div 4
           /\ PaginaDatos(h) <= PaginaFin(h, n) /\ h.dir \div 4 <= PaginaDatos(h)
<1> DEFINE k == PaginaDatos(h)
           f == PaginaFin(h, n)
           N == Len(Ps(a))
           e == h.dir + HM + n
<1>1. /\ k = h.dir \div 4 + 1 /\ k \in Nat /\ 4 * k <= h.dir + 4 /\ h.dir \in Nat /\ h.dir \div 4 \in Nat
  BY DatosDe
<1>2. N \in Nat /\ HM = 5 /\ PAG = 4 /\ DOMAIN Ps(a) = 1..N
  BY SegmentoUno, Cuatro
<1>3. e \in Nat /\ f = e \div 4 /\ e = h.dir + 5 + n
  BY SMTT(60), <1>1, <1>2 DEF PaginaFin
<1>4. f = (h.dir + HM + n) \div 4
  BY <1>3
<1> HIDE DEF e, k, f, N
<1>5. f \in Nat /\ 4 * f <= e /\ e <= 4 * f + 3
  BY <1>3
<1>6. k <= f /\ h.dir \div 4 <= k
  BY <1>1, <1>3, <1>5
<1>7. (HayPagina(a, 0, k) <=> k < N) /\ (HayPagina(a, 0, f) <=> f < N)
  BY SMTT(60), <1>1, <1>2, <1>5 DEF HayPagina, Ps, N
<1>8. (f >= N) <=> e >= 4 * N
  BY SMTT(60), <1>2, <1>3, <1>5
<1>9. FaltaPagina(a, 0, h, n) <=> e >= 4 * N
  BY <1>1, <1>2, <1>5, <1>6, <1>7, <1>8 DEF FaltaPagina, k, f
<1> QED BY <1>4, <1>6, <1>9 DEF e, k, f, N

LEMMA ContieneEs ==
    ASSUME UnoSolo, NEW a \in Memoria, Recto(a), NEW h \in Heap, EnDos(h), NEW n \in Nat,
           ~ FaltaPagina(a, 0, h, n), NEW d \in Nat
    PROVE  Contiene(a, 0, h, d, n) <=> h.size = n /\ h.dir + HM <= d /\ d <= h.dir + HM + n
<1> DEFINE k == PaginaDatos(h)
           f == PaginaFin(h, n)
           q == h.dir \div 4
           N == Len(Ps(a))
           e == h.dir + HM + n
<1>1. /\ Partido(h) /\ k \in Nat /\ q \in Nat /\ h.dir \in Nat
      /\ 4 * k + InicioDatos(h) = h.dir + HM /\ PAG = 4 /\ HM = 5
  BY DatosDe, Cuatro
<1>2. f = e \div 4 /\ k <= f /\ q <= k
  BY FaltaEs
<1>3. N \in Nat
  BY SegmentoUno
<1>4. e \in Nat /\ e < 4 * N
  <2>1. e \in Nat
    BY <1>1
  <2>2. ~ (e >= 4 * N)
    BY FaltaEs
  <2> HIDE DEF e, N
  <2> QED BY <1>3, <2>1, <2>2
<1> HIDE DEF k, f, q, N, e
<1>5. f \in Nat /\ e = 4 * f + (e % 4) /\ f < N
  BY <1>2, <1>3, <1>4
<1>6. k \in 0..(N - 1) /\ f \in 0..(N - 1) /\ q \in 0..(N - 1)
  BY <1>1, <1>2, <1>3, <1>5
<1>7. LaPagina(a, 0, k).marco = k /\ LaPagina(a, 0, f).marco = f /\ LaPagina(a, 0, q).marco = q
  BY <1>6, PaginaRecta DEF N
<1>8. ~ (f < q)
  BY <1>1, <1>2, <1>5
<1>9. k * PAG = 4 * k /\ f * PAG + (e % PAG) = e /\ h.dir \div PAG = q
  BY <1>1, <1>5 DEF q
<1>10. Contiene(a, 0, h, d, n) <=> h.size = n /\ d >= k * PAG + InicioDatos(h)
                                   /\ (d <= f * PAG + (e % PAG) \/ f < q)
  BY <1>1, <1>7, <1>9 DEF Contiene, k, f, e
<1>11. k * PAG + InicioDatos(h) = h.dir + HM
  BY <1>1, <1>9
<1> QED BY <1>1, <1>4, <1>8, <1>9, <1>10, <1>11 DEF e

\* n bytes at d are data of h.
Suyo(h, d, n) == d = h.dir + HM /\ n <= h.size

\* Only the header of a block stops the search of musecpy at it, if no page misses.
LEMMA ParadaUna ==
    ASSUME UnoSolo, NEW a \in Memoria, Recto(a), Cadena(Hs(a)), NEW j \in 1..Len(Hs(a)), NEW n \in Nat,
           NEW d \in Nat, Suyo(Hs(a)[j], d, n), NEW i \in 1..Len(Hs(a)),
           ~ FaltaPagina(a, 0, Hs(a)[i], n), Contiene(a, 0, Hs(a)[i], d, n)
    PROVE  i = j
<1> DEFINE h == Hs(a)[i]
           g == Hs(a)[j]
<1>1. h \in Heap /\ g \in Heap /\ h.dir \in Nat /\ g.dir \in Nat /\ h.size \in Nat /\ g.size \in Nat
      /\ HM = 5 /\ EnDos(h) /\ i \in Nat /\ j \in Nat
  BY HeaderEs
<1>4. h.size = n /\ h.dir + HM <= d /\ d <= h.dir + HM + n
  BY <1>1, ContieneEs
<1>5. /\ i < j => h.dir + HM + h.size <= g.dir
      /\ j < i => g.dir + HM + g.size <= h.dir
  BY HeaderEs
<1> HIDE DEF h, g
<1>6. d = g.dir + HM /\ n <= g.size
  BY DEF g, Suyo
<1>8. ~ (i < j)
  BY SMTT(60), <1>1, <1>4, <1>5, <1>6
<1>9. ~ (j < i)
  BY SMTT(60), <1>1, <1>4, <1>5, <1>6
<1> QED BY <1>1, <1>8, <1>9

\* The search of musecpy stops at the header of a block of that size.
LEMMA ParadaPropia ==
    ASSUME UnoSolo, NEW a \in Memoria, Recto(a), Cadena(Hs(a)), NEW j \in 1..Len(Hs(a)), NEW n \in Nat,
           NEW d \in Nat, Suyo(Hs(a)[j], d, n), Hs(a)[j].size = n, d + n < 4 * Len(Ps(a))
    PROVE  Paradas(a, 0, d, n) # {} /\ Menor(Paradas(a, 0, d, n)) = j /\ ~ FaltaPagina(a, 0, Hs(a)[j], n)
<1> DEFINE g == Hs(a)[j]
           P == Paradas(a, 0, d, n)
<1>0. g \in Heap /\ g.dir \in Nat /\ g.size \in Nat /\ HM = 5 /\ EnDos(g) /\ j \in Nat
      /\ Len(Ps(a)) \in Nat
  BY HeaderEs
<1>1. d \in Nat /\ d = g.dir + 5 /\ g.size = n /\ g \in Heap /\ g.dir \in Nat /\ g.size \in Nat /\ HM = 5 /\ EnDos(g)
      /\ j \in Nat /\ Len(Ps(a)) \in Nat
  BY <1>0 DEF Suyo
<1>2. ~ FaltaPagina(a, 0, g, n) /\ Contiene(a, 0, g, d, n)
  <2>1. g.dir + HM + n < 4 * Len(Ps(a))
    BY <1>1
  <2>2. ~ (g.dir + HM + n >= 4 * Len(Ps(a)))
    BY <1>1, <2>1
  <2>3. g.size = n /\ g.dir + HM <= d /\ d <= g.dir + HM + n
    BY SMTT(60), <1>1
  <2>4. FaltaPagina(a, 0, g, n) <=> g.dir + HM + n >= 4 * Len(Ps(a))
    BY <1>1, FaltaEs
  <2>5. ~ FaltaPagina(a, 0, g, n)
    BY <2>2, <2>4
  <2>6. Contiene(a, 0, g, d, n) <=> g.size = n /\ g.dir + HM <= d /\ d <= g.dir + HM + n
    BY SMTT(60), <1>1, <2>5, ContieneEs
  <2> QED BY <2>3, <2>5, <2>6
<1>3. DOMAIN Headers(a, 0) = 1..Len(Hs(a)) /\ Headers(a, 0) = Hs(a)
  BY SegmentoUno DEF Hs
<1>4. j \in P
  BY <1>2, <1>3 DEF Paradas
<1>5. ASSUME NEW i \in P PROVE j <= i
  <2>1. i \in 1..Len(Hs(a)) /\ i \in Nat /\ (FaltaPagina(a, 0, Hs(a)[i], n) \/ Contiene(a, 0, Hs(a)[i], d, n))
    BY <1>3 DEF Paradas
  <2> SUFFICES ASSUME i < j PROVE FALSE
    BY <1>1, <2>1
  <2> DEFINE h == Hs(a)[i]
  <2>2. h \in Heap /\ h.dir \in Nat /\ h.size \in Nat /\ EnDos(h)
    BY <2>1, HeaderEs
  <2>3. h.dir + HM + h.size <= g.dir
    BY <2>1, HeaderEs
  <2>4. ~ (h.dir + HM + n >= 4 * Len(Ps(a)))
    <3>2. /\ d = g.dir + 5 /\ g.dir \in Nat /\ g.size \in Nat /\ HM = 5 /\ Len(Ps(a)) \in Nat
          /\ d + n < 4 * Len(Ps(a))
      BY <1>1
    <3> HIDE DEF h, g
    <3>1. h.dir <= g.dir
      BY SMTT(60), <2>2, <2>3, <3>2
    <3> QED BY SMTT(60), <2>2, <3>1, <3>2
  <2>5. ~ FaltaPagina(a, 0, h, n)
    BY <2>2, <2>4, FaltaEs
  <2>6. i = j
    <3>1. Contiene(a, 0, Hs(a)[i], d, n)
      BY <2>1, <2>5
    <3> QED BY <2>1, <2>5, <3>1, ParadaUna
  <2> QED BY <1>1, <2>6
<1>6. Menor(P) = j
  <2>1. P \subseteq Nat
    BY <1>3 DEF Paradas
  <2> HIDE DEF P
  <2>2. Menor(P) \in P /\ \A y \in P : Menor(P) <= y
    BY <1>4, <2>1, MenorEsMenor
  <2>3. j <= Menor(P) /\ Menor(P) <= j /\ Menor(P) \in Nat
    BY <1>4, <1>5, <2>1, <2>2
  <2> HIDE DEF g
  <2> QED BY <1>1, <2>3
<1> QED BY <1>2, <1>4, <1>6

----------------------------------------------------------------------------
(* The inductive invariant of one program at a time.                       *)

\* The pages that an alloc still has to add have not been added.
Reserva(t) == t.op = "alloc" /\ t.resta > 0
Ultimo(a) == Hs(a)[Len(Hs(a))]
\* The header of the block that an alloc will deliver, or else the last one: the blocks
\* that were delivered are those of headers before it.
Tope(a, t) == IF t.op = "alloc" /\ t.resta = 0 THEN Len(Hs(a)) - 1 ELSE Len(Hs(a))

\* The last block ends with the last page, or will.
Final(a, t) ==
    /\ a.tablas[0].tam >= 4 * Len(Ps(a))
    /\ Reserva(t) => Sig(Ultimo(a)) + HM = 4 * Len(Ps(a)) + t.resta
    /\ ~ Reserva(t) =>
         /\ Sig(Ultimo(a)) = 4 * Len(Ps(a)) /\ Ultimo(a).size < 4
         /\ ~ Ultimo(a).libre => Ultimo(a).size = 0
EnCurso(a, t) ==
    t.op = "alloc" =>
        /\ t.resta >= 0 /\ t.n \in Tams /\ Hs(a) # <<>> /\ Tope(a, t) >= 1
        /\ Hs(a)[Tope(a, t)].size = t.n
        /\ ~ a.tablas[0].enLista => Tope(a, t) = 1
Completo(a, t) ==
    t.op # "alloc" => (a.tablas[0].enLista <=> Hs(a) # <<>>) /\ (a.tablas[0].enLista <=> Ps(a) # <<>>)
\* The sizes of the headers, but that of the last when it is what was left.
Medidas(a, t) == \A j \in 1..Len(Hs(a)) : j < Len(Hs(a)) \/ Reserva(t) => Hs(a)[j].size \in Tams
DeHeader(b, h) == b.dir = h.dir + HM /\ b.n = h.size
Puestos(a, t, B) ==
    /\ \A b \in B : \E j \in 1..(Tope(a, t) - 1) : DeHeader(b, Hs(a)[j])
    /\ \A b, c \in B : b.dir = c.dir => b = c
\* Where a read or a copy is.
EnBloque(t, B) ==
    /\ t.op \in {"get", "cpy"} => \E b \in B : b.dir = t.dir /\ b.n = t.n
    /\ t.op = "cpy" /\ t.hecho < t.n => 4 * t.k = t.dir + t.hecho
    /\ t.op = "get" => t.k >= t.dir \div 4
\* What a copy has written, and what a read has read.
Datos(a, t) ==
    /\ t.op = "cpy" => \A i \in 1..t.hecho : a.mem[t.dir + i - 1] = <<t.v, i>>
    /\ t.op = "get" =>
         /\ Len(t.leido) = 4 * (t.k - t.dir \div 4)
         /\ \A i \in 1..Len(t.leido) : t.leido[i] = a.mem[4 * (t.dir \div 4) + i - 1]

Segmentado(a, t) ==
    /\ a.caida = "no" /\ Recto(a) /\ Cadena(Hs(a))
    /\ Hs(a) # <<>> => Final(a, t)
    /\ EnCurso(a, t) /\ Completo(a, t) /\ Medidas(a, t)
UnoInv ==
    /\ Segmentado(m, tarea) /\ Puestos(m, tarea, bloques[0])
    /\ EnBloque(tarea, bloques[0]) /\ Datos(m, tarea)

\* How far the blocks reach: where the last header is, or will be.
Hasta(a, t) ==
    IF Hs(a) = <<>> THEN 0
    ELSE Ultimo(a).dir + (IF Reserva(t) THEN t.n + 5 ELSE 0)

LEMMA HastaIgual ==
    ASSUME NEW a, NEW t, NEW b, NEW u, Hs(b) = Hs(a), t.op # "alloc", u.op # "alloc"
    PROVE  Hasta(b, u) = Hasta(a, t)
BY DEF Hasta, Reserva, Ultimo

\* What changes neither the segment nor its pages.
Igualados(a, b) ==
    /\ b \in Memoria /\ Ps(b) = Ps(a) /\ Hs(b) = Hs(a) /\ Recto(b) /\ b.caida = a.caida
    /\ b.tablas[0].tam = a.tablas[0].tam /\ b.tablas[0].enLista = a.tablas[0].enLista

LEMMA QuietoIgualados ==
    ASSUME NEW a, NEW b, Quieto(a, b), Recto(a)
    PROVE  Igualados(a, b)
BY QuietoRecto DEF Igualados

LEMMA SegmentadoSigue ==
    ASSUME NEW a, NEW t, t.op # "alloc", NEW b, NEW u, u.op # "alloc", Segmentado(a, t), Igualados(a, b)
    PROVE  /\ Segmentado(b, u)
           /\ \A B : Puestos(a, t, B) => Puestos(b, u, B)
<1>1. Hs(b) = Hs(a) /\ Ps(b) = Ps(a) /\ Ultimo(b) = Ultimo(a)
  BY DEF Igualados, Ultimo
<1>2. Tope(b, u) = Tope(a, t) /\ ~ Reserva(t) /\ ~ Reserva(u)
  BY <1>1 DEF Tope, Reserva
<1>3. /\ b.tablas[0].tam = a.tablas[0].tam /\ b.tablas[0].enLista = a.tablas[0].enLista
      /\ b.caida = "no" /\ Recto(b) /\ Cadena(Hs(b))
  BY <1>1 DEF Igualados, Segmentado
<1>4. Hs(b) # <<>> => Final(b, u)
  BY <1>1, <1>2, <1>3 DEF Segmentado, Final
<1>5. EnCurso(b, u) /\ Completo(b, u)
  BY <1>1, <1>3 DEF Segmentado, EnCurso, Completo
<1>6. Medidas(b, u)
  BY <1>1, <1>2 DEF Segmentado, Medidas
<1>7. ASSUME NEW B, Puestos(a, t, B) PROVE Puestos(b, u, B)
  BY <1>1, <1>2, <1>7 DEF Puestos
<1> QED BY <1>3, <1>4, <1>5, <1>6, <1>7 DEF Segmentado

\* The header of a block.
Dueno(a, j, b) ==
    /\ j \in 1..Len(Hs(a)) /\ j < Len(Hs(a)) /\ j \in Nat /\ Hs(a)[j] \in Heap
    /\ DeHeader(b, Hs(a)[j]) /\ Suyo(Hs(a)[j], b.dir, b.n) /\ Hs(a)[j].size = b.n
    /\ b.n \in Nat \ {0} /\ b.n \in Tams /\ b.dir \in Nat /\ b.dir >= 5

LEMMA TopeEs ==
    ASSUME UnoSolo, NEW a \in Memoria, NEW t
    PROVE  Tope(a, t) \in Int /\ Tope(a, t) <= Len(Hs(a)) /\ Len(Hs(a)) \in Nat
BY SegmentoUno DEF Tope

LEMMA BloqueDe ==
    ASSUME UnoSolo, NEW a \in Memoria, NEW t, Segmentado(a, t), NEW B, Puestos(a, t, B), NEW b \in B
    PROVE  \E j \in 1..(Tope(a, t) - 1) : Dueno(a, j, b)
<1>1. PICK j \in 1..(Tope(a, t) - 1) : DeHeader(b, Hs(a)[j])
  BY DEF Puestos
<1>2. j \in 1..Len(Hs(a)) /\ j < Len(Hs(a)) /\ j \in Nat
  BY TopeEs
<1>3. Hs(a)[j] \in Heap /\ Hs(a)[j].dir \in Nat /\ Hs(a)[j].size \in Nat /\ HM = 5
  BY <1>2, HeaderUno, Cuatro
<1>4. Hs(a)[j].size \in Tams
  BY <1>2 DEF Segmentado, Medidas
<1>5. Tams \subseteq Nat \ {0}
  BY PedidosAssumption
<1> HIDE DEF Hs
<1>6. b.dir = Hs(a)[j].dir + HM /\ b.n = Hs(a)[j].size
  BY <1>1 DEF DeHeader
<1>7. b.n <= Hs(a)[j].size /\ b.dir \in Nat /\ b.dir >= 5
  BY <1>3, <1>6
<1>8. Dueno(a, j, b)
  BY <1>1, <1>2, <1>3, <1>4, <1>5, <1>6, <1>7 DEF Dueno, Suyo
<1> QED BY <1>8

LEMMA DatosAntes ==
    ASSUME UnoSolo, NEW a \in Memoria, Cadena(Hs(a)), NEW b, NEW j, Dueno(a, j, b)
    PROVE  /\ \A i \in 1..Len(Hs(a)) : j < i => b.dir + b.n <= Hs(a)[i].dir
           /\ b.dir + b.n <= Ultimo(a).dir /\ Ultimo(a) \in Heap /\ Len(Hs(a)) \in 1..Len(Hs(a))
<1>1. j \in 1..Len(Hs(a)) /\ Len(Hs(a)) \in 1..Len(Hs(a)) /\ j < Len(Hs(a))
  BY SegmentoUno DEF Dueno
<1>2. ASSUME NEW i \in 1..Len(Hs(a)), j < i PROVE b.dir + b.n <= Hs(a)[i].dir
  <2>1. Hs(a)[j].dir + HM + Hs(a)[j].size <= Hs(a)[i].dir
    BY <1>1, <1>2, HeaderEs
  <2>2. Hs(a)[j].dir + HM = b.dir /\ Hs(a)[j].size = b.n
    BY DEF Dueno, DeHeader
  <2> QED BY <2>1, <2>2
<1> QED BY <1>1, <1>2, HeaderUno DEF Ultimo

\* Between requests, and while one reads or copies, the data end before the last header.
LEMMA DatosDentro ==
    ASSUME UnoSolo, NEW a \in Memoria, NEW t, t.op # "alloc", Segmentado(a, t), NEW b, NEW j, Dueno(a, j, b)
    PROVE  /\ b.dir + b.n + 5 <= 4 * Len(Ps(a)) /\ 4 * Len(Ps(a)) <= a.tablas[0].tam
           /\ a.tablas[0].enLista /\ Len(Ps(a)) \in Nat /\ Hs(a) # <<>> /\ Len(Hs(a)) \in Nat
           /\ Ultimo(a).dir + 5 <= 4 * Len(Ps(a)) /\ Ultimo(a).dir \in Nat
<1>1. Hs(a) # <<>> /\ Len(Ps(a)) \in Nat /\ Len(Hs(a)) \in Nat /\ HM = 5
  BY SegmentoUno, Cuatro DEF Dueno
<1>2. b.dir + b.n <= Ultimo(a).dir /\ Ultimo(a) \in Heap
  BY DatosAntes DEF Segmentado
<1>3. Final(a, t) /\ ~ Reserva(t) /\ a.tablas[0].enLista
  BY <1>1 DEF Segmentado, Reserva, Completo
<1>4. Ultimo(a).dir + HM + Ultimo(a).size = 4 * Len(Ps(a)) /\ 4 * Len(Ps(a)) <= a.tablas[0].tam
  <2>1. a.tablas[0].tam \in Nat /\ a.tablas[0].tam >= 4 * Len(Ps(a))
    BY <1>3, SegmentoUno DEF Final
  <2> QED BY <1>1, <1>3, <2>1 DEF Final, Sig
<1>5. Ultimo(a).dir \in Nat /\ Ultimo(a).size \in Nat
  BY <1>2 DEF Heap
<1>6. b.dir \in Nat /\ b.n \in Nat
  BY DEF Dueno
<1> HIDE DEF Ultimo
<1>7. b.dir + b.n + 5 <= 4 * Len(Ps(a)) /\ Ultimo(a).dir + 5 <= 4 * Len(Ps(a))
  BY SMTT(60), <1>1, <1>2, <1>4, <1>5, <1>6
<1> QED BY <1>1, <1>3, <1>4, <1>5, <1>7

LEMMA BloquesApartados ==
    ASSUME UnoSolo, NEW a \in Memoria, NEW t, Segmentado(a, t), NEW B, Puestos(a, t, B),
           NEW b \in B, NEW c \in B, b # c
    PROVE  b.dir + b.n <= c.dir \/ c.dir + c.n <= b.dir
<1>1. PICK i : Dueno(a, i, b)
  BY BloqueDe
<1>2. PICK j : Dueno(a, j, c)
  BY BloqueDe
<1>3. Cadena(Hs(a)) /\ i \in 1..Len(Hs(a)) /\ j \in 1..Len(Hs(a)) /\ i \in Nat /\ j \in Nat
  BY <1>1, <1>2 DEF Segmentado, Dueno
<1>4. i # j
  <2> SUFFICES ASSUME i = j PROVE FALSE
    OBVIOUS
  <2>1. b.dir = c.dir
    BY <1>1, <1>2 DEF Dueno, DeHeader
  <2> QED BY <2>1 DEF Puestos
<1>5. CASE i < j
  <2>1. b.dir + b.n <= Hs(a)[j].dir
    BY <1>1, <1>3, <1>5, DatosAntes
  <2>2. c.dir = Hs(a)[j].dir + 5 /\ Hs(a)[j].dir \in Nat
    BY <1>2, <1>3, Cuatro, HeaderUno DEF Dueno, DeHeader
  <2>3. b.dir \in Nat /\ b.n \in Nat
    BY <1>1 DEF Dueno
  <2> QED BY <2>1, <2>2, <2>3
<1>6. CASE j < i
  <2>1. c.dir + c.n <= Hs(a)[i].dir
    BY <1>2, <1>3, <1>6, DatosAntes
  <2>2. b.dir = Hs(a)[i].dir + 5 /\ Hs(a)[i].dir \in Nat
    BY <1>1, <1>3, Cuatro, HeaderUno DEF Dueno, DeHeader
  <2>3. c.dir \in Nat /\ c.n \in Nat
    BY <1>2 DEF Dueno
  <2> QED BY <2>1, <2>2, <2>3
<1> QED BY <1>3, <1>4, <1>5, <1>6

LEMMA PuestosMenos ==
    ASSUME NEW a, NEW t, NEW B, NEW C, C \subseteq B, Puestos(a, t, B)
    PROVE  Puestos(a, t, C)
BY DEF Puestos

\* What a request that is not an alloc finds.
LEMMA UnoEs ==
    ASSUME UnoSolo, MuseInv, UnoInv
    PROVE  /\ m \in Memoria /\ m.caida = "no" /\ Recto(m) /\ Cadena(Hs(m)) /\ Segmentado(m, tarea)
           /\ Puestos(m, tarea, bloques[0]) /\ tarea \in Tarea /\ tarea.s = 0 /\ tarea.hecho <= tarea.n
           /\ tarea.op \in {"nada", "alloc", "get", "cpy"}
           /\ tarea.n \in Nat /\ tarea.dir \in Nat /\ tarea.k \in Nat /\ tarea.hecho \in Nat
           /\ tarea.resta \in Int /\ tarea.leido \in Seq(Byte) /\ (tarea.op = "cpy" => tarea.v \in Valores)
           /\ bloques \in [Slots -> SUBSET Bloque] /\ bloques[0] \subseteq Bloque
           /\ DOMAIN bloques = {0}
<1>1. Slots = {0}
  BY Cuatro
<1>2. tarea \in Tarea /\ tarea.hecho <= tarea.n /\ (tarea.op = "cpy" => tarea.v \in Valores) /\ m \in Memoria
  BY DEF MuseInv, TareaBien
<1>3. bloques \in [Slots -> SUBSET Bloque]
  BY DEF MuseInv, OtrosBien
<1> QED BY <1>1, <1>2, <1>3 DEF UnoInv, Segmentado, Tarea

LEMMA LlamaUno ==
    ASSUME UnoSolo, MuseInv, UnoInv, Llamar
    PROVE  tarea = Ninguna /\ tarea.op = "nada" /\ Orden(m, -1, {})
BY LlamarBien

\* A step that leaves the segment as it is.
LEMMA PasoIgual ==
    ASSUME UnoSolo, MuseInv, UnoInv, tarea.op # "alloc", tarea'.op = "nada", Igualados(m, m'),
           bloques'[0] \subseteq bloques[0]
    PROVE  UnoInv'
<1>1. Segmentado(m', tarea') /\ Puestos(m', tarea', bloques[0])
  BY UnoEs, SegmentadoSigue
<1>2. Puestos(m', tarea', bloques'[0])
  BY <1>1, PuestosMenos
<1>3. EnBloque(tarea', bloques'[0]) /\ Datos(m', tarea')
  BY DEF EnBloque, Datos
<1> QED BY <1>1, <1>2, <1>3 DEF UnoInv

LEMMA ClientesIgualados ==
    ASSUME NEW a \in Memoria, Recto(a), NEW x \in SUBSET Slots, NEW b, b = [a EXCEPT !.clientes = x]
    PROVE  Igualados(a, b) /\ b.mem = a.mem
<1>1. b \in Memoria
  BY CampoTipo
<1>2. b.tablas = a.tablas /\ b.marcos = a.marcos /\ b.caida = a.caida /\ b.mem = a.mem /\ b.elegido = a.elegido
  BY DEF Memoria
<1>3. Quieto(a, b)
  BY <1>1, <1>2 DEF Quieto, Libres
<1> QED BY <1>2, <1>3, QuietoIgualados

LEMMA AceptarUno ==
    ASSUME UnoSolo, MuseInv, UnoInv, Aceptar
    PROVE  UnoInv' /\ m'.mem = m.mem /\ tarea' = tarea /\ bloques' = bloques /\ respuesta' = respuesta
           /\ Hasta(m', tarea') = Hasta(m, tarea)
<1> DEFINE s == Menor(Slots \ m.clientes)
<1>1. tarea = Ninguna /\ tarea.op = "nada" /\ tarea' = tarea /\ bloques' = bloques /\ respuesta' = respuesta
  BY LlamaUno DEF Aceptar
<1>2. s \in Slots /\ m.clientes \subseteq Slots
  <2>1. m.clientes \subseteq Slots
    BY UnoEs, CampoEs
  <2>2. Slots \ m.clientes # {} /\ Slots \ m.clientes \subseteq Nat
    BY <2>1, Numeros DEF Aceptar
  <2> QED BY <2>1, <2>2, MenorEsMenor
<1>3. m' = [m EXCEPT !.clientes = m.clientes \cup {s}]
  BY DEF Aceptar
<1> HIDE DEF s
<1>4. Igualados(m, m') /\ m'.mem = m.mem
  BY <1>2, <1>3, UnoEs, ClientesIgualados
<1>5. Hasta(m', tarea') = Hasta(m, tarea)
  BY <1>1, <1>4, HastaIgual DEF Igualados
<1> QED BY <1>1, <1>4, <1>5, PasoIgual

LEMMA MuseCloseUno ==
    ASSUME UnoSolo, MuseInv, UnoInv, MuseClose(0)
    PROVE  /\ UnoInv' /\ m'.mem = m.mem /\ tarea' = tarea /\ bloques'[0] = {} /\ respuesta' = respuesta
           /\ Hasta(m', tarea') = Hasta(m, tarea)
<1>1. tarea = Ninguna /\ tarea.op = "nada" /\ tarea' = tarea /\ respuesta' = respuesta
  BY LlamaUno DEF MuseClose
<1>2. bloques'[0] = {}
  BY UnoEs DEF MuseClose
<1>3. m' = [m EXCEPT !.clientes = m.clientes \ {0}] /\ m.clientes \subseteq Slots
  BY UnoEs, CampoEs DEF MuseClose
<1>4. Igualados(m, m') /\ m'.mem = m.mem
  BY <1>3, UnoEs, ClientesIgualados
<1>5. Hasta(m', tarea') = Hasta(m, tarea)
  BY <1>1, <1>4, HastaIgual DEF Igualados
<1> QED BY <1>1, <1>2, <1>4, <1>5, PasoIgual

LEMMA MuseInitUno ==
    ASSUME UnoSolo, MuseInv, UnoInv, MuseInit(0)
    PROVE  UnoInv' /\ m'.mem = m.mem /\ tarea' = tarea /\ bloques' = bloques /\ respuesta' = respuesta
           /\ Hasta(m', tarea') = Hasta(m, tarea)
<1>1. tarea = Ninguna /\ tarea.op = "nada" /\ tarea' = tarea /\ bloques' = bloques /\ respuesta' = respuesta
      /\ Orden(m, -1, {})
  BY LlamaUno DEF MuseInit
<1>2. m' = PonerTabla(m, ConTabla(m.tablas[0]))
  BY DEF MuseInit, PonerTabla
<1>3. m \in Memoria /\ Recto(m) /\ m.tablas[0] \in Segmento /\ m.tablas[0].enLista \in BOOLEAN
  BY UnoEs, SegmentoUno
<1>4. CASE m.tablas[0].tiene
  <2>1. ConTabla(m.tablas[0]) = m.tablas[0]
    BY <1>4 DEF ConTabla
  <2>2. m.tablas[0].paginas = Ps(m) /\ m.tablas[0].heaps = Hs(m)
    BY DEF Ps, Hs, PaginasDe, Headers
  <2>3. MismasPaginas(m, m') /\ m'.tablas[0] = m.tablas[0] /\ Hs(m') = Hs(m)
    BY <1>2, <1>3, <2>1, <2>2, TablaUna
  <2>4. Igualados(m, m') /\ m'.mem = m.mem
    BY <1>3, <2>3 DEF MismasPaginas, Igualados
  <2>5. Hasta(m', tarea') = Hasta(m, tarea)
    BY <1>1, <2>3, HastaIgual
  <2> QED BY <1>1, <2>4, <2>5, PasoIgual
<1>5. CASE ~ m.tablas[0].tiene
  <2> DEFINE t == ConTabla(m.tablas[0])
  <2>1. t = [tiene |-> TRUE, enLista |-> FALSE, paginas |-> <<>>, heaps |-> <<>>, tam |-> 0]
    BY <1>5 DEF ConTabla, SinSegmento
  <2>2. Ps(m) = <<>> /\ ~ m.tablas[0].enLista /\ Hs(m) = <<>>
    BY <1>1, <1>3, <1>5, UnoEs, Cuatro DEF Orden, EnListas, Ps, Segmentado, Completo
  <2> HIDE DEF t
  <2>3. <<>> \in Seq(Pagina) /\ <<>> \in Seq(Heap)
    OBVIOUS
  <2>4. t \in Segmento /\ t.paginas = Ps(m) /\ t.heaps = <<>> /\ ~ t.enLista
    BY <2>1, <2>2, <2>3 DEF Segmento
  <2>5. MismasPaginas(m, m') /\ m'.tablas[0] = t /\ Hs(m') = <<>>
    BY <1>2, <1>3, <2>4, TablaUna DEF t
  <2>6. Segmentado(m', tarea')
    <3>1. Recto(m') /\ m'.caida = "no" /\ Hs(m') = <<>> /\ Ps(m') = <<>> /\ ~ m'.tablas[0].enLista
      BY <1>3, <2>2, <2>4, <2>5, UnoEs DEF MismasPaginas
    <3>2. Cadena(<<>>)
      BY DEF Cadena
    <3>3. Medidas(m', tarea') /\ Completo(m', tarea') /\ EnCurso(m', tarea')
      BY <1>1, <3>1 DEF Medidas, Completo, EnCurso
    <3> QED BY <3>1, <3>2, <3>3 DEF Segmentado
  <2>7. bloques[0] = {}
    <3> SUFFICES ASSUME NEW b \in bloques[0] PROVE FALSE
      OBVIOUS
    <3>1. PICK j : Dueno(m, j, b)
      BY UnoEs, BloqueDe
    <3>2. 1..Len(Hs(m)) = {}
      BY <2>2
    <3> QED BY <3>1, <3>2 DEF Dueno
  <2>8. Puestos(m', tarea', bloques'[0]) /\ EnBloque(tarea', bloques'[0]) /\ Datos(m', tarea')
    BY <1>1, <2>7 DEF Puestos, EnBloque, Datos
  <2>9. Hasta(m', tarea') = Hasta(m, tarea)
    BY <1>1, <2>2, <2>5, HastaIgual
  <2> QED BY <1>1, <2>5, <2>6, <2>8, <2>9 DEF UnoInv, MismasPaginas
<1> QED BY <1>3, <1>4, <1>5, SegmentoEs, Cuatro

\* The header of a block of the program, between requests or while one reads or copies.
LEMMA BloqueUno ==
    ASSUME UnoSolo, MuseInv, UnoInv, tarea.op # "alloc", NEW b \in bloques[0]
    PROVE  /\ \E j \in 1..(Len(Hs(m)) - 1) : Dueno(m, j, b)
           /\ b \in Bloque /\ b.dir \in Nat /\ b.n \in Nat \ {0} /\ b.dir >= 5
           /\ b.dir + b.n + 5 <= 4 * Len(Ps(m)) /\ 4 * Len(Ps(m)) <= m.tablas[0].tam
           /\ m.tablas[0].enLista /\ Len(Ps(m)) \in Nat /\ m.tablas[0].tam \in Nat
           /\ Len(Ps(m)) <= NMarcos /\ NMarcos \in Nat
<1>1. /\ m \in Memoria /\ Segmentado(m, tarea) /\ Puestos(m, tarea, bloques[0]) /\ Recto(m)
      /\ bloques[0] \subseteq Bloque
  BY UnoEs
<1>2. PICK j \in 1..(Tope(m, tarea) - 1) : Dueno(m, j, b)
  BY <1>1, BloqueDe
<1>3. Tope(m, tarea) = Len(Hs(m))
  BY DEF Tope
<1>4. b.dir \in Nat /\ b.n \in Nat \ {0} /\ b.dir >= 5
  BY <1>2 DEF Dueno
<1>5. /\ b.dir + b.n + 5 <= 4 * Len(Ps(m)) /\ 4 * Len(Ps(m)) <= m.tablas[0].tam
      /\ m.tablas[0].enLista /\ Len(Ps(m)) \in Nat
  BY <1>1, <1>2, DatosDentro
<1> QED BY <1>1, <1>2, <1>3, <1>4, <1>5, SegmentoUno, Cuatro DEF Recto

LEMMA MuseGetUno ==
    ASSUME UnoSolo, MuseInv, UnoInv, NEW b \in bloques[0], MuseGet(0, b)
    PROVE  /\ UnoInv' /\ m' = m /\ tarea.op = "nada" /\ tarea'.op = "get"
           /\ bloques' = bloques /\ respuesta' = respuesta
           /\ Hasta(m', tarea') = Hasta(m, tarea)
<1>1. tarea = Ninguna /\ tarea.op = "nada" /\ bloques' = bloques /\ respuesta' = respuesta
  BY LlamaUno DEF MuseGet
<1>2. /\ b.dir \in Nat /\ b.n \in Nat \ {0} /\ m.tablas[0].enLista /\ b.dir < m.tablas[0].tam
      /\ b.dir + b.n <= m.tablas[0].tam
  <2>1. /\ b.dir \in Nat /\ b.n \in Nat \ {0} /\ m.tablas[0].enLista /\ m.tablas[0].tam \in Nat
        /\ b.dir + b.n + 5 <= 4 * Len(Ps(m)) /\ 4 * Len(Ps(m)) <= m.tablas[0].tam /\ Len(Ps(m)) \in Nat
    BY <1>1, BloqueUno
  <2> QED BY <2>1
<1>3. /\ m' = m
      /\ tarea' = [Ninguna EXCEPT !.op = "get", !.s = 0, !.n = b.n, !.dir = b.dir, !.k = b.dir \div PAG]
  BY <1>2 DEF MuseGet, EnSegmento
<1>4. /\ tarea'.op = "get" /\ tarea'.n = b.n /\ tarea'.dir = b.dir /\ tarea'.k = b.dir \div 4
      /\ tarea'.leido = <<>>
  BY <1>3, Cuatro DEF Ninguna
<1>5. Segmentado(m', tarea') /\ Puestos(m', tarea', bloques'[0])
  <2>1. Igualados(m, m')
    BY <1>3, UnoEs DEF Igualados
  <2> QED BY <1>1, <1>4, <2>1, UnoEs, SegmentadoSigue
<1>6. EnBloque(tarea', bloques'[0])
  <2>1. b.dir \div 4 \in Nat
    BY <1>2
  <2> QED BY <1>1, <1>4, <2>1 DEF EnBloque
<1>7. Datos(m', tarea')
  <2>1. b.dir \div 4 \in Nat
    BY <1>2
  <2>2. Len(<<>>) = 0 /\ 4 * (b.dir \div 4 - b.dir \div 4) = 0 /\ 1..0 = {}
    BY <2>1
  <2> QED BY <1>4, <2>2 DEF Datos
<1>8. Hasta(m', tarea') = Hasta(m, tarea)
  <2>1. tarea.op # "alloc" /\ tarea'.op # "alloc" /\ Hs(m') = Hs(m)
    BY <1>1, <1>3, <1>4
  <2> QED BY <2>1, HastaIgual
<1> QED BY <1>1, <1>3, <1>4, <1>5, <1>6, <1>7, <1>8 DEF UnoInv

\* The block that a request reads or copies.
LEMMA BloqueEnCurso ==
    ASSUME UnoSolo, MuseInv, UnoInv, tarea.op \in {"get", "cpy"}
    PROVE  \E b \in bloques[0] : b.dir = tarea.dir /\ b.n = tarea.n
BY DEF UnoInv, EnBloque

LEMMA LeerUnaPaginaUno ==
    ASSUME UnoSolo, MuseInv, UnoInv, LeerUnaPagina
    PROVE  /\ UnoInv' /\ m'.mem = m.mem /\ tarea.op = "get" /\ tarea'.op = "get"
           /\ bloques' = bloques /\ respuesta' = respuesta
           /\ Hasta(m', tarea') = Hasta(m, tarea)
<1> DEFINE k == tarea.k
           N == Len(tarea.leido)
           q == tarea.dir \div 4
           x == Leido(m', 0, k)
<1>1. /\ tarea.op = "get" /\ k <= (tarea.dir + tarea.n) \div 4 /\ bloques' = bloques /\ respuesta' = respuesta
      /\ m' = LeerPagina(m, 0, k)
      /\ tarea' = [tarea EXCEPT !.k = k + 1,
                       !.leido = IF m'.caida # "no" THEN @ ELSE @ \o x]
  BY UnoEs, Cuatro DEF LeerUnaPagina, En, UltimaDeGet
<1>2. /\ m \in Memoria /\ Recto(m) /\ k \in Nat /\ m.caida = "no" /\ tarea \in Tarea
      /\ tarea.leido \in Seq(Byte) /\ tarea.dir \in Nat /\ tarea.n \in Nat
  BY UnoEs
<1>3. PICK b \in bloques[0] : b.dir = tarea.dir /\ b.n = tarea.n
  BY <1>1, BloqueEnCurso
<1>4. k \in 0..(Len(Ps(m)) - 1)
  <2>1. b.dir + b.n + 5 <= 4 * Len(Ps(m)) /\ Len(Ps(m)) \in Nat
    BY <1>1, <1>3, BloqueUno
  <2> HIDE DEF k
  <2> QED BY <1>1, <1>2, <1>3, <2>1
<1>5. /\ Quieto(m, m') /\ m'.mem = m.mem /\ x = [i \in 1..4 |-> m.mem[4 * k + i - 1]]
  BY <1>1, <1>2, <1>4, LeerRecto
<1>6. m'.caida = "no" /\ Igualados(m, m')
  BY <1>2, <1>5, QuietoIgualados DEF Quieto
<1>7. tarea'.op = "get" /\ tarea'.k = k + 1 /\ tarea'.leido = tarea.leido \o x /\ tarea'.dir = tarea.dir
      /\ tarea'.n = tarea.n
  BY <1>1, <1>2, <1>6 DEF Tarea
<1>8. Segmentado(m', tarea') /\ Puestos(m', tarea', bloques'[0])
  <2>1. Segmentado(m, tarea) /\ Puestos(m, tarea, bloques[0]) /\ tarea.op # "alloc" /\ tarea'.op # "alloc"
        /\ bloques'[0] = bloques[0]
    BY <1>1, <1>7, UnoEs
  <2> HIDE DEF x
  <2> QED BY <1>6, <2>1, SegmentadoSigue
<1>9. q \in Nat /\ k >= q
  BY <1>1, <1>2 DEF UnoInv, EnBloque
<1>10. EnBloque(tarea', bloques'[0])
  <2>1. k + 1 >= q
    BY <1>2, <1>9
  <2> QED BY <1>1, <1>3, <1>7, <2>1 DEF EnBloque
<1>11. Datos(m', tarea')
  <2>1. x \in Seq(Byte) /\ Len(x) = 4 /\ \A i \in 1..4 : x[i] = m.mem[4 * k + i - 1]
    <3>1. 4 * k + 4 <= 4 * NMarcos /\ NMarcos \in Nat
      BY <1>2, <1>4, PaginaRecta, Cuatro
    <3>2. \A i \in 1..4 : 4 * k + i - 1 \in Direcciones
      BY <1>2, <3>1, Cuatro
    <3>3. \A i \in 1..4 : m.mem[4 * k + i - 1] \in Byte
      BY <1>2, <3>2, CampoEs
    <3> HIDE DEF x
    <3> QED BY <1>5, <3>3
  <2>2. N = 4 * (k - q) /\ \A i \in 1..N : tarea.leido[i] = m.mem[4 * q + i - 1]
    BY <1>1 DEF UnoInv, Datos
  <2> HIDE DEF x, q, k
  <2>3. tarea.leido \o x \in Seq(Byte) /\ Len(tarea.leido \o x) = N + 4 /\ N \in Nat
        /\ \A i \in 1..(N + 4) : (tarea.leido \o x)[i] = IF i <= N THEN tarea.leido[i] ELSE x[i - N]
    <3>1. tarea.leido \in Seq(Byte) /\ x \in Seq(Byte)
      BY <1>2, <2>1
    <3>2. N \in Nat
      BY <3>1, LenProperties
    <3>3. /\ tarea.leido \o x \in Seq(Byte) /\ Len(tarea.leido \o x) = N + Len(x)
          /\ \A i \in 1..(N + Len(x)) :
                (tarea.leido \o x)[i] = IF i <= N THEN tarea.leido[i] ELSE x[i - N]
      BY <3>1, ConcatProperties
    <3> HIDE DEF N
    <3> QED BY <2>1, <3>2, <3>3
  <2> HIDE DEF N
  <2>a. k \in Nat /\ q \in Nat /\ k >= q
    BY <1>2, <1>9 DEF k
  <2>4. N + 4 = 4 * (k + 1 - q)
    BY <2>a, <2>2, <2>3
  <2>5. ASSUME NEW i \in 1..(N + 4) PROVE (tarea.leido \o x)[i] = m.mem[4 * q + i - 1]
    <3>1. CASE i <= N
      <4>1. i \in 1..N
        BY <2>3, <3>1
      <4> QED BY <2>2, <2>3, <3>1, <4>1
    <3>2. CASE ~ (i <= N)
      <4>1. i - N \in 1..4
        BY <2>3, <3>2
      <4>2. 4 * k + (i - N) - 1 = 4 * q + i - 1
        BY <2>a, <2>2, <2>3
      <4>3. (tarea.leido \o x)[i] = x[i - N]
        BY <2>3, <3>2
      <4>4. x[i - N] = m.mem[4 * k + (i - N) - 1]
        BY <2>1, <4>1
      <4> QED BY <4>2, <4>3, <4>4
    <3> QED BY <3>1, <3>2
  <2>6. tarea'.dir \div 4 = q /\ m'.mem = m.mem
    BY <1>5, <1>7 DEF q
  <2>b. tarea'.k = k + 1 /\ tarea'.leido = tarea.leido \o x
    BY <1>7 DEF k, x
  <2>7. Len(tarea'.leido) = 4 * (tarea'.k - q) /\ Len(tarea'.leido) = N + 4
    BY <2>a, <2>b, <2>3, <2>4
  <2>8. \A i \in 1..Len(tarea'.leido) : tarea'.leido[i] = m'.mem[4 * q + i - 1]
    BY <2>b, <2>5, <2>6, <2>7
  <2> QED BY <1>7, <2>6, <2>7, <2>8 DEF Datos
<1>12. Hasta(m', tarea') = Hasta(m, tarea)
  <2>1. tarea.op # "alloc" /\ tarea'.op # "alloc" /\ Hs(m') = Hs(m)
    BY <1>1, <1>6, <1>7 DEF Igualados
  <2> QED BY <2>1, HastaIgual
<1> QED BY <1>1, <1>5, <1>7, <1>8, <1>10, <1>11, <1>12 DEF UnoInv

\* What a read answers is what the memory holds there.
LEMMA ContestarGetUno ==
    ASSUME UnoSolo, MuseInv, UnoInv, ContestarGet
    PROVE  /\ UnoInv' /\ m' = m /\ tarea.op = "get" /\ tarea'.op = "nada" /\ bloques' = bloques
           /\ Hasta(m', tarea') = Hasta(m, tarea)
           /\ respuesta'.res = 0 /\ respuesta'.dir = tarea.dir /\ respuesta'.n = tarea.n
           /\ respuesta'.bytes = [i \in 1..tarea.n |-> m.mem[tarea.dir + i - 1]]
<1> DEFINE k == tarea.k
           l == tarea.leido
           d == tarea.dir
           n == tarea.n
           q == d \div 4
           r == d % 4
           y == SubSeq(l, r + 1, r + n)
<1>1. /\ tarea.op = "get" /\ m' = m /\ bloques' = bloques /\ tarea' = Ninguna /\ k > (d + n) \div 4
      /\ respuesta'.res = 0 /\ respuesta'.dir = d /\ respuesta'.n = n /\ respuesta'.bytes = y
  BY Cuatro DEF ContestarGet, En, UltimaDeGet, Contestar
<1>2. tarea'.op = "nada"
  BY <1>1 DEF Ninguna
<1>3. UnoInv'
  <2>1. Igualados(m, m') /\ bloques'[0] \subseteq bloques[0]
    BY <1>1, UnoEs DEF Igualados
  <2> HIDE DEF k, l, d, n, y
  <2> QED BY <1>1, <1>2, <2>1, PasoIgual
<1>4. k \in Nat /\ l \in Seq(Byte) /\ d \in Nat /\ n \in Nat
  BY UnoEs
<1>5. Len(l) = 4 * (k - q) /\ \A i \in 1..Len(l) : l[i] = m.mem[4 * q + i - 1]
  BY <1>1 DEF UnoInv, Datos
<1> HIDE DEF k, l, d, n
<1>6. q \in Nat /\ r \in 0..3 /\ d = 4 * q + r
  BY <1>4, PorCuatro
<1>7. 4 * k > d + n
  BY <1>1, <1>4
<1> HIDE DEF q, r
<1>8. \A i \in (r + 1)..(r + n) : i \in 1..Len(l)
  BY <1>4, <1>5, <1>6, <1>7
<1>9. \A i \in (r + 1)..(r + n) : l[i] \in Byte
  BY <1>4, <1>8, ElementOfSeq
<1>10. /\ y \in Seq(Byte) /\ Len(y) = IF r + 1 <= r + n THEN (r + n) - (r + 1) + 1 ELSE 0
       /\ \A i \in 1..((r + n) - (r + 1) + 1) : y[i] = l[(r + 1) + i - 1]
  <2>1. r + 1 \in Int /\ r + n \in Int
    BY <1>4, <1>6
  <2> QED BY <1>9, <2>1, SubSeqProperties
<1> HIDE DEF y
<1>11. Len(y) = n
  BY <1>4, <1>6, <1>10
<1>12. ASSUME NEW i \in 1..n PROVE y[i] = m.mem[d + i - 1]
  <2>1. i \in 1..((r + n) - (r + 1) + 1) /\ (r + 1) + i - 1 = r + i /\ r + i \in (r + 1)..(r + n)
    BY <1>4, <1>6
  <2>2. y[i] = l[r + i]
    BY <1>10, <2>1
  <2>3. l[r + i] = m.mem[4 * q + (r + i) - 1]
    BY <1>5, <1>8, <2>1
  <2>4. 4 * q + (r + i) - 1 = d + i - 1
    BY <1>6
  <2> QED BY <2>2, <2>3, <2>4
<1>13. y = [i \in 1..n |-> m.mem[d + i - 1]]
  BY <1>10, <1>11, <1>12
<1>14. Hasta(m', tarea') = Hasta(m, tarea)
  BY <1>1, HastaIgual DEF Ninguna
<1> QED BY <1>1, <1>2, <1>3, <1>13, <1>14 DEF d, n

LEMMA ContestarCpyUno ==
    ASSUME UnoSolo, MuseInv, UnoInv, ContestarCpy
    PROVE  /\ UnoInv' /\ m' = m /\ tarea.op = "cpy" /\ tarea'.op = "nada" /\ bloques' = bloques
           /\ Hasta(m', tarea') = Hasta(m, tarea)
           /\ respuesta'.res = 0 /\ respuesta'.dir = tarea.dir /\ respuesta'.n = tarea.n
           /\ tarea.hecho = tarea.n /\ respuesta'.bytes = Tira(tarea.v, 0, tarea.n)
           /\ \A i \in 1..tarea.n : m.mem[tarea.dir + i - 1] = <<tarea.v, i>>
<1>1. /\ tarea.op = "cpy" /\ m' = m /\ bloques' = bloques /\ tarea' = Ninguna /\ tarea.hecho = tarea.n
      /\ respuesta'.res = 0 /\ respuesta'.dir = tarea.dir /\ respuesta'.n = tarea.n
      /\ respuesta'.bytes = Tira(tarea.v, 0, tarea.n)
  BY DEF ContestarCpy, En, Contestar
<1>2. tarea'.op = "nada"
  BY <1>1 DEF Ninguna
<1>3. Igualados(m, m') /\ bloques'[0] \subseteq bloques[0]
  BY <1>1, UnoEs DEF Igualados
<1>4. UnoInv'
  BY <1>1, <1>2, <1>3, PasoIgual
<1>5. \A i \in 1..tarea.n : m.mem[tarea.dir + i - 1] = <<tarea.v, i>>
  BY <1>1 DEF UnoInv, Datos
<1>6. Hasta(m', tarea') = Hasta(m, tarea)
  BY <1>1, HastaIgual DEF Ninguna
<1> QED BY <1>1, <1>2, <1>4, <1>5, <1>6

\* The bytes of the blocks of B are in b as in a, but those of the block at d.
Conserva(a, b, B, d) ==
    \A c \in B : c.dir # d => \A i \in 1..c.n : b.mem[c.dir + i - 1] = a.mem[c.dir + i - 1]

\* A piece of a copy of block c touches no other.
LEMMA CopiadoConserva ==
    ASSUME UnoSolo, NEW a \in Memoria, NEW t, t.op # "alloc", Segmentado(a, t), NEW B, Puestos(a, t, B),
           NEW c \in B, NEW d \in Nat, NEW hecho \in Nat, NEW n \in Nat, d >= c.dir, d + n <= c.dir + c.n,
           NEW v, NEW b, Copiado(a, b, d, v, hecho, n)
    PROVE  Conserva(a, b, B, c.dir)
<1> SUFFICES ASSUME NEW e \in B, e.dir # c.dir, NEW i \in 1..e.n
             PROVE  b.mem[e.dir + i - 1] = a.mem[e.dir + i - 1]
  BY DEF Conserva
<1>1. PICK j : Dueno(a, j, e)
  BY BloqueDe
<1>2. PICK g : Dueno(a, g, c)
  BY BloqueDe
<1>3. /\ e.dir \in Nat /\ e.n \in Nat /\ c.dir \in Nat /\ c.n \in Nat
      /\ e.dir + e.n + 5 <= 4 * Len(Ps(a)) /\ Len(Ps(a)) \in Nat
  BY <1>1, <1>2, DatosDentro DEF Dueno
<1>4. e.dir + e.n <= c.dir \/ c.dir + c.n <= e.dir
  BY BloquesApartados
<1>a. i \in Nat /\ 1 <= i /\ i <= e.n
  BY <1>3
<1>5. Len(Ps(a)) <= NMarcos /\ NMarcos \in Nat
  BY Cuatro DEF Segmentado, Recto
<1> DEFINE x == e.dir + i - 1
<1>6. x \in Direcciones
  <2>1. x \in Nat /\ x < 4 * Len(Ps(a))
    BY SMTT(60), <1>3, <1>a
  <2> HIDE DEF x
  <2>2. x \in 0..(4 * NMarcos - 1)
    BY <1>3, <1>5, <2>1
  <2> QED BY <2>2, Cuatro
<1>7. ~ (x >= d /\ x < d + n)
  <2>0. x \in Int /\ x >= e.dir /\ x < e.dir + e.n
    BY SMTT(60), <1>3, <1>a
  <2> HIDE DEF x
  <2>1. CASE e.dir + e.n <= c.dir
    BY SMTT(60), <1>3, <2>0, <2>1
  <2>2. CASE c.dir + c.n <= e.dir
    BY SMTT(60), <1>3, <2>0, <2>2
  <2> QED BY <1>4, <2>1, <2>2
<1> HIDE DEF x
<1>8. b.mem[x] = a.mem[x]
  BY <1>6, <1>7 DEF Copiado
<1> QED BY <1>8 DEF x

\* The first n bytes at d are those of v.
ConDato(a, d, v, n) == \A i \in 1..n : a.mem[d + i - 1] = <<v, i>>
\* A piece of c bytes at x goes after the first n bytes at d, and in the memory.
Tras(x, c, d, n) == x = d + n /\ d + n + c <= 4 * NMarcos

\* The bytes of the piece are those of the datum.
LEMMA CopiadoDatos ==
    ASSUME UnoSolo, NEW a \in Memoria, NEW dir \in Nat, NEW hecho \in Nat, NEW n \in Nat,
           NEW d \in Nat, Tras(d, n, dir, hecho),
           NEW v, NEW b, Copiado(a, b, d, v, hecho, n), ConDato(a, dir, v, hecho)
    PROVE  ConDato(b, dir, v, hecho + n)
<1> SUFFICES ASSUME NEW i \in 1..(hecho + n) PROVE b.mem[dir + i - 1] = <<v, i>>
  BY DEF ConDato
<1>0. d = dir + hecho /\ dir + hecho + n <= 4 * NMarcos
  BY DEF Tras
<1> DEFINE x == dir + i - 1
<1>1. x \in Direcciones
  <2>1. x \in 0..(4 * NMarcos - 1)
    BY <1>0, Cuatro
  <2> QED BY <2>1, Cuatro
<1>2. CASE i <= hecho
  <2>1. i \in 1..hecho /\ ~ (x >= d /\ x < d + n)
    BY <1>0, <1>2
  <2>2. a.mem[x] = <<v, i>>
    BY <2>1 DEF ConDato
  <2> HIDE DEF x
  <2>3. b.mem[x] = <<v, i>>
    BY <1>1, <2>1, <2>2 DEF Copiado
  <2> QED BY <2>3 DEF x
<1>3. CASE ~ (i <= hecho)
  <2>1. x >= d /\ x < d + n /\ hecho + (x - d + 1) = i
    BY <1>0, <1>3
  <2> HIDE DEF x
  <2>2. b.mem[x] = <<v, hecho + (x - d + 1)>>
    BY <1>1, <2>1 DEF Copiado
  <2> QED BY <2>1, <2>2 DEF x
<1> QED BY <1>2, <1>3

LEMMA PuestosCambia ==
    ASSUME NEW a, NEW t, NEW B, B \subseteq Bloque, Puestos(a, t, B), NEW b \in B, NEW v
    PROVE  Puestos(a, t, (B \ {b}) \cup {[b EXCEPT !.valor = v]})
<1> DEFINE c == [b EXCEPT !.valor = v]
           C == (B \ {b}) \cup {c}
<1>1. c.dir = b.dir /\ c.n = b.n
  BY DEF Bloque
<1> HIDE DEF c
<1>2. ASSUME NEW e \in C PROVE \E j \in 1..(Tope(a, t) - 1) : DeHeader(e, Hs(a)[j])
  <2>1. CASE e \in B
    BY <2>1 DEF Puestos
  <2>2. CASE e = c
    <3>1. PICK j \in 1..(Tope(a, t) - 1) : DeHeader(b, Hs(a)[j])
      BY DEF Puestos
    <3>2. DeHeader(e, Hs(a)[j])
      BY <1>1, <2>2, <3>1 DEF DeHeader
    <3> QED BY <3>2
  <2> QED BY <2>1, <2>2
<1>3. ASSUME NEW e \in C, NEW f \in C, e.dir = f.dir PROVE e = f
  <2>1. CASE e \in B /\ f \in B
    BY <1>3, <2>1 DEF Puestos
  <2>2. CASE e = c /\ f # c
    <3>1. f \in B /\ f # b /\ f.dir = b.dir
      BY <1>1, <1>3, <2>2
    <3> QED BY <3>1 DEF Puestos
  <2>3. CASE f = c /\ e # c
    <3>1. e \in B /\ e # b /\ e.dir = b.dir
      BY <1>1, <1>3, <2>3
    <3> QED BY <3>1 DEF Puestos
  <2> QED BY <2>1, <2>2, <2>3
<1>4. Puestos(a, t, C)
  BY <1>2, <1>3 DEF Puestos
<1> QED BY <1>4 DEF C, c

\* A copy finds the block, whatever the headers after it, and writes it alone.
LEMMA MuseCpyUno ==
    ASSUME UnoSolo, MuseInv, UnoInv, NEW b \in bloques[0], NEW v \in Valores, MuseCpy(0, b, v)
    PROVE  /\ UnoInv' /\ tarea.op = "nada" /\ tarea'.op = "cpy" /\ respuesta' = respuesta
           /\ tarea'.dir = b.dir /\ tarea'.n = b.n /\ tarea'.v = v
           /\ bloques'[0] = (bloques[0] \ {b}) \cup {[b EXCEPT !.valor = v]}
           /\ Conserva(m, m', bloques[0], b.dir)
           /\ Hasta(m', tarea') = Hasta(m, tarea)
<1> DEFINE d == b.dir
           n == b.n
           P == Paradas(m, 0, d, n)
<1>1. tarea = Ninguna /\ tarea.op = "nada"
  BY LlamaUno DEF MuseCpy
<1>2. /\ d \in Nat /\ n \in Nat \ {0} /\ m.tablas[0].enLista /\ d < m.tablas[0].tam /\ n \in Nat
      /\ d + n < 4 * Len(Ps(m)) /\ d <= 4 * Len(Ps(m)) - 4 /\ d + n <= 4 * Len(Ps(m))
      /\ Len(Ps(m)) \in Nat /\ Len(Ps(m)) <= NMarcos /\ NMarcos \in Nat
  <2>1. /\ d \in Nat /\ n \in Nat \ {0} /\ m.tablas[0].enLista /\ m.tablas[0].tam \in Nat
        /\ d + n + 5 <= 4 * Len(Ps(m)) /\ 4 * Len(Ps(m)) <= m.tablas[0].tam /\ Len(Ps(m)) \in Nat
        /\ Len(Ps(m)) <= NMarcos /\ NMarcos \in Nat
    BY <1>1, BloqueUno
  <2> HIDE DEF d, n
  <2> QED BY <2>1
<1>3. PICK j \in 1..(Len(Hs(m)) - 1) : Dueno(m, j, b)
  BY <1>1, BloqueUno
<1> DEFINE h == Hs(m)[j]
<1>4. /\ m \in Memoria /\ Recto(m) /\ Cadena(Hs(m)) /\ j \in 1..Len(Hs(m)) /\ Suyo(h, d, n) /\ h.size = n
      /\ h \in Heap /\ d = h.dir + HM /\ EnDos(h) /\ Segmentado(m, tarea) /\ Puestos(m, tarea, bloques[0])
      /\ bloques[0] \subseteq Bloque /\ m.caida = "no"
  <2>1. m \in Memoria /\ Recto(m) /\ Cadena(Hs(m)) /\ Segmentado(m, tarea) /\ Puestos(m, tarea, bloques[0])
        /\ bloques[0] \subseteq Bloque /\ m.caida = "no"
    BY UnoEs
  <2>2. /\ j \in 1..Len(Hs(m)) /\ Suyo(h, d, n) /\ h.size = n /\ h \in Heap /\ d = h.dir + HM
    BY <1>3 DEF Dueno, DeHeader
  <2>3. EnDos(h)
    BY <2>1, <2>2 DEF Cadena
  <2> QED BY <2>1, <2>2, <2>3
<1>5. P # {} /\ Menor(P) = j /\ ~ FaltaPagina(m, 0, h, n)
  BY <1>2, <1>4, ParadaPropia
<1> DEFINE c == EnPrimera(h, d, n)
           k == PaginaDatos(h)
<1>6. /\ m' = CopiarPrimera(m, 0, h, d, n, v)
      /\ tarea' = [Ninguna EXCEPT !.op = "cpy", !.s = 0, !.n = n, !.dir = d,
                                !.v = v, !.k = k + 1, !.hecho = c]
      /\ Escrito(0, b, v) /\ respuesta' = respuesta
  <2>1. EnSegmento(m, 0, d) /\ Headers(m, 0) = Hs(m)
    BY <1>2 DEF EnSegmento, Hs
  <2>2. (IF EnSegmento(m, 0, d) THEN P ELSE {}) = P
    BY <2>1
  <2> QED BY <1>5, <2>1, <2>2 DEF MuseCpy
<1>7. /\ c \in 0..n /\ (c < n => 4 * (k + 1) = d + c) /\ Quieto(m, m') /\ Copiado(m, m', d, v, 0, c)
  <2>1. h.dir + HM <= 4 * Len(Ps(m)) - 4
    BY <1>2, <1>4
  <2> HIDE DEF P, h, k, n, d
  <2> QED BY <1>2, <1>4, <1>6, <2>1, PrimeraRecta DEF k
<1> HIDE DEF P, h, k, c
<1>8. /\ tarea'.op = "cpy" /\ tarea'.dir = d /\ tarea'.n = n /\ tarea'.v = v /\ tarea'.k = k + 1
      /\ tarea'.hecho = c
  BY <1>6 DEF Ninguna
<1>9. bloques'[0] = (bloques[0] \ {b}) \cup {[b EXCEPT !.valor = v]}
  BY <1>6, UnoEs DEF Escrito
<1>10. Segmentado(m', tarea') /\ Puestos(m', tarea', bloques'[0])
  <2>1. Igualados(m, m')
    BY <1>4, <1>7, QuietoIgualados
  <2>2. Segmentado(m', tarea') /\ Puestos(m', tarea', bloques[0])
    BY <1>1, <1>4, <1>8, <2>1, SegmentadoSigue
  <2>3. Puestos(m', tarea', (bloques[0] \ {b}) \cup {[b EXCEPT !.valor = v]})
    BY <1>4, <2>2, PuestosCambia
  <2> QED BY <1>9, <2>2, <2>3
<1>11. EnBloque(tarea', bloques'[0])
  <2>1. [b EXCEPT !.valor = v].dir = b.dir /\ [b EXCEPT !.valor = v].n = b.n
    BY <1>4 DEF Bloque
  <2>2. \E e \in bloques'[0] : e.dir = tarea'.dir /\ e.n = tarea'.n
    BY <1>8, <1>9, <2>1
  <2> QED BY <1>7, <1>8, <2>2 DEF EnBloque
<1> HIDE DEF d, n
<1>12. c \in Nat /\ d + c <= d + n /\ d + c <= 4 * Len(Ps(m))
  BY <1>2, <1>7
<1>13. ConDato(m', d, v, c)
  <2>1. 0 \in Nat /\ d = d + 0 /\ d + 0 + c <= 4 * NMarcos /\ 0 + c = c /\ 1..0 = {}
    BY <1>2, <1>12
  <2>2. ConDato(m, d, v, 0) /\ Tras(d, c, d, 0)
    BY <2>1 DEF ConDato, Tras
  <2>3. ConDato(m', d, v, 0 + c)
    BY <1>2, <1>4, <1>7, <1>12, <2>1, <2>2, CopiadoDatos
  <2> QED BY <2>1, <2>3
<1>14. Datos(m', tarea')
  BY <1>8, <1>13 DEF Datos, ConDato
<1>15. Conserva(m, m', bloques[0], d)
  <2>1. d >= b.dir /\ d + c <= b.dir + b.n /\ 0 \in Nat
    BY <1>2, <1>12 DEF d, n
  <2>2. Conserva(m, m', bloques[0], b.dir)
    BY <1>1, <1>2, <1>4, <1>7, <1>12, <2>1, CopiadoConserva
  <2> QED BY <2>2 DEF d
<1>16. Hasta(m', tarea') = Hasta(m, tarea)
  <2>1. Igualados(m, m')
    BY <1>4, <1>7, QuietoIgualados
  <2> QED BY <1>1, <1>8, <2>1, HastaIgual DEF Igualados
<1> QED BY <1>16, <1>1, <1>6, <1>8, <1>9, <1>10, <1>11, <1>14, <1>15 DEF UnoInv, d, n

LEMMA CopiarUnaPaginaUno ==
    ASSUME UnoSolo, MuseInv, UnoInv, CopiarUnaPagina
    PROVE  /\ UnoInv' /\ tarea.op = "cpy" /\ tarea'.op = "cpy" /\ respuesta' = respuesta
           /\ tarea'.dir = tarea.dir /\ tarea'.n = tarea.n /\ tarea'.v = tarea.v
           /\ bloques' = bloques /\ Conserva(m, m', bloques[0], tarea.dir)
           /\ Hasta(m', tarea') = Hasta(m, tarea)
<1> DEFINE k == tarea.k
           v == tarea.v
           o == tarea.hecho
           n == tarea.n
           d == tarea.dir
           c == IF n - o >= 4 THEN 4 ELSE n - o
<1>1. /\ tarea.op = "cpy" /\ o < n /\ m' = CopiarPagina(m, 0, k, v, o, n)
      /\ tarea' = [tarea EXCEPT !.k = k + 1, !.hecho = Avance(o, n)]
      /\ bloques' = bloques /\ respuesta' = respuesta
  BY UnoEs DEF CopiarUnaPagina, En
<1>2. /\ m \in Memoria /\ Recto(m) /\ m.caida = "no" /\ tarea \in Tarea /\ Segmentado(m, tarea)
      /\ Puestos(m, tarea, bloques[0])
      /\ k \in Nat /\ o \in Nat /\ n \in Nat /\ d \in Nat /\ v \in Valores
  BY <1>1, UnoEs
<1>3. PICK b \in bloques[0] : b.dir = d /\ b.n = n
  BY <1>1, BloqueEnCurso
<1>4. 4 * k = d + o /\ \A i \in 1..o : m.mem[d + i - 1] = <<v, i>>
  BY <1>1 DEF UnoInv, EnBloque, Datos
<1>5. /\ d + n + 5 <= 4 * Len(Ps(m)) /\ Len(Ps(m)) \in Nat /\ Len(Ps(m)) <= NMarcos /\ NMarcos \in Nat
  BY <1>1, <1>3, BloqueUno
<1>6. /\ tarea'.op = "cpy" /\ tarea'.dir = d /\ tarea'.n = n /\ tarea'.v = v /\ tarea'.k = k + 1
      /\ tarea'.hecho = Avance(o, n)
  BY <1>1, <1>2 DEF Tarea
<1> HIDE DEF k, v, o, n, d
<1>7. k \in 0..(Len(Ps(m)) - 1)
  BY <1>1, <1>2, <1>4, <1>5
<1>8. c \in Nat /\ Avance(o, n) = o + c /\ o + c <= n /\ (o + c < n => c = 4)
  BY SMTT(60), <1>1, <1>2, Cuatro DEF Avance
<1>9. Quieto(m, m') /\ Copiado(m, m', 4 * k, v, o, c)
  BY <1>1, <1>2, <1>7, CopiarRecto
<1> HIDE DEF c
<1>10. Segmentado(m', tarea') /\ Puestos(m', tarea', bloques'[0])
  <2>1. Igualados(m, m') /\ tarea.op # "alloc" /\ tarea'.op # "alloc"
    BY <1>1, <1>2, <1>6, <1>9, QuietoIgualados
  <2>2. Segmentado(m', tarea') /\ Puestos(m', tarea', bloques[0])
    BY <1>2, <2>1, SegmentadoSigue
  <2> QED BY <1>1, <2>2
<1>11. EnBloque(tarea', bloques'[0])
  <2>1. tarea'.hecho < tarea'.n => 4 * tarea'.k = tarea'.dir + tarea'.hecho
    BY <1>2, <1>4, <1>6, <1>8
  <2> QED BY <1>1, <1>3, <1>6, <2>1 DEF EnBloque
<1>12. ConDato(m', d, v, o + c)
  <2> DEFINE p == 4 * k
  <2>1. d + o + c <= 4 * NMarcos /\ p \in Nat /\ p = d + o
    BY <1>2, <1>4, <1>5, <1>8
  <2>2. ConDato(m, d, v, o) /\ Tras(p, c, d, o)
    BY <1>4, <2>1 DEF ConDato, Tras
  <2>3. Copiado(m, m', p, v, o, c)
    BY <1>9
  <2> HIDE DEF p
  <2> QED BY <1>2, <1>8, <2>1, <2>2, <2>3, CopiadoDatos
<1>13. Datos(m', tarea')
  BY <1>6, <1>8, <1>12 DEF Datos, ConDato
<1>14. Conserva(m, m', bloques[0], d)
  <2> DEFINE p == 4 * k
  <2>1. p >= b.dir /\ p + c <= b.dir + b.n /\ p \in Nat
    BY <1>2, <1>3, <1>4, <1>8
  <2>2. Copiado(m, m', p, v, o, c)
    BY <1>9
  <2> HIDE DEF p
  <2>3. tarea.op # "alloc"
    BY <1>1
  <2>4. Conserva(m, m', bloques[0], b.dir)
    BY <1>2, <1>8, <2>1, <2>2, <2>3, CopiadoConserva
  <2> QED BY <1>3, <2>4
<1>15. Hasta(m', tarea') = Hasta(m, tarea)
  <2>1. Igualados(m, m')
    BY <1>2, <1>9, QuietoIgualados
  <2>2. tarea.op # "alloc" /\ tarea'.op # "alloc" /\ Hs(m') = Hs(m)
    BY <1>1, <1>6, <2>1 DEF Igualados
  <2> QED BY <2>2, HastaIgual
<1> QED BY <1>15, <1>1, <1>6, <1>10, <1>11, <1>13, <1>14 DEF UnoInv, n, d, v

\* The bytes from d to e are the only ones that may change.
Entre(a, b, d, e) == \A x \in Direcciones : ~ (x >= d /\ x < e) => b.mem[x] = a.mem[x]

\* A piece of a header is written.
LEMMA EscribirPieza ==
    ASSUME UnoSolo, NEW a \in Memoria, NEW k \in 0..(NMarcos - 1), NEW r \in 0..3, NEW o \in Nat, NEW n \in Nat,
           NEW d \in Nat, NEW e \in Nat, NEW p, p = 4 * k + r, d <= p, p + n <= e, r + n <= 4
    PROVE  /\ Quieto(a, Escribir(a, p, Tira("cab", o, n)))
           /\ Entre(a, Escribir(a, p, Tira("cab", o, n)), d, e)
<1> DEFINE b == Escribir(a, p, Tira("cab", o, n))
<1>1. p \in Nat /\ p + n <= 4 * NMarcos
  BY Cuatro
<1>2. Quieto(a, b) /\ Copiado(a, b, p, "cab", o, n)
  BY <1>1, EscribirTira
<1> HIDE DEF b
<1>3. ASSUME NEW x \in Direcciones, ~ (x >= d /\ x < e) PROVE b.mem[x] = a.mem[x]
  <2>1. x \in Int
    BY Cuatro
  <2>2. ~ (x >= p /\ x < p + n)
    BY <1>1, <1>3, <2>1
  <2> QED BY <1>2, <2>2 DEF Copiado
<1> QED BY <1>2, <1>3 DEF Entre, b

LEMMA EntreSigue ==
    ASSUME NEW a, NEW b, NEW c, NEW d, NEW e, Entre(a, b, d, e), Entre(b, c, d, e)
    PROVE  Entre(a, c, d, e)
BY DEF Entre

\* The page of an address is found by its contents.
LEMMA PaginaHallada ==
    ASSUME UnoSolo, NEW a \in Memoria, Recto(a), NEW k \in 0..(Len(Ps(a)) - 1)
    PROVE  Menor({i \in DOMAIN PaginasDe(a, 0) : PaginasDe(a, 0)[i] = LaPagina(a, 0, k)}) = k + 1
<1> DEFINE S == {i \in DOMAIN PaginasDe(a, 0) : PaginasDe(a, 0)[i] = LaPagina(a, 0, k)}
<1>1. PaginasDe(a, 0) = Ps(a) /\ DOMAIN Ps(a) = 1..Len(Ps(a)) /\ Len(Ps(a)) \in Nat
  BY SegmentoUno DEF Ps
<1>2. LaPagina(a, 0, k) = Ps(a)[k + 1] /\ k + 1 \in 1..Len(Ps(a)) /\ k \in Nat
  BY <1>1 DEF LaPagina
<1>3. ASSUME NEW i \in 1..Len(Ps(a)), Ps(a)[i] = Ps(a)[k + 1] PROVE i = k + 1
  <2>1. Ps(a)[i].marco = i - 1 /\ Ps(a)[k + 1].marco = (k + 1) - 1
    BY <1>2 DEF Recto
  <2> QED BY <1>1, <1>2, <1>3, <2>1
<1>4. S = {k + 1}
  BY <1>1, <1>2, <1>3
<1>5. S \subseteq Nat /\ S # {}
  BY SMTT(60), <1>2, <1>4
<1> HIDE DEF S
<1>6. Menor(S) \in S
  BY <1>5, MenorEsMenor
<1> QED BY <1>4, <1>6 DEF S

\* The header of a block is marked as free, and written in the page before that of the
\* data: where it is, or at its end and over the data that it frees.
Marcado(a, b, j) ==
    /\ b \in Memoria /\ Ps(b) = Ps(a) /\ Recto(b) /\ b.caida = a.caida
    /\ b.tablas[0].tam = a.tablas[0].tam /\ b.tablas[0].enLista = a.tablas[0].enLista
    /\ Len(Hs(b)) = Len(Hs(a)) /\ Hs(b) \in Seq(Heap)
    /\ \A i \in 1..Len(Hs(a)) : Hs(b)[i] = IF i = j THEN [Hs(a)[i] EXCEPT !.libre = TRUE] ELSE Hs(a)[i]

LEMMA MarcarRecto ==
    ASSUME UnoSolo, NEW a \in Memoria, Recto(a), NEW j \in 1..Len(Hs(a)), EnDos(Hs(a)[j]), NEW d,
           d = Hs(a)[j].dir + HM, d \div 4 \in 0..(Len(Ps(a)) - 1)
    PROVE  /\ Marcado(a, Marcar(a, a, 0, d, j), j)
           /\ Entre(a, Marcar(a, a, 0, d, j), Hs(a)[j].dir, d + 4)
<1> DEFINE h == Hs(a)[j]
           q == h.dir \div 4
           r == h.dir % 4
           g == [h EXCEPT !.libre = TRUE]
           k == Menor({i \in DOMAIN PaginasDe(a, 0) : PaginasDe(a, 0)[i] = LaPagina(a, 0, d \div PAG)}) - 2
           x == PonerHeader(a, j, g)
           y == ObtenerPosicion(x, 0, k)
           b == Escribir(y, Posicion(y, 0, k) + (h.dir % PAG), Tira("cab", 0, h.bytes))
           c == ObtenerPosicion(b, 0, k + 1)
           e == Escribir(c, Posicion(c, 0, k + 1), Tira("cab", h.bytes, HM - h.bytes))
           N == Len(Ps(a))
<1>1. /\ h \in Heap /\ Partido(h) /\ h.dir \in Nat /\ q \in Nat /\ h.dir = 4 * q + r /\ r \in 0..3
      /\ h.bytes = 4 - r /\ PAG = 4 /\ HM = 5 /\ d = 4 * q + r + 5
  BY HeaderUno, DatosDe, Cuatro DEF EnDos
<1>2. N \in Nat /\ N <= NMarcos /\ NMarcos \in Nat
  BY SegmentoUno, Cuatro DEF Recto
<1> HIDE DEF h, q, r, N
<1>3. k = d \div 4 - 1
  <2>1. Menor({i \in DOMAIN PaginasDe(a, 0) : PaginasDe(a, 0)[i] = LaPagina(a, 0, d \div 4)}) = d \div 4 + 1
    BY PaginaHallada
  <2>2. d \div 4 \in Int
    BY <1>1
  <2> QED BY <1>1, <2>1, <2>2
<1> HIDE DEF k
<1>4. k = IF r = 3 THEN q + 1 ELSE q
  <2>1. CASE r = 3
    BY SMTT(60), <1>1, <1>3, <2>1
  <2>2. CASE r # 3
    <3>1. d \div 4 = q + 1
      BY SMTT(60), <1>1, <2>2
    <3> QED BY SMTT(60), <1>1, <1>3, <2>2, <3>1
  <2> QED BY <2>1, <2>2
<1>5. k \in 0..(N - 1) /\ k + 1 \in 0..(N - 1) /\ k \in Nat
  <2>1. d \div 4 \in 0..(N - 1)
    BY DEF N
  <2> QED BY <1>1, <1>2, <1>3, <1>4, <2>1
<1>6. g \in Heap
  BY <1>1 DEF Heap
<1>7. /\ MismasPaginas(a, x) /\ Hs(x) \in Seq(Heap) /\ Len(Hs(x)) = Len(Hs(a))
      /\ \A i \in 1..Len(Hs(a)) : Hs(x)[i] = IF i = j THEN g ELSE Hs(a)[i]
      /\ x.tablas[0].tam = a.tablas[0].tam /\ x.tablas[0].enLista = a.tablas[0].enLista
  BY ZenonT(60), <1>6, HeapsUno
<1> HIDE DEF x
<1>8. x \in Memoria /\ Ps(x) = Ps(a) /\ Recto(x) /\ x.caida = a.caida /\ x.mem = a.mem /\ Len(Ps(x)) = N
  BY <1>7 DEF MismasPaginas, N
<1>9. y = x /\ Posicion(y, 0, k) = 4 * k
  BY <1>5, <1>8, PaginaRecta
<1>10. b = Escribir(x, 4 * k + r, Tira("cab", 0, 4 - r))
  BY <1>1, <1>9 DEF r
<1> HIDE DEF b
<1>11. Quieto(x, b) /\ Entre(x, b, h.dir, d + 4)
  <2> DEFINE p == 4 * k + r
             n == 4 - r
             f == d + 4
  <2>1. /\ k \in 0..(NMarcos - 1) /\ 0 \in Nat /\ n \in Nat /\ h.dir \in Nat /\ f \in Nat /\ h.dir <= p
        /\ p + n <= f /\ r + n <= 4 /\ r \in 0..3
    BY SMTT(60), <1>1, <1>2, <1>4, <1>5
  <2>2. p = 4 * k + r /\ b = Escribir(x, p, Tira("cab", 0, n))
    BY <1>10
  <2> HIDE DEF p, n, f
  <2>3. Quieto(x, b) /\ Entre(x, b, h.dir, f)
    BY <1>8, <2>1, <2>2, EscribirPieza
  <2> QED BY <2>3 DEF f
<1>12. /\ b \in Memoria /\ Ps(b) = Ps(a) /\ Hs(b) = Hs(x) /\ Recto(b) /\ b.tablas[0] = x.tablas[0]
       /\ b.caida = a.caida /\ Len(Ps(b)) = N
  BY <1>8, <1>11, QuietoRecto
<1>13. c = b /\ Posicion(c, 0, k + 1) = 4 * (k + 1)
  BY <1>5, <1>12, PaginaRecta
<1> HIDE DEF c
<1>14. Quieto(b, e) /\ Entre(b, e, h.dir, d + 4)
  <2> DEFINE p == 4 * (k + 1)
             n == 1 + r
             f == d + 4
             l == k + 1
             o == 4 - r
  <2>1. /\ l \in 0..(NMarcos - 1) /\ o \in Nat /\ n \in Nat /\ h.dir \in Nat /\ f \in Nat /\ h.dir <= p
        /\ p + n <= f /\ 0 + n <= 4 /\ 0 \in 0..3 /\ p = 4 * l + 0 /\ HM - h.bytes = n /\ h.bytes = o
    BY SMTT(60), <1>1, <1>2, <1>4, <1>5
  <2>2. e = Escribir(b, p, Tira("cab", o, n))
    BY <1>13, <2>1
  <2> HIDE DEF p, n, f, l, o, e
  <2>3. Quieto(b, e) /\ Entre(b, e, h.dir, f)
    BY <1>12, <2>1, <2>2, EscribirPieza
  <2> QED BY <2>3 DEF f
<1>15. Marcar(a, a, 0, d, j) = e
  <2>1. HayPagina(a, 0, k)
    BY <1>5, PaginaRecta DEF N
  <2>2. Partido(h) /\ Headers(a, 0) = Hs(a)
    BY <1>1 DEF Hs
  <2> QED BY ZenonT(60), <2>1, <2>2 DEF Marcar, PonerHeader, Hs, Headers, h, k, x, b, c
<1> HIDE DEF e
<1>16. /\ e \in Memoria /\ Ps(e) = Ps(a) /\ Hs(e) = Hs(x) /\ Recto(e) /\ e.tablas[0] = x.tablas[0]
       /\ e.caida = a.caida
  BY <1>12, <1>14, QuietoRecto
<1>17. Marcado(a, e, j)
  BY <1>7, <1>16 DEF Marcado, h
<1>18. Entre(a, e, h.dir, d + 4)
  BY <1>8, <1>11, <1>14, EntreSigue DEF Entre
<1> QED BY <1>15, <1>17, <1>18 DEF h

\* The header of an address is that of its block.
LEMMA HeaderUnico ==
    ASSUME UnoSolo, NEW a \in Memoria, Cadena(Hs(a)), NEW j \in 1..Len(Hs(a)), NEW d, d = Hs(a)[j].dir + HM
    PROVE  DeDir(a, 0, d) # {} /\ Menor(DeDir(a, 0, d)) = j
<1> DEFINE S == DeDir(a, 0, d)
<1>1. S = {i \in 1..Len(Hs(a)) : Hs(a)[i].dir + HM = d} /\ j \in Nat
  BY SegmentoUno DEF DeDir, Hs
<1>2. ASSUME NEW i \in S PROVE i = j
  <2>1. /\ i \in 1..Len(Hs(a)) /\ Hs(a)[i].dir + HM = d /\ Hs(a)[i].dir \in Nat /\ Hs(a)[i].size \in Nat
        /\ i \in Nat /\ Hs(a)[j].dir \in Nat /\ Hs(a)[j].size \in Nat /\ HM = 5
    BY <1>1, HeaderEs
  <2>2. i < j => Hs(a)[i].dir + HM + Hs(a)[i].size <= Hs(a)[j].dir
    BY <2>1, HeaderEs
  <2>3. j < i => Hs(a)[j].dir + HM + Hs(a)[j].size <= Hs(a)[i].dir
    BY <2>1, HeaderEs
  <2> HIDE DEF Hs, S
  <2>4. ~ (i < j)
    BY <2>1, <2>2
  <2>5. ~ (j < i)
    BY <2>1, <2>3
  <2> QED BY <1>1, <2>1, <2>4, <2>5
<1>3. S = {j}
  BY <1>1, <1>2
<1>4. S \subseteq Nat /\ S # {}
  BY <1>1, <1>3
<1> HIDE DEF S
<1>5. Menor(S) \in S
  BY <1>4, MenorEsMenor
<1> QED BY <1>3, <1>5 DEF S

LEMMA SegmentadoMarcado ==
    ASSUME UnoSolo, NEW a \in Memoria, NEW t, t.op # "alloc", Segmentado(a, t), NEW j \in 1..Len(Hs(a)),
           j < Len(Hs(a)), NEW b, Marcado(a, b, j)
    PROVE  /\ Segmentado(b, t) /\ \A B : Puestos(a, t, B) => Puestos(b, t, B)
<1>1. /\ Len(Hs(b)) = Len(Hs(a)) /\ Ps(b) = Ps(a) /\ Len(Hs(a)) \in Nat
      /\ (Hs(b) = <<>> <=> Hs(a) = <<>>) /\ Hs(a) # <<>>
  BY SegmentoUno DEF Marcado
<1>2. ASSUME NEW i \in 1..Len(Hs(a))
      PROVE  /\ Hs(b)[i].dir = Hs(a)[i].dir /\ Hs(b)[i].size = Hs(a)[i].size /\ Hs(b)[i].bytes = Hs(a)[i].bytes
             /\ i # j => Hs(b)[i].libre = Hs(a)[i].libre
  <2>1. Hs(b)[i] = IF i = j THEN [Hs(a)[i] EXCEPT !.libre = TRUE] ELSE Hs(a)[i]
    BY DEF Marcado
  <2>2. Hs(a)[i] \in Heap
    BY HeaderUno
  <2> QED BY <2>1, <2>2 DEF Heap
<1>3. /\ Ultimo(b).dir = Ultimo(a).dir /\ Ultimo(b).size = Ultimo(a).size /\ Ultimo(b).libre = Ultimo(a).libre
  <2>1. Len(Hs(a)) \in 1..Len(Hs(a)) /\ Len(Hs(a)) # j
    BY <1>1
  <2> QED BY <1>1, <1>2, <2>1 DEF Ultimo
<1>4. Tope(b, t) = Tope(a, t) /\ ~ Reserva(t) /\ Tope(a, t) = Len(Hs(a))
  BY <1>1 DEF Tope, Reserva
<1>5. /\ b.tablas[0].tam = a.tablas[0].tam /\ b.tablas[0].enLista = a.tablas[0].enLista
      /\ b.caida = "no" /\ Recto(b)
  BY DEF Marcado, Segmentado
<1>6. Cadena(Hs(b))
  <2> DEFINE hs == Hs(b)
             gs == Hs(a)
  <2>1. Cadena(gs)
    BY DEF Segmentado
  <2>2. Len(hs) = Len(gs) /\ Len(gs) \in Nat /\ gs # <<>>
        /\ \A i \in 1..Len(gs) : hs[i].dir = gs[i].dir /\ hs[i].size = gs[i].size /\ hs[i].bytes = gs[i].bytes
    BY <1>1, <1>2
  <2>a. Len(gs) # 0
    BY SegmentoUno
  <2> HIDE DEF hs, gs
  <2>3. \A i \in 1..Len(gs) : Sig(hs[i]) = Sig(gs[i]) /\ (EnDos(hs[i]) <=> EnDos(gs[i]))
    BY <2>2 DEF Sig, EnDos
  <2>4. hs # <<>> => hs[1].dir = 0
    <3>1. 1 \in 1..Len(gs)
      BY <2>2, <2>a
    <3> QED BY <2>1, <2>2, <3>1 DEF Cadena
  <2>5. \A i \in 1..(Len(hs) - 1) : hs[i + 1].dir = Sig(hs[i])
    <3> SUFFICES ASSUME NEW i \in 1..(Len(hs) - 1) PROVE hs[i + 1].dir = Sig(hs[i])
      OBVIOUS
    <3>1. i \in 1..Len(gs) /\ i + 1 \in 1..Len(gs) /\ i \in 1..(Len(gs) - 1)
      BY <2>2
    <3> QED BY <2>1, <2>2, <2>3, <3>1 DEF Cadena
  <2>6. \A i, l \in 1..Len(hs) : i < l => Sig(hs[i]) <= hs[l].dir
    BY <2>1, <2>2, <2>3 DEF Cadena
  <2>7. \A i \in 1..Len(hs) : EnDos(hs[i])
    BY <2>1, <2>2, <2>3 DEF Cadena
  <2>8. Cadena(hs)
    BY <2>4, <2>5, <2>6, <2>7 DEF Cadena
  <2> QED BY <2>8 DEF hs
<1>7. Final(b, t)
  BY <1>1, <1>3, <1>4, <1>5 DEF Segmentado, Final, Sig
<1>8. EnCurso(b, t) /\ Completo(b, t)
  BY <1>1, <1>5 DEF Segmentado, EnCurso, Completo
<1>9. Medidas(b, t)
  BY <1>1, <1>2 DEF Segmentado, Medidas
<1>10. ASSUME NEW B, Puestos(a, t, B) PROVE Puestos(b, t, B)
  <2>1. ASSUME NEW c \in B PROVE \E i \in 1..(Tope(b, t) - 1) : DeHeader(c, Hs(b)[i])
    <3>1. PICK i \in 1..(Tope(a, t) - 1) : DeHeader(c, Hs(a)[i])
      BY <1>10 DEF Puestos
    <3>2. i \in 1..Len(Hs(a))
      BY <1>1, <1>4
    <3> QED BY <1>2, <1>4, <3>1, <3>2 DEF DeHeader
  <2> QED BY <1>10, <2>1 DEF Puestos
<1> QED BY <1>5, <1>6, <1>7, <1>8, <1>9, <1>10 DEF Segmentado

\* A free marks the header of the block, and writes over no other block.
LEMMA LiberarUno ==
    ASSUME UnoSolo, MuseInv, UnoInv, NEW b \in bloques[0], LiberarBloque(0, b)
    PROVE  /\ UnoInv' /\ tarea.op = "nada" /\ tarea' = tarea /\ respuesta' = respuesta
           /\ bloques'[0] = bloques[0] \ {b} /\ Conserva(m, m', bloques[0], b.dir)
           /\ Hasta(m', tarea') = Hasta(m, tarea)
<1> DEFINE d == b.dir
<1>1. tarea.op = "nada" /\ tarea' = tarea /\ respuesta' = respuesta /\ m' \in MuseFree(m, 0, d)
  BY LlamaUno DEF LiberarBloque
<1>2. bloques'[0] = bloques[0] \ {b}
  BY UnoEs DEF LiberarBloque
<1>3. /\ m \in Memoria /\ Recto(m) /\ Cadena(Hs(m)) /\ Segmentado(m, tarea) /\ Puestos(m, tarea, bloques[0])
  BY UnoEs
<1>4. PICK j \in 1..(Len(Hs(m)) - 1) : Dueno(m, j, b)
  BY <1>1, BloqueUno
<1>5. /\ d \in Nat /\ d < m.tablas[0].tam /\ m.tablas[0].enLista /\ d \div 4 \in 0..(Len(Ps(m)) - 1)
  <2>1. /\ d \in Nat /\ b.n \in Nat \ {0} /\ m.tablas[0].enLista /\ m.tablas[0].tam \in Nat
        /\ d + b.n + 5 <= 4 * Len(Ps(m)) /\ 4 * Len(Ps(m)) <= m.tablas[0].tam /\ Len(Ps(m)) \in Nat
    BY <1>1, BloqueUno
  <2> HIDE DEF d
  <2>2. d \div 4 \in Nat /\ d = 4 * (d \div 4) + (d % 4) /\ d % 4 \in 0..3
    BY <2>1, PorCuatro
  <2> DEFINE T == m.tablas[0].tam
             N == Len(Ps(m))
             n == b.n
             e == d \div 4
  <2>3. d < T /\ e <= N - 1
    <3>1. /\ d \in Nat /\ n \in Nat /\ T \in Nat /\ N \in Nat /\ d + n + 5 <= 4 * N /\ 4 * N <= T
          /\ e \in Nat /\ 4 * e <= d
      BY <2>1, <2>2
    <3> HIDE DEF T, N, n, e
    <3>2. d + 5 <= 4 * N
      BY <3>1
    <3> QED BY <3>1, <3>2
  <2> QED BY <2>1, <2>2, <2>3
<1>6. /\ j \in 1..Len(Hs(m)) /\ j < Len(Hs(m)) /\ d = Hs(m)[j].dir + HM /\ EnDos(Hs(m)[j])
      /\ b.n = Hs(m)[j].size /\ b.n \in Nat
  BY <1>3, <1>4 DEF Dueno, DeHeader, Cadena
<1> HIDE DEF d
<1>7. m' = Marcar(m, m, 0, d, j)
  <2>1. HayPagina(m, 0, d \div 4) /\ ObtenerPosicion(m, 0, d \div 4) = m
    BY <1>3, <1>5, PaginaRecta
  <2>2. DeDir(m, 0, d) # {} /\ Menor(DeDir(m, 0, d)) = j
    BY <1>3, <1>6, HeaderUnico
  <2>3. EnSegmento(m, 0, d) /\ PAG = 4
    BY <1>5, Cuatro DEF EnSegmento
  <2> QED BY <1>1, <2>1, <2>2, <2>3 DEF MuseFree
<1>8. Marcado(m, m', j) /\ Entre(m, m', Hs(m)[j].dir, d + 4)
  BY <1>3, <1>5, <1>6, <1>7, MarcarRecto
<1>9. Segmentado(m', tarea') /\ Puestos(m', tarea', bloques'[0])
  <2>1. Segmentado(m', tarea) /\ Puestos(m', tarea, bloques[0])
    BY <1>1, <1>3, <1>6, <1>8, SegmentadoMarcado
  <2> QED BY <1>1, <1>2, <2>1, PuestosMenos
<1>10. EnBloque(tarea', bloques'[0]) /\ Datos(m', tarea')
  BY <1>1 DEF EnBloque, Datos
<1>11. Conserva(m, m', bloques[0], d)
  <2> SUFFICES ASSUME NEW c \in bloques[0], c.dir # d, NEW i \in 1..c.n
               PROVE  m'.mem[c.dir + i - 1] = m.mem[c.dir + i - 1]
    BY DEF Conserva
  <2>1. PICK l \in 1..(Len(Hs(m)) - 1) : Dueno(m, l, c)
    BY <1>1, BloqueUno
  <2>2. /\ c.dir \in Nat /\ c.n \in Nat /\ c.dir + c.n + 5 <= 4 * Len(Ps(m)) /\ Len(Ps(m)) \in Nat
        /\ Len(Ps(m)) <= NMarcos /\ NMarcos \in Nat
    BY <1>1, BloqueUno
  <2>3. /\ l \in 1..Len(Hs(m)) /\ c.dir = Hs(m)[l].dir + HM /\ l \in Nat /\ j \in Nat /\ HM = 5
        /\ Hs(m)[l].dir \in Nat /\ Hs(m)[j].dir \in Nat
    <3>1. l \in 1..Len(Hs(m)) /\ l \in Nat /\ c.dir = Hs(m)[l].dir + HM
      BY <2>1 DEF Dueno, DeHeader
    <3> QED BY <1>3, <1>6, <3>1, HeaderEs
  <2>4. l # j
    BY <1>6, <2>3
  <2>5. l < j => c.dir + c.n <= Hs(m)[j].dir
    BY <1>3, <1>6, <2>1, DatosAntes
  <2>6. j < l => d + b.n <= Hs(m)[l].dir
    BY <1>3, <1>4, <2>3, DatosAntes DEF d
  <2>7. c.dir + c.n <= Hs(m)[j].dir \/ d + 5 <= c.dir
    <3>1. CASE l < j
      BY <2>5, <3>1
    <3>2. CASE j < l
      <4>1. d + b.n <= Hs(m)[l].dir
        BY <2>6, <3>2
      <4> DEFINE u == Hs(m)[l].dir
                 p == c.dir
                 n == b.n
      <4>2. d + n <= u /\ p = u + 5 /\ d \in Nat /\ n \in Nat /\ u \in Nat
        BY <1>5, <1>6, <2>3, <4>1
      <4> HIDE DEF u, p, n
      <4>3. d + 5 <= p
        BY <4>2
      <4> QED BY <4>3 DEF p
    <3> QED BY <2>3, <2>4, <3>1, <3>2
  <2> DEFINE x == c.dir + i - 1
  <2>8. x \in Nat /\ x >= c.dir /\ x < c.dir + c.n
    BY SMTT(60), <2>2
  <2> HIDE DEF x
  <2>9. x \in Direcciones
    <3>1. x \in 0..(4 * NMarcos - 1)
      BY <2>2, <2>8
    <3> QED BY <3>1, Cuatro
  <2>10. ~ (x >= Hs(m)[j].dir /\ x < d + 4)
    <3> DEFINE w == Hs(m)[j].dir
               p == c.dir
               n == c.n
    <3>0. /\ w \in Nat /\ p \in Nat /\ n \in Nat /\ x \in Nat /\ x >= p /\ x < p + n /\ d \in Nat
          /\ (p + n <= w \/ d + 5 <= p)
      BY <1>5, <2>2, <2>3, <2>7, <2>8
    <3> HIDE DEF w, p, n
    <3>1. ~ (x >= w /\ x < d + 4)
      BY <3>0
    <3> QED BY <3>1 DEF w
  <2>11. m'.mem[x] = m.mem[x]
    BY <1>8, <2>9, <2>10 DEF Entre
  <2> QED BY <2>11 DEF x
<1>12. Hasta(m', tarea') = Hasta(m, tarea)
  <2>1. Len(Hs(m)) \in 1..Len(Hs(m)) /\ Len(Hs(m)) # j
    BY <1>3, <1>6, SegmentoUno
  <2>2. Ultimo(m') = Ultimo(m)
    BY <1>8, <2>1 DEF Marcado, Ultimo
  <2>3. Hs(m) # <<>> /\ Hs(m') # <<>>
    BY <1>3, <1>8, <2>1, SegmentoUno DEF Marcado
  <2> QED BY <1>1, <2>2, <2>3 DEF Hasta, Reserva
<1> QED BY <1>1, <1>2, <1>9, <1>10, <1>11, <1>12 DEF UnoInv, d

LEMMA SigNat ==
    ASSUME NEW h \in Heap, HM = 5
    PROVE  Sig(h) \in Nat /\ h.dir \in Nat /\ h.size \in Nat /\ h.dir <= Sig(h) /\ Sig(h) = h.dir + 5 + h.size
<1> DEFINE p == h.dir
           q == h.size
<1>1. p \in Nat /\ q \in Nat
  BY DEF Heap
<1>2. Sig(h) = p + HM + q
  BY DEF Sig
<1> HIDE DEF p, q
<1>3. Sig(h) = p + 5 + q
  BY <1>2
<1>4. Sig(h) \in Nat /\ p <= Sig(h)
  BY <1>1, <1>3
<1> QED BY <1>1, <1>3, <1>4 DEF p, q

\* A header more, where the data of the last one end.
LEMMA CadenaMas ==
    ASSUME NEW hs \in Seq(Heap), Cadena(hs), NEW h \in Heap, EnDos(h), HM = 5,
           IF hs = <<>> THEN h.dir = 0 ELSE h.dir = Sig(hs[Len(hs)])
    PROVE  Cadena(Append(hs, h))
<1> DEFINE gs == Append(hs, h)
           n == Len(hs)
<1>1. /\ n \in Nat /\ gs \in Seq(Heap) /\ Len(gs) = n + 1 /\ gs[n + 1] = h /\ \A j \in 1..n : gs[j] = hs[j]
      /\ (hs = <<>> <=> n = 0) /\ \A j \in 1..n : hs[j] \in Heap
  BY AppendProperties, LenProperties, EmptySeq, ElementOfSeq
<1> HIDE DEF gs
<1>2. ASSUME gs # <<>> PROVE gs[1].dir = 0
  <2>1. CASE n = 0
    BY <1>1, <2>1
  <2>2. CASE n # 0
    <3>1. 1 \in 1..n
      BY <1>1, <2>2
    <3> QED BY <1>1, <2>2, <3>1 DEF Cadena
  <2> QED BY <2>1, <2>2
<1>3. ASSUME NEW j \in 1..Len(gs) PROVE EnDos(gs[j])
  <2>1. j \in 1..n \/ j = n + 1
    BY <1>1, <1>3
  <2> QED BY <1>1, <2>1 DEF Cadena
<1>4. ASSUME NEW j \in 1..(Len(gs) - 1) PROVE gs[j + 1].dir = Sig(gs[j])
  <2>0. j \in 1..n
    BY <1>1
  <2>1. CASE j = n
    <3>1. hs # <<>> /\ gs[j] = hs[n] /\ gs[j + 1] = h
      BY <1>1, <2>0, <2>1
    <3> QED BY <3>1
  <2>2. CASE j # n
    <3>1. j + 1 \in 1..n /\ j \in 1..(n - 1)
      BY <1>1, <2>0, <2>2
    <3>2. gs[j + 1] = hs[j + 1] /\ gs[j] = hs[j]
      BY <1>1, <2>0, <3>1
    <3>3. hs[j + 1].dir = Sig(hs[j])
      BY <3>1 DEF Cadena
    <3> QED BY <3>2, <3>3
  <2> QED BY <2>1, <2>2
<1>5. ASSUME NEW i \in 1..Len(gs), NEW j \in 1..Len(gs), i < j PROVE Sig(gs[i]) <= gs[j].dir
  <2>0. i \in 1..n /\ (j \in 1..n \/ j = n + 1)
    BY <1>1, <1>5
  <2>1. CASE j \in 1..n
    BY <1>1, <1>5, <2>0, <2>1 DEF Cadena
  <2>2. CASE j = n + 1
    <3>1. h.dir = Sig(hs[n]) /\ n \in 1..n
      BY <1>1, <2>0
    <3>2. CASE i = n
      <4>1. hs[n] \in Heap
        BY <1>1, <3>1
      <4>2. Sig(hs[n]) \in Nat
        BY <4>1 DEF Sig, Heap
      <4> QED BY <1>1, <2>2, <3>1, <3>2, <4>2
    <3>3. CASE i # n
      <4>1. i < n
        BY <1>1, <2>0, <3>3
      <4>2. Sig(hs[i]) <= hs[n].dir
        BY <2>0, <3>1, <4>1 DEF Cadena
      <4>3. hs[i] \in Heap /\ hs[n] \in Heap
        BY <1>1, <2>0, <3>1
      <4>4. Sig(hs[i]) \in Nat /\ hs[n].dir \in Nat /\ hs[n].dir <= Sig(hs[n]) /\ Sig(hs[n]) \in Nat
        <5>1. Sig(hs[i]) \in Nat /\ hs[i] \in Heap
          BY <4>3, SigNat
        <5> QED BY <4>3, SigNat
      <4>5. Sig(hs[i]) <= Sig(hs[n])
        BY <4>2, <4>4
      <4> QED BY <1>1, <2>0, <2>2, <3>1, <4>5
    <3> QED BY <3>2, <3>3
  <2> QED BY <2>0, <2>1, <2>2
<1>6. Cadena(gs)
  BY <1>2, <1>3, <1>4, <1>5 DEF Cadena
<1> QED BY <1>6 DEF gs

\* The blocks stay where they are if the headers before the one in hand do.
LEMMA PuestosPrefijo ==
    ASSUME NEW a, NEW t, NEW b, NEW u, NEW B, Puestos(a, t, B), Tope(a, t) \in Int, Tope(b, u) \in Int,
           Tope(a, t) <= Tope(b, u),
           \A j \in 1..(Tope(a, t) - 1) : Hs(b)[j].dir = Hs(a)[j].dir /\ Hs(b)[j].size = Hs(a)[j].size
    PROVE  Puestos(b, u, B)
<1>1. ASSUME NEW c \in B PROVE \E j \in 1..(Tope(b, u) - 1) : DeHeader(c, Hs(b)[j])
  <2>1. PICK j \in 1..(Tope(a, t) - 1) : DeHeader(c, Hs(a)[j])
    BY DEF Puestos
  <2>2. j \in 1..(Tope(b, u) - 1)
    OBVIOUS
  <2> QED BY <2>1, <2>2 DEF DeHeader
<1> QED BY <1>1 DEF Puestos

LEMMA UnHeaderEs ==
    ASSUME NEW dir \in Nat, NEW libre \in BOOLEAN, NEW size \in Nat
    PROVE  LET h == UnHeader(dir, libre, size)
           IN  h \in Heap /\ EnDos(h) /\ h.dir = dir /\ h.libre = libre /\ h.size = size
<1>1. (dir % 4) \in 0..3
  OBVIOUS
<1>2. 4 - (dir % 4) \in 1..5
  BY <1>1
<1> QED BY <1>2 DEF UnHeader, EnDos, Heap

LEMMA TareaReserva ==
    ASSUME NEW n, NEW r, tarea' = Reservando(0, n, r)
    PROVE  tarea'.op = "alloc" /\ tarea'.n = n /\ tarea'.resta = r
BY DEF Reservando, Ninguna

LEMMA TamsNat == Tams \subseteq Nat \ {0}
BY PedidosAssumption

\* The first block, with its header and two pages.
LEMMA CrearUno ==
    ASSUME UnoSolo, MuseInv, UnoInv, Llamar, NEW n \in Tams, CrearSegmento(0, n)
    PROVE  /\ UnoInv' /\ tarea.op = "nada" /\ tarea'.op = "alloc" /\ bloques' = bloques /\ respuesta' = respuesta
           /\ bloques[0] = {} /\ Hasta(m', tarea') = Hasta(m, tarea) + n + 5
<1>1. /\ tarea.op = "nada" /\ ~ m.tablas[0].enLista /\ m' = PrimeraPagina(m, 0, n)
      /\ tarea' = Reservando(0, n, RestaCrear(m', 0, n))
      /\ bloques' = bloques /\ respuesta' = respuesta
  BY LlamaUno DEF CrearSegmento
<1>2. m \in Memoria /\ m.caida = "no" /\ Recto(m) /\ Segmentado(m, tarea) /\ Hs(m) = <<>> /\ Ps(m) = <<>>
  BY <1>1, UnoEs DEF Segmentado, Completo
<1>3. n \in Nat /\ n # 0
  BY TamsNat
<1> DEFINE h == UnHeader(0, FALSE, n)
           b == m'
<1>4. /\ b \in Memoria /\ b.caida = "no" /\ Recto(b) /\ Len(Ps(b)) = 2 /\ b.tablas[0].tam >= 8
      /\ b.tablas[0].enLista = m.tablas[0].enLista /\ Hs(b) = Append(<<>>, h)
  BY <1>1, <1>2, <1>3, PrimeraRecto
<1>5. h \in Heap /\ EnDos(h) /\ h.dir = 0 /\ h.size = n
  BY ZenonT(60), <1>3, UnHeaderEs
<1> HIDE DEF h
<1>6. Hs(b) # <<>> /\ Len(Hs(b)) = 1 /\ Hs(b)[1] = h
  BY <1>4
<1>7. Cadena(Hs(b))
  <2>1. <<>> \in Seq(Heap) /\ Cadena(<<>>)
    BY DEF Cadena
  <2> QED BY <1>4, <1>5, <2>1, Cuatro, CadenaMas
<1>8. tarea'.op = "alloc" /\ tarea'.n = n /\ tarea'.resta = n + 2
  <2>1. RestaCrear(m', 0, n) = n + 2
    <3>1. Len(PaginasDe(b, 0)) * PAG = 2 * 4
      BY <1>4, Cuatro DEF Ps
    <3> QED BY <1>3, <3>1, Cuatro DEF RestaCrear
  <2> QED BY <1>1, <2>1, TareaReserva
<1>9. Reserva(tarea') /\ Tope(b, tarea') = 1 /\ Ultimo(b) = h
  BY <1>3, <1>6, <1>8 DEF Reserva, Tope, Ultimo
<1>10. Final(b, tarea')
  <2>1. Sig(h) + HM = 4 * Len(Ps(b)) + tarea'.resta
    BY <1>3, <1>4, <1>5, <1>8, Cuatro DEF Sig
  <2>2. b.tablas[0].tam >= 4 * Len(Ps(b))
    BY <1>4
  <2> QED BY <1>9, <2>1, <2>2 DEF Final
<1>11. EnCurso(b, tarea') /\ Completo(b, tarea') /\ Medidas(b, tarea')
  <2>1. EnCurso(b, tarea')
    BY <1>3, <1>5, <1>6, <1>8, <1>9 DEF EnCurso
  <2>2. \A j \in 1..Len(Hs(b)) : Hs(b)[j].size \in Tams
    BY <1>5, <1>6
  <2> QED BY <1>8, <2>1, <2>2 DEF Completo, Medidas
<1>12. Segmentado(b, tarea')
  BY <1>4, <1>7, <1>10, <1>11 DEF Segmentado
<1>13. bloques[0] = {}
  <2> SUFFICES ASSUME NEW c \in bloques[0] PROVE FALSE
    OBVIOUS
  <2>1. PICK j \in 1..(Len(Hs(m)) - 1) : Dueno(m, j, c)
    BY <1>1, BloqueUno
  <2>2. 1..Len(Hs(m)) = {}
    BY <1>2
  <2> QED BY <2>1, <2>2 DEF Dueno
<1>14. Puestos(b, tarea', bloques'[0]) /\ EnBloque(tarea', bloques'[0]) /\ Datos(b, tarea')
  BY <1>1, <1>8, <1>13 DEF Puestos, EnBloque, Datos
<1>15. Hasta(b, tarea') = Hasta(m, tarea) + n + 5
  <2>1. Hasta(m, tarea) = 0
    BY <1>2 DEF Hasta
  <2>2. Hasta(b, tarea') = 0 + (n + 5)
    BY <1>5, <1>6, <1>8, <1>9 DEF Hasta
  <2> QED BY <1>3, <2>1, <2>2
<1> QED BY <1>1, <1>8, <1>12, <1>13, <1>14, <1>15 DEF UnoInv

\* No block that was freed is given again.
LEMMA SinReusar ==
    ASSUME UnoSolo, SinReuso, MuseInv, UnoInv, tarea.op # "alloc", NEW n \in Tams
    PROVE  ~ Reusa(m, 0, n)
<1> SUFFICES ASSUME NEW j \in 1..Len(Hs(m)), Cabe(Hs(m)[j], n) PROVE FALSE
  BY UnoEs, SegmentoUno DEF Reusa, Hs
<1>1. m \in Memoria /\ Segmentado(m, tarea)
  BY UnoEs
<1>2. Hs(m)[j].size \in Nat /\ n \in Nat /\ n # 0 /\ HM = 5 /\ Len(Hs(m)) \in Nat /\ j \in Nat
  BY <1>1, HeaderUno, TamsNat, Cuatro, SegmentoUno
<1>3. Hs(m)[j].size >= n + HM
  BY DEF Cabe
<1>4. CASE j < Len(Hs(m))
  <2>1. Hs(m)[j].size \in Tams
    BY <1>1, <1>4 DEF Segmentado, Medidas
  <2>2. Hs(m)[j].size < n + HM
    BY <2>1 DEF SinReuso
  <2> QED BY <1>2, <1>3, <2>2
<1>5. CASE ~ (j < Len(Hs(m)))
  <2>1. j = Len(Hs(m)) /\ Hs(m) # <<>>
    BY <1>1, <1>2, <1>5, SegmentoUno
  <2>2. Final(m, tarea) /\ ~ Reserva(tarea)
    BY <1>1, <2>1 DEF Segmentado, Reserva
  <2>3. Hs(m)[j].size < 4
    BY <2>1, <2>2 DEF Final, Ultimo
  <2> QED BY <1>2, <1>3, <2>3
<1> QED BY <1>4, <1>5

\* The size of the last header is that of no one's neighbour.
LEMMA CadenaUltimo ==
    ASSUME NEW hs \in Seq(Heap), Cadena(hs), NEW gs \in Seq(Heap), Len(gs) = Len(hs), Len(hs) >= 1,
           \A j \in 1..Len(hs) : /\ gs[j].dir = hs[j].dir /\ gs[j].bytes = hs[j].bytes
                                 /\ j < Len(hs) => gs[j].size = hs[j].size
    PROVE  Cadena(gs)
<1> DEFINE n == Len(hs)
<1>1. n \in Nat /\ n >= 1 /\ Len(gs) = n /\ hs # <<>>
  <2>1. Len(hs) \in Nat /\ Len(<<>>) = 0
    BY LenProperties, EmptySeq
  <2> QED BY <2>1
<1>2. ASSUME NEW j \in 1..n, j < n PROVE Sig(gs[j]) = Sig(hs[j])
  BY <1>2 DEF Sig
<1>3. \A j \in 1..n : EnDos(gs[j])
  BY DEF Cadena, EnDos
<1>4. gs[1].dir = 0
  BY <1>1 DEF Cadena
<1>5. ASSUME NEW j \in 1..(n - 1) PROVE gs[j + 1].dir = Sig(gs[j])
  <2>1. j \in 1..n /\ j < n /\ j + 1 \in 1..n
    BY <1>1
  <2>2. hs[j + 1].dir = Sig(hs[j])
    BY DEF Cadena
  <2>3. gs[j + 1].dir = hs[j + 1].dir
    BY <2>1
  <2> QED BY <1>2, <2>1, <2>2, <2>3
<1>6. ASSUME NEW i \in 1..n, NEW j \in 1..n, i < j PROVE Sig(gs[i]) <= gs[j].dir
  <2>1. i < n
    BY <1>1, <1>6
  <2>2. Sig(hs[i]) <= hs[j].dir
    BY <1>6 DEF Cadena
  <2>3. Sig(gs[i]) = Sig(hs[i]) /\ gs[j].dir = hs[j].dir
    BY <1>2, <2>1
  <2> QED BY <2>2, <2>3
<1> QED BY <1>1, <1>3, <1>4, <1>5, <1>6 DEF Cadena

\* One more block, whose header is the one that was last.
LEMMA ExtenderUno ==
    ASSUME UnoSolo, MuseInv, UnoInv, Llamar, NEW n \in Tams, ExtenderSegmento(0, n)
    PROVE  /\ UnoInv' /\ tarea.op = "nada" /\ tarea'.op = "alloc" /\ bloques' = bloques /\ respuesta' = respuesta
           /\ m'.mem = m.mem /\ Hasta(m', tarea') = Hasta(m, tarea) + n + 5
<1> DEFINE r == RestaExtender(m, 0, n)
           l == Len(Hs(m))
           u == Ultimo(m)
           b == m'
<1>1. /\ tarea.op = "nada" /\ m.tablas[0].enLista /\ b = OcuparUltimo(m, 0, n)
      /\ tarea' = Reservando(0, n, r) /\ bloques' = bloques /\ respuesta' = respuesta
  BY LlamaUno DEF ExtenderSegmento
<1>2. /\ m \in Memoria /\ m.caida = "no" /\ Recto(m) /\ Segmentado(m, tarea) /\ Hs(m) # <<>> /\ l \in Nat
      /\ l >= 1 /\ Hs(m) \in Seq(Heap) /\ Cadena(Hs(m)) /\ Puestos(m, tarea, bloques[0])
  <2>1. /\ m \in Memoria /\ m.caida = "no" /\ Recto(m) /\ Segmentado(m, tarea) /\ Cadena(Hs(m))
        /\ Puestos(m, tarea, bloques[0])
    BY UnoEs
  <2>2. Hs(m) # <<>>
    BY <1>1, <2>1 DEF Segmentado, Completo
  <2> QED BY <2>1, <2>2, SegmentoUno
<1>3. n \in Nat /\ n # 0 /\ HM = 5
  BY TamsNat, Cuatro
<1>4. l \in 1..l /\ u \in Heap
  <2>1. l \in 1..l
    BY <1>2
  <2> QED BY <1>2, <2>1, HeaderUno DEF Ultimo
<1>5. Final(m, tarea) /\ ~ Reserva(tarea)
  BY <1>1, <1>2 DEF Segmentado, Reserva
<1>6. Sig(u) = 4 * Len(Ps(m)) /\ u.size < 4 /\ (~ u.libre => u.size = 0) /\ u.size \in Nat
      /\ Sig(u) = u.dir + 5 + u.size /\ u.dir \in Nat /\ Len(Ps(m)) \in Nat
  BY <1>2, <1>3, <1>4, <1>5, SigNat, SegmentoUno DEF Final
<1>7. r = n + 5 - u.size
  <2>1. u = UltimoHeap(m, 0)
    BY DEF Ultimo, UltimoHeap, Hs
  <2>2. r = n + 5 - (IF u.libre THEN u.size ELSE 0)
    BY <1>3, <2>1 DEF RestaExtender
  <2> HIDE DEF r
  <2> QED BY <1>6, <2>2
<1>8. tarea'.op = "alloc" /\ tarea'.n = n /\ tarea'.resta = r
  BY <1>1, TareaReserva
<1>9. /\ MismasPaginas(m, b) /\ Len(Hs(b)) = l /\ Hs(b) \in Seq(Heap)
      /\ b.tablas[0].tam = m.tablas[0].tam /\ b.tablas[0].enLista
  BY <1>1, <1>2, <1>3, OcuparRecto
<1>10. \A j \in 1..l : /\ Hs(b)[j].dir = Hs(m)[j].dir /\ Hs(b)[j].bytes = Hs(m)[j].bytes
                       /\ Hs(b)[j].size = IF j = l THEN n ELSE Hs(m)[j].size
  BY <1>1, <1>2, <1>3, OcuparRecto
<1>11. /\ b \in Memoria /\ b.caida = "no" /\ Recto(b) /\ Ps(b) = Ps(m) /\ b.mem = m.mem /\ Hs(b) # <<>>
  <2>1. b \in Memoria /\ b.caida = "no" /\ Recto(b) /\ Ps(b) = Ps(m) /\ b.mem = m.mem
    BY <1>2, <1>9 DEF MismasPaginas
  <2>2. Hs(b) # <<>>
    BY <1>2, <1>9, <2>1, SegmentoUno
  <2> QED BY <2>1, <2>2
<1> HIDE DEF b, l, r
<1>12. Cadena(Hs(b))
  <2>1. \A j \in 1..Len(Hs(m)) : /\ Hs(b)[j].dir = Hs(m)[j].dir /\ Hs(b)[j].bytes = Hs(m)[j].bytes
                                 /\ j < Len(Hs(m)) => Hs(b)[j].size = Hs(m)[j].size
    BY <1>2, <1>10 DEF l
  <2> QED BY <1>2, <1>9, <2>1, CadenaUltimo DEF l
<1>13. Ultimo(b).dir = u.dir /\ Ultimo(b).size = n
  BY <1>4, <1>9, <1>10 DEF Ultimo, l
<1> HIDE DEF u
<1>14. r \in Nat /\ r > 0
  BY SMTT(60), <1>3, <1>6, <1>7
<1>15. Reserva(tarea') /\ Tope(b, tarea') = l /\ ~ (tarea'.resta = 0)
  BY <1>8, <1>9, <1>14 DEF Reserva, Tope
<1>16. Final(b, tarea')
  <2>1. Sig(Ultimo(b)) + HM = 4 * Len(Ps(b)) + tarea'.resta
    <3>1. Sig(Ultimo(b)) = u.dir + 5 + n
      BY <1>3, <1>13 DEF Sig
    <3> DEFINE x == u.dir
               y == u.size
               N == Len(Ps(m))
               z == Sig(Ultimo(b))
    <3>2. z = x + 5 + n /\ x + 5 + y = 4 * N /\ r = n + 5 - y /\ x \in Nat /\ y \in Nat /\ N \in Nat
      BY <1>6, <1>7, <3>1
    <3>3. tarea'.resta = r /\ Len(Ps(b)) = N
      BY <1>8, <1>11
    <3> HIDE DEF x, y, N, z
    <3>4. z + 5 = 4 * N + r
      BY <1>3, <3>2
    <3> QED BY <1>3, <3>3, <3>4 DEF z
  <2>2. b.tablas[0].tam >= 4 * Len(Ps(b))
    <3>1. m.tablas[0].tam >= 4 * Len(Ps(m))
      BY <1>5 DEF Final
    <3>2. Ps(b) = Ps(m) /\ b.tablas[0].tam = m.tablas[0].tam
      BY <1>9, <1>11
    <3> QED BY <3>1, <3>2
  <2> QED BY <1>15, <2>1, <2>2 DEF Final
<1>17. EnCurso(b, tarea') /\ Completo(b, tarea')
  <2>1. Hs(b)[l].size = n
    BY <1>4, <1>10
  <2> QED BY <1>2, <1>8, <1>9, <1>11, <1>14, <1>15, <2>1 DEF EnCurso, Completo
<1>18. Medidas(b, tarea')
  <2>1. ASSUME NEW j \in 1..Len(Hs(b)) PROVE Hs(b)[j].size \in Tams
    <3>1. j \in 1..l
      BY <1>9
    <3>2. CASE j = l
      BY <1>10, <3>1, <3>2
    <3>3. CASE j # l
      <4>1. j < Len(Hs(m))
        BY <1>2, <3>1, <3>3 DEF l
      <4>2. Hs(m)[j].size \in Tams
        BY <1>2, <3>1, <4>1 DEF Segmentado, Medidas, l
      <4> QED BY <1>10, <3>1, <3>3, <4>2
    <3> QED BY <3>2, <3>3
  <2> QED BY <2>1 DEF Medidas
<1>19. Segmentado(b, tarea')
  BY <1>11, <1>12, <1>16, <1>17, <1>18 DEF Segmentado
<1>20. Puestos(b, tarea', bloques[0])
  <2>1. Tope(m, tarea) = l
    BY <1>1 DEF Tope, l
  <2>2. \A j \in 1..(Tope(m, tarea) - 1) : Hs(b)[j].dir = Hs(m)[j].dir /\ Hs(b)[j].size = Hs(m)[j].size
    BY <1>2, <1>10, <2>1
  <2>3. Tope(m, tarea) \in Int /\ Tope(b, tarea') \in Int /\ Tope(m, tarea) <= Tope(b, tarea')
    BY <1>2, <1>15, <2>1
  <2> QED BY <1>2, <2>2, <2>3, PuestosPrefijo
<1>21. EnBloque(tarea', bloques[0]) /\ Datos(b, tarea')
  BY <1>8 DEF EnBloque, Datos
<1>22. UnoInv'
  BY <1>1, <1>19, <1>20, <1>21 DEF UnoInv, b
<1>23. Hasta(b, tarea') = Hasta(m, tarea) + n + 5
  <2>1. Hasta(m, tarea) = u.dir + 0
    BY <1>2, <1>5 DEF Hasta, u
  <2>2. Hasta(b, tarea') = u.dir + (n + 5)
    BY <1>8, <1>11, <1>13, <1>15 DEF Hasta
  <2> QED BY <1>3, <1>6, <2>1, <2>2
<1> QED BY <1>1, <1>8, <1>11, <1>22, <1>23 DEF b

LEMMA MuseAllocUno ==
    ASSUME UnoSolo, SinReuso, MuseInv, UnoInv, NEW n \in Tams, MuseAlloc(0, n)
    PROVE  /\ UnoInv' /\ tarea.op = "nada" /\ tarea'.op = "alloc" /\ bloques' = bloques /\ respuesta' = respuesta
           /\ m'.mem = m.mem \/ bloques[0] = {}
           /\ Hasta(m', tarea') = Hasta(m, tarea) + n + 5
<1>1. Llamar /\ (CrearSegmento(0, n) \/ Reusar(0, n) \/ ExtenderSegmento(0, n))
  BY DEF MuseAlloc
<1>2. tarea.op = "nada"
  BY <1>1, LlamaUno
<1>3. ~ Reusar(0, n)
  BY <1>2, SinReusar DEF Reusar
<1> QED BY <1>1, <1>3, CrearUno, ExtenderUno

\* What an alloc that still adds pages finds.
LEMMA EnReserva ==
    ASSUME UnoSolo, MuseInv, UnoInv, HayMarcos, Reserva(tarea)
    PROVE  /\ Libres(m) # {} /\ Hs(m) # <<>> /\ Len(Hs(m)) \in Nat /\ Len(Hs(m)) >= 1 /\ Tope(m, tarea) = Len(Hs(m))
           /\ Hs(m) \in Seq(Heap) /\ Ultimo(m) \in Heap /\ Len(Ps(m)) \in Nat /\ m.tablas[0].tam \in Nat
           /\ Sig(Ultimo(m)) = Ultimo(m).dir + 5 + Ultimo(m).size
           /\ Ultimo(m).dir \in Nat /\ Ultimo(m).size \in Nat \ {0} /\ Ultimo(m).size = tarea.n /\ tarea.n \in Tams
           /\ Sig(Ultimo(m)) + 5 = 4 * Len(Ps(m)) + tarea.resta /\ m.tablas[0].tam >= 4 * Len(Ps(m))
           /\ (~ m.tablas[0].enLista => Len(Hs(m)) = 1)
           /\ \A j \in 1..Len(Hs(m)) : Hs(m)[j].size \in Tams
<1>1. m \in Memoria /\ Segmentado(m, tarea) /\ tarea.op = "alloc" /\ tarea.resta > 0 /\ tarea.resta \in Int
  BY UnoEs DEF Reserva
<1>2. /\ Hs(m) # <<>> /\ Tope(m, tarea) = Len(Hs(m)) /\ Hs(m)[Tope(m, tarea)].size = tarea.n /\ tarea.n \in Tams
      /\ (~ m.tablas[0].enLista => Tope(m, tarea) = 1)
  <2>1. Tope(m, tarea) = Len(Hs(m))
    BY <1>1 DEF Tope
  <2> QED BY <1>1, <2>1 DEF Segmentado, EnCurso
<1>3. Final(m, tarea)
  BY <1>1, <1>2 DEF Segmentado
<1>4. /\ Len(Hs(m)) \in Nat /\ Hs(m) \in Seq(Heap) /\ Len(Ps(m)) \in Nat /\ m.tablas[0].tam \in Nat
      /\ Len(Hs(m)) # 0 /\ HM = 5
  BY <1>1, <1>2, SegmentoUno, Cuatro
<1>5. Len(Hs(m)) \in 1..Len(Hs(m)) /\ Len(Hs(m)) >= 1
  BY <1>4
<1>6. Ultimo(m) \in Heap
  BY <1>1, <1>5, HeaderUno DEF Ultimo
<1>7. Sig(Ultimo(m)) + 5 = 4 * Len(Ps(m)) + tarea.resta /\ m.tablas[0].tam >= 4 * Len(Ps(m))
  BY <1>3, <1>4 DEF Final
<1>8. \A j \in 1..Len(Hs(m)) : Hs(m)[j].size \in Tams
  BY <1>1 DEF Segmentado, Medidas
<1>9. Ultimo(m).size = tarea.n
  BY <1>2 DEF Ultimo
<1>10. Libres(m) # {}
  BY <1>1 DEF HayMarcos
<1>11. tarea.n \in Nat \ {0}
  BY <1>2, TamsNat
<1> QED BY <1>2, <1>4, <1>5, <1>6, <1>7, <1>8, <1>9, <1>10, <1>11, SigNat

LEMMA AsignarNuevaPaginaUno ==
    ASSUME UnoSolo, MuseInv, UnoInv, HayMarcos, AsignarNuevaPagina
    PROVE  /\ UnoInv' /\ tarea.op = "alloc" /\ tarea'.op = "alloc" /\ bloques' = bloques /\ respuesta' = respuesta
           /\ m'.mem = m.mem /\ Hasta(m', tarea') = Hasta(m, tarea)
<1> DEFINE b == m'
           N == Len(Ps(m))
           r == tarea.resta
           u == tarea'
<1>1. /\ tarea.op = "alloc" /\ r > 4 /\ b = AgregarPagina(m, 0) /\ u = [tarea EXCEPT !.resta = r - 4]
      /\ bloques' = bloques /\ respuesta' = respuesta /\ r \in Int /\ tarea \in Tarea
  BY UnoEs, Cuatro DEF AsignarNuevaPagina, En
<1>2. Reserva(tarea)
  BY <1>1 DEF Reserva
<1>3. /\ m \in Memoria /\ m.caida = "no" /\ Recto(m) /\ Segmentado(m, tarea) /\ Cadena(Hs(m))
      /\ Puestos(m, tarea, bloques[0])
  BY UnoEs
<1>4. /\ Libres(m) # {} /\ N \in Nat /\ m.tablas[0].tam \in Nat /\ Hs(m) # <<>>
      /\ Sig(Ultimo(m)) + 5 = 4 * N + r /\ m.tablas[0].tam >= 4 * N
      /\ Sig(Ultimo(m)) \in Nat /\ HM = 5 /\ Tope(m, tarea) = Len(Hs(m))
      /\ \A j \in 1..Len(Hs(m)) : Hs(m)[j].size \in Tams
  BY <1>2, EnReserva, SigNat, Cuatro
<1>5. MasPaginas(m, b) /\ Hs(b) = Hs(m) /\ b.mem = m.mem /\ b.tablas[0].tam = m.tablas[0].tam + 4
  BY <1>1, <1>3, <1>4, AgregarRecto
<1>6. b \in Memoria /\ b.caida = "no" /\ Recto(b) /\ Len(Ps(b)) = N + 1 /\ b.tablas[0].enLista = m.tablas[0].enLista
  BY <1>5 DEF MasPaginas
<1>7. u.op = "alloc" /\ u.n = tarea.n /\ u.resta = r - 4
  BY <1>1 DEF Tarea
<1> HIDE DEF b, u, r, N
<1>8. Ultimo(b) = Ultimo(m)
  BY <1>5 DEF Ultimo
<1>9. r - 4 > 0
  BY <1>1
<1>10. Reserva(u) /\ Tope(b, u) = Len(Hs(b)) /\ Tope(b, u) = Tope(m, tarea)
  BY <1>4, <1>5, <1>7, <1>9 DEF Reserva, Tope
<1>11. Final(b, u)
  <2>1. Sig(Ultimo(b)) + HM = 4 * Len(Ps(b)) + u.resta
    <3> DEFINE z == Sig(Ultimo(m))
    <3>1. z \in Nat /\ z + 5 = 4 * N + r
      BY <1>4
    <3> HIDE DEF z
    <3>2. z + 5 = 4 * (N + 1) + (r - 4)
      BY <1>1, <1>4, <3>1
    <3> QED BY <1>4, <1>6, <1>7, <1>8, <3>2 DEF z
  <2>2. b.tablas[0].tam >= 4 * Len(Ps(b))
    <3> DEFINE T == m.tablas[0].tam
    <3>1. T \in Nat /\ T >= 4 * N
      BY <1>4
    <3> HIDE DEF T
    <3>2. T + 4 >= 4 * (N + 1)
      BY <1>4, <3>1
    <3> QED BY <1>5, <1>6, <3>2 DEF T
  <2> QED BY <1>10, <2>1, <2>2 DEF Final
<1>12. EnCurso(b, u)
  <2>1. /\ tarea.n \in Tams /\ Tope(m, tarea) >= 1 /\ Hs(m)[Tope(m, tarea)].size = tarea.n
        /\ (~ m.tablas[0].enLista => Tope(m, tarea) = 1)
    BY <1>1, <1>3 DEF Segmentado, EnCurso
  <2>2. u.resta >= 0
    BY <1>1, <1>7, <1>9
  <2> QED BY <1>4, <1>5, <1>6, <1>7, <1>10, <2>1, <2>2 DEF EnCurso
<1>13. Completo(b, u) /\ Medidas(b, u) /\ Cadena(Hs(b))
  BY <1>3, <1>4, <1>5, <1>7 DEF Completo, Medidas
<1>14. Segmentado(b, u)
  BY <1>6, <1>11, <1>12, <1>13 DEF Segmentado
<1>15. Puestos(b, u, bloques[0])
  BY <1>3, <1>5, <1>10 DEF Puestos
<1>16. EnBloque(u, bloques[0]) /\ Datos(b, u)
  BY <1>7 DEF EnBloque, Datos
<1>17. UnoInv'
  BY <1>1, <1>14, <1>15, <1>16 DEF UnoInv, b, u
<1>18. Hasta(b, u) = Hasta(m, tarea)
  BY <1>2, <1>5, <1>7, <1>8, <1>10 DEF Hasta
<1> QED BY <1>1, <1>5, <1>7, <1>17, <1>18 DEF b, u

\* The bytes before the header in hand are those of the blocks.
LEMMA AntesConserva ==
    ASSUME UnoSolo, NEW a \in Memoria, NEW t, Segmentado(a, t), Hs(a) # <<>>, NEW B, Puestos(a, t, B),
           NEW b, NEW d \in Nat, Ultimo(a).dir <= d, Ultimo(a).dir <= 4 * NMarcos,
           \A x \in Direcciones : x < d => b.mem[x] = a.mem[x]
    PROVE  Conserva(a, b, B, 0)
<1> SUFFICES ASSUME NEW e \in B, NEW i \in 1..e.n PROVE b.mem[e.dir + i - 1] = a.mem[e.dir + i - 1]
  BY DEF Conserva
<1>1. PICK j : Dueno(a, j, e)
  BY BloqueDe
<1>2. e.dir + e.n <= Ultimo(a).dir /\ Ultimo(a) \in Heap
  BY <1>1, DatosAntes DEF Segmentado
<1> DEFINE w == Ultimo(a).dir
           p == e.dir
           n == e.n
           x == p + i - 1
<1>3. w \in Nat /\ p \in Nat /\ n \in Nat /\ p + n <= w /\ w <= d /\ w <= 4 * NMarcos /\ NMarcos \in Nat
  BY <1>1, <1>2, Cuatro DEF Dueno, Heap
<1>4. i \in 1..n
  OBVIOUS
<1> HIDE DEF w, p, n
<1>5. x \in 0..(4 * NMarcos - 1) /\ x < d
  BY <1>3, <1>4
<1> HIDE DEF x
<1>6. x \in Direcciones
  BY <1>5, Cuatro
<1>7. b.mem[x] = a.mem[x]
  BY <1>5, <1>6
<1> QED BY <1>7 DEF x, p

\* The header after the new block, and the page for its second half.
LEMMA AsignarUltimaPaginaUno ==
    ASSUME UnoSolo, MuseInv, UnoInv, HayMarcos, AsignarUltimaPagina
    PROVE  /\ UnoInv' /\ tarea.op = "alloc" /\ tarea'.op = "alloc" /\ bloques' = bloques /\ respuesta' = respuesta
           /\ Conserva(m, m', bloques[0], 0)
           /\ Hasta(m', tarea') = Hasta(m, tarea)
<1> DEFINE b == m'
           N == Len(Ps(m))
           r == tarea.resta
           u == tarea'
           w == Ultimo(m)
           l == Len(Hs(m))
           dir == 4 * N - 5 + r
           h == UnHeader(dir, r # 4, 4 - r)
<1>1. /\ tarea.op = "alloc" /\ r \in 1..4 /\ b = CerrarSegmento(m, 0, r) /\ u = [tarea EXCEPT !.resta = 0]
      /\ bloques' = bloques /\ respuesta' = respuesta /\ tarea \in Tarea /\ r \in Nat /\ r > 0
  BY SMTT(60), UnoEs, Cuatro DEF AsignarUltimaPagina, En
<1>2. Reserva(tarea)
  BY <1>1 DEF Reserva
<1>3. /\ m \in Memoria /\ m.caida = "no" /\ Recto(m) /\ Segmentado(m, tarea) /\ Cadena(Hs(m))
      /\ Puestos(m, tarea, bloques[0])
  BY UnoEs
<1>4. /\ Libres(m) # {} /\ N \in Nat /\ m.tablas[0].tam \in Nat /\ Hs(m) # <<>> /\ w \in Heap
      /\ l \in Nat /\ l >= 1 /\ Hs(m) \in Seq(Heap)
      /\ Sig(w) + 5 = 4 * N + r /\ m.tablas[0].tam >= 4 * N
      /\ Sig(w) \in Nat /\ HM = 5 /\ Tope(m, tarea) = l /\ w.size = tarea.n /\ tarea.n \in Tams
      /\ (~ m.tablas[0].enLista => l = 1)
      /\ \A j \in 1..l : Hs(m)[j].size \in Tams
  BY <1>2, EnReserva, SigNat, Cuatro
<1>5. Sig(w) = w.dir + 5 + w.size /\ w.dir \in Nat /\ w.size \in Nat
  BY <1>4, SigNat
<1>6. u.op = "alloc" /\ u.n = tarea.n /\ u.resta = 0
  BY <1>1 DEF Tarea
<1>7. Hs(m)[l] = w
  BY DEF Ultimo
<1>8. MasHeader(m, b, dir, r # 4, 4 - r)
  <2>1. Len(Ps(m)) >= 1
    <3> DEFINE x == w.dir
               y == w.size
               z == Sig(w)
    <3>1. z = x + 5 + y /\ x \in Nat /\ y \in Nat /\ z + 5 = 4 * N + r /\ N \in Nat /\ r \in 1..4
      BY <1>1, <1>4, <1>5
    <3> HIDE DEF x, y, z, N, r
    <3>2. N >= 1
      BY <3>1
    <3> QED BY <3>2 DEF N
  <2> QED BY <1>1, <1>3, <1>4, <2>1, CerrarRecto
<1> HIDE DEF b, u, r, N, w, l
<1>9. dir \in Nat /\ dir = Sig(w) /\ 4 - r \in Nat /\ w.dir <= dir /\ w.dir <= 4 * N
  <2> DEFINE x == w.dir
             y == w.size
             z == Sig(w)
  <2>1. z = x + 5 + y /\ x \in Nat /\ y \in Nat /\ z \in Nat /\ z + 5 = 4 * N + r /\ N \in Nat /\ r \in 1..4
    BY <1>1, <1>4, <1>5
  <2> HIDE DEF x, y, z
  <2>2. dir \in Nat /\ dir = z /\ 4 - r \in Nat /\ x <= dir /\ x <= 4 * N
    BY <2>1
  <2> QED BY <2>2 DEF x, z
<1>10. h \in Heap /\ EnDos(h) /\ h.dir = dir /\ h.libre = (r # 4) /\ h.size = 4 - r
  <2> DEFINE e == dir
             z == 4 - r
             o == r # 4
  <2>1. e \in Nat /\ z \in Nat /\ o \in BOOLEAN
    BY <1>9
  <2>2. h = UnHeader(e, o, z)
    OBVIOUS
  <2> HIDE DEF e, o, z
  <2>3. h \in Heap /\ EnDos(h) /\ h.dir = e /\ h.libre = o /\ h.size = z
    <3>1. LET g == UnHeader(e, o, z)
          IN  g \in Heap /\ EnDos(g) /\ g.dir = e /\ g.libre = o /\ g.size = z
      BY <2>1, UnHeaderEs
    <3> HIDE DEF h
    <3> QED BY <2>2, <3>1
  <2> HIDE DEF h
  <2> QED BY <2>3 DEF e, o, z
<1>11. /\ MasPaginas(m, b) /\ Hs(b) = Append(Hs(m), h) /\ \A x \in Direcciones : x < dir => b.mem[x] = m.mem[x]
  BY <1>8 DEF MasHeader
<1>12. /\ b \in Memoria /\ b.caida = "no" /\ Recto(b) /\ Len(Ps(b)) = N + 1
       /\ b.tablas[0].enLista = m.tablas[0].enLista /\ b.tablas[0].tam >= m.tablas[0].tam + 4
  BY <1>11 DEF MasPaginas, N
<1>13. Conserva(m, b, bloques[0], 0)
  <2>1. w.dir <= 4 * NMarcos
    <3>1. N <= NMarcos /\ NMarcos \in Nat
      BY <1>3, Cuatro DEF Recto, N
    <3> QED BY <1>4, <1>5, <1>9, <3>1
  <2> DEFINE e == dir
  <2>2. e \in Nat /\ Ultimo(m).dir <= e /\ Ultimo(m).dir <= 4 * NMarcos
        /\ \A x \in Direcciones : x < e => b.mem[x] = m.mem[x]
    BY <1>9, <1>11, <2>1 DEF w
  <2> HIDE DEF e
  <2> QED BY <1>3, <1>4, <2>2, AntesConserva
<1> HIDE DEF h
<1>14. /\ Len(Hs(b)) = l + 1 /\ Hs(b)[l + 1] = h /\ \A j \in 1..l : Hs(b)[j] = Hs(m)[j]
  <2>1. Hs(m) \in Seq(Heap) /\ h \in Heap /\ Hs(b) = Append(Hs(m), h) /\ l = Len(Hs(m)) /\ l \in Nat
    BY <1>4, <1>10, <1>11 DEF l
  <2> DEFINE hs == Hs(m)
             gs == Hs(b)
  <2>2. hs \in Seq(Heap) /\ gs = Append(hs, h) /\ l = Len(hs) /\ l \in Nat
    BY <2>1
  <2> HIDE DEF hs, gs
  <2>3. Len(gs) = l + 1 /\ gs[l + 1] = h /\ \A j \in 1..l : gs[j] = hs[j]
    BY <2>1, <2>2, AppendProperties
  <2> QED BY <2>3 DEF hs, gs
<1>15. Hs(b) # <<>> /\ Ultimo(b) = h
  <2>1. Len(Hs(b)) # 0
    BY <1>4, <1>14
  <2> QED BY <1>12, <1>14, <2>1, SegmentoUno DEF Ultimo
<1>16. Cadena(Hs(b))
  <2>1. h.dir = Sig(Hs(m)[Len(Hs(m))])
    BY <1>7, <1>9, <1>10 DEF l, w
  <2> QED BY <1>3, <1>4, <1>10, <1>11, <2>1, CadenaMas
<1>17. ~ Reserva(u) /\ Tope(b, u) = l /\ Tope(m, tarea) = l
  <2>1. Tope(b, u) = Len(Hs(b)) - 1
    BY <1>6 DEF Tope
  <2>2. ~ Reserva(u)
    BY <1>6 DEF Reserva
  <2> QED BY <1>4, <1>14, <2>1, <2>2
<1>18. Final(b, u)
  <2>1. Sig(h) = 4 * Len(Ps(b)) /\ h.size < 4 /\ (~ h.libre => h.size = 0)
    <3>1. Sig(h) = dir + 5 + (4 - r)
      BY <1>4, <1>10, SigNat
    <3>2. dir + 5 + (4 - r) = 4 * (N + 1)
      BY SMTT(60), <1>1, <1>4
    <3>3. 4 - r < 4 /\ (r = 4 => 4 - r = 0)
      BY <1>1
    <3> HIDE DEF dir
    <3> QED BY <1>10, <1>12, <3>1, <3>2, <3>3
  <2>2. b.tablas[0].tam >= 4 * Len(Ps(b))
    <3> DEFINE T == m.tablas[0].tam
               U == b.tablas[0].tam
    <3>1. T \in Nat /\ T >= 4 * N /\ U >= T + 4 /\ U \in Nat
      BY <1>4, <1>12, SegmentoUno
    <3> HIDE DEF T, U
    <3>2. U >= 4 * (N + 1)
      BY <1>4, <3>1
    <3> QED BY <1>12, <3>2 DEF U
  <2> QED BY <1>15, <1>17, <2>1, <2>2 DEF Final
<1>19. EnCurso(b, u)
  <2>1. Hs(b)[l].size = tarea.n
    <3>1. l \in 1..l
      BY <1>4
    <3> QED BY <1>4, <1>7, <1>14, <3>1
  <2> QED BY <1>4, <1>6, <1>12, <1>15, <1>17, <2>1 DEF EnCurso
<1>20. Completo(b, u) /\ Medidas(b, u)
  <2>1. ASSUME NEW j \in 1..Len(Hs(b)), j < Len(Hs(b)) PROVE Hs(b)[j].size \in Tams
    <3>1. j \in 1..l
      BY <1>4, <1>14, <2>1
    <3> QED BY <1>4, <1>14, <3>1
  <2> QED BY <1>6, <1>17, <2>1 DEF Completo, Medidas
<1>21. Segmentado(b, u)
  BY <1>12, <1>16, <1>18, <1>19, <1>20 DEF Segmentado
<1>22. Puestos(b, u, bloques[0])
  <2>1. \A j \in 1..(Tope(m, tarea) - 1) : Hs(b)[j].dir = Hs(m)[j].dir /\ Hs(b)[j].size = Hs(m)[j].size
    BY <1>4, <1>14, <1>17
  <2>2. Tope(m, tarea) \in Int /\ Tope(b, u) \in Int /\ Tope(m, tarea) <= Tope(b, u)
    BY <1>4, <1>17
  <2> QED BY <1>3, <2>1, <2>2, PuestosPrefijo
<1>23. EnBloque(u, bloques[0]) /\ Datos(b, u)
  BY <1>6 DEF EnBloque, Datos
<1>24. UnoInv'
  BY <1>1, <1>21, <1>22, <1>23 DEF UnoInv, b, u
<1>25. Hasta(b, u) = Hasta(m, tarea)
  <2>1. Hasta(m, tarea) = w.dir + (tarea.n + 5)
    BY <1>2, <1>4 DEF Hasta, w
  <2>2. Hasta(b, u) = dir + 0
    BY <1>6, <1>10, <1>15 DEF Hasta, Reserva
  <2> HIDE DEF dir
  <2>3. dir = w.dir + 5 + w.size /\ dir \in Nat /\ w.size = tarea.n /\ w.dir \in Nat /\ w.size \in Nat
    BY <1>4, <1>5, <1>9
  <2> QED BY <2>1, <2>2, <2>3
<1> QED BY <1>1, <1>6, <1>13, <1>24, <1>25 DEF b, u

\* What the end of an alloc finds: the last header closes the segment, and the one
\* before is that of the new block.
LEMMA EnEntrega ==
    ASSUME UnoSolo, MuseInv, UnoInv, ContestarAlloc
    PROVE  LET h == Hs(m)[Len(Hs(m)) - 1]
           IN  /\ tarea.op = "alloc" /\ ~ Reserva(tarea) /\ Final(m, tarea) /\ Hs(m) # <<>> /\ Ps(m) # <<>>
               /\ Tope(m, tarea) = Len(Hs(m)) - 1 /\ Len(Hs(m)) \in Nat /\ Len(Hs(m)) - 1 \in 1..Len(Hs(m))
               /\ h \in Heap /\ EnDos(h) /\ h.size = tarea.n /\ tarea.n \in Nat /\ h.dir \in Nat
               /\ (~ m.tablas[0].enLista => Len(Hs(m)) - 1 = 1 /\ h.dir = 0)
               /\ PaginaDatos(h) \in 0..(Len(Ps(m)) - 1) /\ 0 \in 0..(Len(Ps(m)) - 1)
<1> DEFINE l == Len(Hs(m))
           h == Hs(m)[l - 1]
           N == Len(Ps(m))
           w == Ultimo(m)
<1>1. m \in Memoria /\ Segmentado(m, tarea) /\ tarea.op = "alloc" /\ tarea.resta <= 0 /\ tarea.resta \in Int
      /\ Cadena(Hs(m))
  BY UnoEs DEF ContestarAlloc, En
<1>2. tarea.resta = 0 /\ Hs(m) # <<>> /\ tarea.n \in Tams
  BY <1>1 DEF Segmentado, EnCurso
<1>3. ~ Reserva(tarea) /\ Tope(m, tarea) = l - 1
  BY <1>1, <1>2 DEF Reserva, Tope
<1>4. l \in Nat /\ N \in Nat /\ (Ps(m) = <<>> <=> N = 0)
  BY <1>1, SegmentoUno
<1>5. l - 1 >= 1 /\ h.size = tarea.n /\ (~ m.tablas[0].enLista => l - 1 = 1)
  BY <1>1, <1>3 DEF Segmentado, EnCurso
<1> HIDE DEF l, N
<1>6. l - 1 \in 1..l /\ l \in 1..l /\ l - 1 < l
  BY <1>4, <1>5
<1>7. h \in Heap /\ EnDos(h) /\ w \in Heap /\ HM = 5 /\ h.dir \in Nat /\ h.size \in Nat
  BY <1>1, <1>6, HeaderEs DEF l, Ultimo
<1>8. h.dir + HM + h.size <= w.dir
  BY <1>1, <1>6, HeaderEs DEF l, Ultimo
<1>9. Final(m, tarea)
  BY <1>1, <1>2 DEF Segmentado
<1>10. ~ m.tablas[0].enLista => h.dir = 0
  BY <1>1, <1>2, <1>5 DEF Cadena
<1> HIDE DEF h, w
<1>11. Sig(w) = 4 * N /\ Sig(w) = w.dir + 5 + w.size /\ w.dir \in Nat /\ w.size \in Nat
  BY <1>3, <1>7, <1>9, SigNat DEF Final, w, N
<1>12. PaginaDatos(h) \in 0..(N - 1) /\ 0 \in 0..(N - 1)
  <2> DEFINE x == w.dir
             y == w.size
             p == h.dir
             q == h.size
             k == PaginaDatos(h)
  <2>1. x + 5 + y = 4 * N /\ x \in Nat /\ y \in Nat /\ p \in Nat /\ q \in Nat /\ p + 5 + q <= x
    BY <1>7, <1>8, <1>11
  <2>2. k \in Nat /\ 4 * k <= p + 4
    BY <1>7, DatosDe
  <2> HIDE DEF x, y, p, q, k
  <2>3. k \in 0..(N - 1) /\ 0 \in 0..(N - 1)
    BY <1>4, <2>1, <2>2
  <2> QED BY <2>3 DEF k
<1>13. N # 0
  BY <1>4, <1>12
<1>14. tarea.n \in Nat
  BY <1>2, TamsNat
<1> QED BY <1>1, <1>2, <1>3, <1>4, <1>5, <1>6, <1>7, <1>9, <1>10, <1>12, <1>13, <1>14 DEF h, l, N

\* The segment is in its list, and else as it was.
Listado(a, b) ==
    /\ MismasPaginas(a, b) /\ Hs(b) = Hs(a) /\ b.tablas[0].tam = a.tablas[0].tam /\ b.tablas[0].enLista

\* Block c, of n bytes, is given.
Dado(c, dir, n) ==
    /\ c = [dir |-> dir, n |-> n, valor |-> "cero"] /\ tarea' = Ninguna
    /\ bloques'[0] = bloques[0] \cup {c}
    /\ respuesta' = [op |-> "alloc", s |-> 0, dir |-> dir, n |-> n, res |-> 0, bytes |-> <<>>]

LEMMA EntregarDa ==
    ASSUME UnoSolo, MuseInv, NEW a, a.caida = "no", NEW n, NEW dir, Entregar(a, 0, n, dir)
    PROVE  m' = a /\ \E c : Dado(c, dir, n)
<1> DEFINE c == [dir |-> dir, n |-> n, valor |-> "cero"]
<1>1. /\ m' = a /\ tarea' = Ninguna /\ bloques' = [bloques EXCEPT ![0] = @ \cup {c}]
      /\ respuesta' = [op |-> "alloc", s |-> 0, dir |-> dir, n |-> n, res |-> 0, bytes |-> <<>>]
  BY DEF Entregar
<1>2. bloques \in [Slots -> SUBSET Bloque] /\ 0 \in Slots
  BY Cuatro DEF MuseInv, OtrosBien
<1>3. bloques'[0] = bloques[0] \cup {c}
  BY <1>1, <1>2
<1>4. Dado(c, dir, n)
  BY <1>1, <1>3 DEF Dado
<1> QED BY <1>1, <1>4

LEMMA EntregaUno ==
    ASSUME UnoSolo, MuseInv, UnoInv, ContestarAlloc
    PROVE  Listado(m, m') /\ \E c : Dado(c, Hs(m)[Len(Hs(m)) - 1].dir + 5, tarea.n)
<1> DEFINE h == Hs(m)[Len(Hs(m)) - 1]
           n == tarea.n
<1>1. /\ h \in Heap /\ EnDos(h) /\ PaginaDatos(h) \in 0..(Len(Ps(m)) - 1) /\ 0 \in 0..(Len(Ps(m)) - 1)
      /\ (~ m.tablas[0].enLista => h.dir = 0) /\ h.dir \in Nat
  BY EnEntrega
<1>2. m \in Memoria /\ m.caida = "no" /\ Recto(m) /\ tarea.s = 0 /\ HM = 5 /\ PAG = 4
  BY UnoEs, Cuatro
<1>3. CASE m.tablas[0].enLista
  <2> DEFINE k == PaginaDatos(h)
  <2>1. EntregarDatos(m, 0, n, h)
    BY <1>2, <1>3 DEF ContestarAlloc, Hs
  <2> HIDE DEF h, n
  <2>2. ObtenerPosicion(m, 0, k) = m /\ Posicion(m, 0, k) = 4 * k
    BY <1>1, <1>2, PaginaRecta
  <2>3. 4 * k + InicioDatos(h) = h.dir + 5
    BY <1>1, <1>2, DatosDe
  <2>4. Entregar(m, 0, n, h.dir + 5)
    BY <2>1, <2>2, <2>3 DEF EntregarDatos
  <2>5. m' = m /\ \E c : Dado(c, h.dir + 5, n)
    BY <1>2, <2>4, EntregarDa
  <2>6. Listado(m, m)
    BY <1>2, <1>3 DEF Listado, MismasPaginas
  <2> QED BY <2>5, <2>6 DEF h, n
<1>4. CASE ~ m.tablas[0].enLista
  <2> DEFINE e == EnLista(m, 0)
  <2>1. Entregar(ObtenerPosicion(e, 0, 0), 0, n, Posicion(ObtenerPosicion(e, 0, 0), 0, 0) + HM)
    BY <1>2, <1>4 DEF ContestarAlloc, EnLista
  <2>2. Listado(m, e)
    BY <1>2, ListaUna DEF Listado
  <2> HIDE DEF e, h, n
  <2>3. e \in Memoria /\ Recto(e) /\ Ps(e) = Ps(m) /\ e.caida = "no"
    BY <1>2, <2>2 DEF Listado, MismasPaginas
  <2>4. 0 \in 0..(Len(Ps(e)) - 1)
    BY <1>1, <2>3
  <2>5. ObtenerPosicion(e, 0, 0) = e /\ Posicion(e, 0, 0) = 4 * 0
    BY <2>3, <2>4, PaginaRecta
  <2>6. Posicion(e, 0, 0) + HM = h.dir + 5
    BY <1>1, <1>2, <1>4, <2>5
  <2>7. Entregar(e, 0, n, h.dir + 5)
    BY <2>1, <2>5, <2>6
  <2>8. m' = e /\ \E c : Dado(c, h.dir + 5, n)
    BY <2>3, <2>7, EntregarDa
  <2> QED BY <2>2, <2>8 DEF h, n
<1> QED BY <1>3, <1>4

LEMMA SegmentadoListado ==
    ASSUME UnoSolo, MuseInv, UnoInv, ContestarAlloc, NEW b, Listado(m, b), NEW u, u.op = "nada"
    PROVE  Segmentado(b, u) /\ Tope(b, u) = Len(Hs(m)) /\ Hs(b) = Hs(m) /\ b.mem = m.mem /\ b \in Memoria
<1>1. /\ m \in Memoria /\ m.caida = "no" /\ Recto(m) /\ Segmentado(m, tarea) /\ Cadena(Hs(m))
  BY UnoEs
<1>2. ~ Reserva(tarea) /\ Final(m, tarea) /\ Hs(m) # <<>> /\ Ps(m) # <<>>
  BY EnEntrega
<1>3. /\ b \in Memoria /\ Ps(b) = Ps(m) /\ Hs(b) = Hs(m) /\ Recto(b) /\ b.caida = "no" /\ b.mem = m.mem
      /\ b.tablas[0].tam = m.tablas[0].tam /\ b.tablas[0].enLista
  BY <1>1 DEF Listado, MismasPaginas
<1>4. ~ Reserva(u) /\ u.op # "alloc" /\ Tope(b, u) = Len(Hs(m))
  BY <1>3 DEF Reserva, Tope
<1>5. Ultimo(b) = Ultimo(m)
  BY <1>3 DEF Ultimo
<1>6. Final(b, u)
  BY <1>2, <1>3, <1>4, <1>5 DEF Final
<1>7. EnCurso(b, u) /\ Completo(b, u)
  BY <1>2, <1>3, <1>4 DEF EnCurso, Completo
<1>8. Medidas(b, u)
  BY <1>1, <1>3, <1>4 DEF Segmentado, Medidas
<1>9. Cadena(Hs(b))
  BY <1>1, <1>3
<1>10. Segmentado(b, u)
  BY <1>3, <1>6, <1>7, <1>8, <1>9 DEF Segmentado
<1> QED BY <1>3, <1>4, <1>10

\* The block that an alloc delivers is that of its header, and no other.
LEMMA ContestarAllocUno ==
    ASSUME UnoSolo, MuseInv, UnoInv, ContestarAlloc
    PROVE  /\ UnoInv' /\ tarea.op = "alloc" /\ tarea'.op = "nada" /\ m'.mem = m.mem
           /\ Hasta(m', tarea') = Hasta(m, tarea)
           /\ \E c : /\ bloques'[0] = bloques[0] \cup {c} /\ c \notin bloques[0]
                     /\ \A e \in bloques[0] : e.dir # c.dir
                     /\ respuesta'.dir = c.dir /\ respuesta'.n = c.n /\ c.valor = "cero"
<1> DEFINE l == Len(Hs(m))
           h == Hs(m)[l - 1]
           n == tarea.n
           B == bloques[0]
<1>1. /\ tarea.op = "alloc" /\ Tope(m, tarea) = l - 1 /\ l \in Nat /\ l - 1 \in 1..l
      /\ h \in Heap /\ h.size = n /\ n \in Nat /\ h.dir \in Nat
  BY EnEntrega
<1>2. m \in Memoria /\ Segmentado(m, tarea) /\ Puestos(m, tarea, B) /\ Cadena(Hs(m)) /\ HM = 5
  BY UnoEs, Cuatro
<1>3. Listado(m, m')
  BY EntregaUno
<1>4. PICK c : Dado(c, h.dir + 5, n)
  BY EntregaUno
<1>5. /\ c.dir = h.dir + 5 /\ c.n = n /\ tarea'.op = "nada" /\ bloques'[0] = B \cup {c}
      /\ respuesta'.dir = c.dir /\ respuesta'.n = c.n /\ c.valor = "cero"
  BY <1>4 DEF Dado, Ninguna
<1>6. Segmentado(m', tarea') /\ Tope(m', tarea') = l /\ Hs(m') = Hs(m) /\ m'.mem = m.mem
  BY <1>3, <1>5, SegmentadoListado
<1> HIDE DEF l, n, B
<1>7. ASSUME NEW e \in B PROVE e.dir # c.dir
  <2>1. PICK j \in 1..(Tope(m, tarea) - 1) : Dueno(m, j, e)
    BY <1>2, BloqueDe
  <2>2. e.dir + e.n <= h.dir
    <3>1. j < l - 1
      BY <1>1, <2>1
    <3> QED BY <1>1, <1>2, <2>1, <3>1, DatosAntes DEF l
  <2>3. e.dir \in Nat /\ e.n \in Nat
    BY <2>1 DEF Dueno
  <2> HIDE DEF h
  <2> QED BY <1>1, <1>5, <2>2, <2>3
<1>8. Puestos(m', tarea', bloques'[0])
  <2>1. ASSUME NEW e \in bloques'[0] PROVE \E j \in 1..(Tope(m', tarea') - 1) : DeHeader(e, Hs(m')[j])
    <3>1. CASE e \in B
      <4>1. PICK j \in 1..(Tope(m, tarea) - 1) : DeHeader(e, Hs(m)[j])
        BY <1>2, <3>1 DEF Puestos
      <4>2. j \in 1..(l - 1)
        BY <1>1, <4>1
      <4> QED BY <1>6, <4>1, <4>2
    <3>2. CASE e = c
      <4>1. DeHeader(e, h)
        BY <1>1, <1>2, <1>5, <3>2 DEF DeHeader
      <4>2. l - 1 \in 1..(l - 1)
        BY <1>1
      <4> QED BY <1>6, <4>1, <4>2
    <3> QED BY <1>5, <3>1, <3>2
  <2>2. ASSUME NEW e \in bloques'[0], NEW f \in bloques'[0], e.dir = f.dir PROVE e = f
    <3>1. CASE e \in B /\ f \in B
      BY <1>2, <2>2, <3>1 DEF Puestos
    <3>2. CASE e = c \/ f = c
      BY <1>5, <1>7, <2>2, <3>2
    <3> QED BY <1>5, <3>1, <3>2
  <2> QED BY <2>1, <2>2 DEF Puestos
<1>9. EnBloque(tarea', bloques'[0]) /\ Datos(m', tarea')
  BY <1>5 DEF EnBloque, Datos
<1>10. UnoInv'
  BY <1>6, <1>8, <1>9 DEF UnoInv
<1>11. c \notin B
  BY <1>7
<1>12. \A e \in B : e.dir # c.dir
  BY <1>7
<1>13. Hasta(m', tarea') = Hasta(m, tarea)
  <2>1. Reserva(tarea) = FALSE /\ Reserva(tarea') = FALSE
    <3>1. tarea.resta <= 0
      BY Zenon DEF ContestarAlloc
    <3>2. tarea.resta \in Int
      BY UnoEs
    <3>3. ~ (tarea.resta > 0)
      BY <3>1, <3>2
    <3> QED BY <1>5, <3>3 DEF Reserva
  <2>2. Ultimo(m') = Ultimo(m)
    BY <1>6 DEF Ultimo
  <2> QED BY <1>6, <2>1, <2>2 DEF Hasta
<1> QED BY <1>1, <1>5, <1>6, <1>10, <1>11, <1>12, <1>13 DEF B

\* Nothing is held yet, and every frame is free.
LEMMA InicioUno ==
    ASSUME UnoSolo, Init
    PROVE  UnoInv /\ Hs(m) = <<>> /\ bloques[0] = {} /\ respuesta.op = "nada"
<1>1. /\ m = Arranque /\ tarea.op = "nada" /\ bloques[0] = {} /\ respuesta.op = "nada"
  BY Cuatro DEF Init, Ninguna, SinRespuesta
<1>2. /\ m.tablas[0] = SinSegmento /\ m.caida = "no" /\ \A f \in Marcos : m.marcos[f].libre
  BY <1>1, Cuatro DEF Arranque
<1>3. Ps(m) = <<>> /\ Hs(m) = <<>> /\ ~ m.tablas[0].enLista
  BY <1>2 DEF SinSegmento, Ps, Hs, PaginasDe, Headers
<1>4. Len(Ps(m)) = 0 /\ Len(Hs(m)) = 0
  BY <1>3, EmptySeq
<1>5. Recto(m)
  <2>1. Libres(m) = 0..(NMarcos - 1)
    BY <1>2 DEF Libres, Marcos
  <2>2. 1..Len(Ps(m)) = {} /\ 0 <= NMarcos
    BY <1>4, Cuatro
  <2> QED BY <1>4, <2>1, <2>2 DEF Recto
<1>6. 1..Len(Hs(m)) = {} /\ 1..(Len(Hs(m)) - 1) = {}
  BY <1>4
<1>7. Cadena(Hs(m))
  BY <1>3, <1>6 DEF Cadena
<1>8. Segmentado(m, tarea)
  BY <1>1, <1>2, <1>3, <1>5, <1>6, <1>7 DEF Segmentado, EnCurso, Completo, Medidas
<1>9. Puestos(m, tarea, bloques[0]) /\ EnBloque(tarea, bloques[0]) /\ Datos(m, tarea)
  BY <1>1 DEF Puestos, EnBloque, Datos
<1> QED BY <1>1, <1>3, <1>8, <1>9 DEF UnoInv

\* No block is where muse_map would have put one.
LEMMA SinMapa ==
    ASSUME UnoSolo, MuseInv, UnoInv, tarea.op # "alloc", NEW b \in bloques[0]
    PROVE  b.dir # DirMapa
<1>1. m \in Memoria /\ Segmentado(m, tarea) /\ Puestos(m, tarea, bloques[0]) /\ Recto(m)
  BY UnoEs
<1>2. PICK j : Dueno(m, j, b)
  BY <1>1, BloqueDe
<1>3. b.dir + b.n + 5 <= 4 * Len(Ps(m)) /\ Len(Ps(m)) \in Nat /\ b.dir \in Nat /\ b.n \in Nat
  BY <1>1, <1>2, DatosDentro DEF Dueno
<1>4. Len(Ps(m)) <= NMarcos /\ NMarcos \in Nat /\ DirMapa = 4 * NMarcos + 1000
  BY <1>1, Cuatro DEF Recto, DirMapa
<1> QED BY <1>3, <1>4

----------------------------------------------------------------------------
(* What the programs see.                                                  *)

Par(b) == [dir |-> b.dir, n |-> b.n]
VivosDe(B) == {Par(b) : b \in B}
\* The bytes of block p, with the copy that is under way done.
EnCopia(t, p) == t.op = "cpy" /\ t.dir = p.dir /\ t.n = p.n
BytesDe(a, t, p) ==
    [i \in 1..p.n |-> IF EnCopia(t, p) /\ i > t.hecho THEN <<t.v, i>> ELSE a.mem[p.dir + i - 1]]

\* A block holds what its program last wrote there.
Escritos == \A b \in bloques[0] : b.valor # "cero" => Guarda[Par(b)] = [i \in 1..b.n |-> <<b.valor, i>>]

LEMMA VistaEs ==
    UnoSolo => Guarda = [p \in VivosDe(bloques[0]) |-> BytesDe(m, tarea, p)]
<1> SUFFICES ASSUME UnoSolo PROVE Guarda = [p \in VivosDe(bloques[0]) |-> BytesDe(m, tarea, p)]
  OBVIOUS
<1>1. UNION {bloques[s] : s \in Slots} = bloques[0]
  BY Cuatro
<1>2. Vivos = VivosDe(bloques[0])
  BY <1>1 DEF Vivos, VivosDe, Par
<1> QED BY <1>2 DEF Guarda, BytesDe, EnCopia

LEMMA VistaLuego ==
    UnoSolo => Guarda' = [p \in VivosDe(bloques'[0]) |-> BytesDe(m', tarea', p)]
<1>1. (UnoSolo => Guarda = [p \in VivosDe(bloques[0]) |-> BytesDe(m, tarea, p)])'
  BY VistaEs, PTL
<1> QED BY <1>1

LEMMA BytesSinCopia ==
    ASSUME NEW a, NEW t, NEW p, ~ EnCopia(t, p)
    PROVE  BytesDe(a, t, p) = [i \in 1..p.n |-> a.mem[p.dir + i - 1]]
BY DEF BytesDe

LEMMA BytesMismos ==
    ASSUME NEW a, NEW b, NEW t, NEW u, NEW p, b.mem = a.mem, ~ EnCopia(t, p), ~ EnCopia(u, p)
    PROVE  BytesDe(b, u, p) = BytesDe(a, t, p)
<1>1. BytesDe(b, u, p) = [i \in 1..p.n |-> b.mem[p.dir + i - 1]]
  BY BytesSinCopia
<1>2. BytesDe(a, t, p) = [i \in 1..p.n |-> a.mem[p.dir + i - 1]]
  BY BytesSinCopia
<1> QED BY <1>1, <1>2

LEMMA BytesEnCopia ==
    ASSUME NEW a, NEW t, NEW p, EnCopia(t, p), p.n \in Nat, t.hecho \in Nat, ConDato(a, p.dir, t.v, t.hecho)
    PROVE  BytesDe(a, t, p) = [i \in 1..p.n |-> <<t.v, i>>]
<1> SUFFICES ASSUME NEW i \in 1..p.n
             PROVE  (IF EnCopia(t, p) /\ i > t.hecho THEN <<t.v, i>> ELSE a.mem[p.dir + i - 1]) = <<t.v, i>>
  BY DEF BytesDe
<1>1. CASE i > t.hecho
  BY <1>1
<1>2. CASE ~ (i > t.hecho)
  <2>1. i \in 1..t.hecho
    BY <1>2
  <2> QED BY <1>2, <2>1 DEF ConDato
<1> QED BY <1>1, <1>2

LEMMA ParEs ==
    ASSUME NEW b
    PROVE  Par(b).dir = b.dir /\ Par(b).n = b.n
BY DEF Par

\* The bytes of a block that no copy is at, in a step that conserves them.
LEMMA BytesConservados ==
    ASSUME NEW a, NEW b, NEW t, NEW u, NEW B, NEW d, NEW e \in B, e.dir # d, Conserva(a, b, B, d),
           ~ EnCopia(t, Par(e)), ~ EnCopia(u, Par(e))
    PROVE  BytesDe(b, u, Par(e)) = BytesDe(a, t, Par(e))
<1> DEFINE p == Par(e)
<1>1. p.dir = e.dir /\ p.n = e.n
  BY ParEs
<1>2. \A i \in 1..e.n : b.mem[e.dir + i - 1] = a.mem[e.dir + i - 1]
  BY DEF Conserva
<1> HIDE DEF p
<1>3. \A i \in 1..p.n : b.mem[p.dir + i - 1] = a.mem[p.dir + i - 1]
  BY <1>1, <1>2
<1>4. BytesDe(b, u, p) = [i \in 1..p.n |-> b.mem[p.dir + i - 1]]
  BY BytesSinCopia DEF p
<1>5. BytesDe(a, t, p) = [i \in 1..p.n |-> a.mem[p.dir + i - 1]]
  BY BytesSinCopia DEF p
<1>6. BytesDe(b, u, p) = BytesDe(a, t, p)
  BY <1>3, <1>4, <1>5
<1> QED BY <1>6 DEF p

LEMMA BloqueNoCero ==
    ASSUME UnoSolo, MuseInv, UnoInv, NEW e \in bloques[0]
    PROVE  e.dir \in Nat /\ e.n \in Nat /\ e.dir # 0
<1>1. PICK j : Dueno(m, j, e)
  BY UnoEs, BloqueDe
<1>2. e.dir \in Nat /\ e.n \in Nat /\ e.dir >= 5
  BY <1>1 DEF Dueno
<1> QED BY <1>2

\* A step that no program sees.
LEMMA NadaSeVe ==
    ASSUME UnoSolo, MuseInv, UnoInv, VivosDe(bloques'[0]) = VivosDe(bloques[0]), respuesta' = respuesta,
           \A e \in bloques[0] : BytesDe(m', tarea', Par(e)) = BytesDe(m, tarea, Par(e))
    PROVE  UNCHANGED <<Guarda, respuesta>>
<1>1. \A p \in VivosDe(bloques[0]) : BytesDe(m', tarea', p) = BytesDe(m, tarea, p)
  BY DEF VivosDe
<1>2. Guarda' = Guarda
  BY <1>1, VistaEs, VistaLuego
<1> QED BY <1>2

LEMMA QuietaVista ==
    ASSUME UnoSolo, MuseInv, UnoInv, bloques' = bloques, respuesta' = respuesta,
           tarea.op # "cpy", tarea'.op # "cpy", Conserva(m, m', bloques[0], 0)
    PROVE  UNCHANGED <<Guarda, respuesta>>
<1>1. ASSUME NEW e \in bloques[0] PROVE BytesDe(m', tarea', Par(e)) = BytesDe(m, tarea, Par(e))
  BY BloqueNoCero, BytesConservados DEF EnCopia
<1> QED BY <1>1, NadaSeVe

LEMMA MemoriaVista ==
    ASSUME UnoSolo, MuseInv, UnoInv, bloques' = bloques, respuesta' = respuesta,
           tarea.op # "cpy", tarea'.op # "cpy", m'.mem = m.mem
    PROVE  UNCHANGED <<Guarda, respuesta>>
<1>1. Conserva(m, m', bloques[0], 0)
  BY DEF Conserva
<1> QED BY <1>1, QuietaVista

LEMMA LiberarVisto ==
    ASSUME UnoSolo, MuseInv, UnoInv, respuesta' = respuesta, NEW d, Conserva(m, m', bloques[0], d),
           bloques'[0] \subseteq bloques[0], \A e \in bloques'[0] : e.dir # d,
           tarea.op # "cpy", tarea'.op # "cpy"
    PROVE  Promesa!Liberar
<1>1. DOMAIN Guarda' = VivosDe(bloques'[0]) /\ DOMAIN Guarda = VivosDe(bloques[0])
  BY VistaEs, VistaLuego
<1>2. VivosDe(bloques'[0]) \subseteq VivosDe(bloques[0])
  BY DEF VivosDe
<1>3. ASSUME NEW p \in VivosDe(bloques'[0]) PROVE Guarda'[p] = Guarda[p]
  <2>1. PICK e \in bloques'[0] : p = Par(e)
    BY DEF VivosDe
  <2>2. BytesDe(m', tarea', Par(e)) = BytesDe(m, tarea, Par(e))
    BY BytesConservados DEF EnCopia
  <2>3. Guarda'[p] = BytesDe(m', tarea', p)
    BY VistaLuego
  <2>4. Guarda[p] = BytesDe(m, tarea, p)
    BY <1>2, VistaEs
  <2> QED BY <2>1, <2>2, <2>3, <2>4
<1> QED BY <1>1, <1>2, <1>3 DEF Promesa!Liberar, Promesa!Igual

LEMMA ReservarVisto ==
    ASSUME UnoSolo, MuseInv, UnoInv, MuseInv', UnoInv', m'.mem = m.mem, tarea.op # "cpy", tarea'.op # "cpy",
           NEW c, bloques'[0] = bloques[0] \cup {c}, \A e \in bloques[0] : e.dir # c.dir,
           respuesta'.dir = c.dir, respuesta'.n = c.n
    PROVE  Promesa!Reservar
<1> DEFINE p == Par(c)
<1>1. DOMAIN Guarda' = VivosDe(bloques'[0]) /\ DOMAIN Guarda = VivosDe(bloques[0])
  BY VistaEs, VistaLuego
<1>2. VivosDe(bloques'[0]) = VivosDe(bloques[0]) \cup {p}
  BY DEF VivosDe
<1>3. p \notin VivosDe(bloques[0])
  <2> SUFFICES ASSUME NEW e \in bloques[0], Par(e) = p PROVE FALSE
    BY DEF VivosDe
  <2>1. e.dir = c.dir
    BY ParEs
  <2> QED BY <2>1
<1>4. ASSUME NEW q \in VivosDe(bloques[0]) PROVE Promesa!Separados(p, q)
  <2>1. PICK e \in bloques[0] : q = Par(e)
    BY DEF VivosDe
  <2>2. e \in bloques'[0] /\ c \in bloques'[0] /\ c # e
    BY <1>3, <2>1 DEF VivosDe
  <2>3. m' \in Memoria /\ Segmentado(m', tarea') /\ Puestos(m', tarea', bloques'[0])
    BY DEF MuseInv, UnoInv
  <2>4. c.dir + c.n <= e.dir \/ e.dir + e.n <= c.dir
    BY <2>2, <2>3, BloquesApartados
  <2> QED BY <2>1, <2>4, ParEs DEF Promesa!Separados
<1>5. ASSUME NEW q \in VivosDe(bloques[0]) PROVE Guarda'[q] = Guarda[q]
  <2>1. BytesDe(m', tarea', q) = BytesDe(m, tarea, q)
    <3>1. ~ EnCopia(tarea, q) /\ ~ EnCopia(tarea', q)
      BY DEF EnCopia
    <3>2. BytesDe(m, tarea, q) = [i \in 1..q.n |-> m.mem[q.dir + i - 1]]
      BY <3>1, BytesSinCopia
    <3>3. BytesDe(m', tarea', q) = [i \in 1..q.n |-> m'.mem[q.dir + i - 1]]
      BY <3>1, BytesSinCopia
    <3> QED BY <3>2, <3>3
  <2> QED BY ZenonT(60), <1>2, <2>1, VistaEs, VistaLuego
<1>6. respuesta'.dir = p.dir /\ respuesta'.n = p.n
  BY ParEs
<1> HIDE DEF p
<1>7. p \in DOMAIN Guarda' \ DOMAIN Guarda
  BY <1>1, <1>2, <1>3
<1> QED BY <1>1, <1>2, <1>4, <1>5, <1>6, <1>7 DEF Promesa!Reservar, Promesa!Igual

LEMMA GuardaIgual ==
    ASSUME UnoSolo, VivosDe(bloques'[0]) = VivosDe(bloques[0]),
           \A e \in bloques[0] : BytesDe(m', tarea', Par(e)) = BytesDe(m, tarea, Par(e))
    PROVE  Guarda' = Guarda
<1>1. \A p \in VivosDe(bloques[0]) : BytesDe(m', tarea', p) = BytesDe(m, tarea, p)
  BY DEF VivosDe
<1> QED BY <1>1, VistaEs, VistaLuego

LEMMA GuardaDeBloque ==
    ASSUME UnoSolo, NEW e \in bloques[0]
    PROVE  Par(e) \in DOMAIN Guarda /\ Guarda[Par(e)] = BytesDe(m, tarea, Par(e))
<1>1. Par(e) \in VivosDe(bloques[0])
  BY DEF VivosDe
<1> QED BY <1>1, VistaEs

LEMMA GuardaLuego ==
    ASSUME UnoSolo, NEW e \in bloques'[0]
    PROVE  Par(e) \in DOMAIN Guarda' /\ Guarda'[Par(e)] = BytesDe(m', tarea', Par(e))
<1>1. Par(e) \in VivosDe(bloques'[0])
  BY DEF VivosDe
<1> QED BY <1>1, VistaLuego

\* The block that a read or a copy is at.
LEMMA BloqueDeTarea ==
    ASSUME UnoSolo, MuseInv, UnoInv, tarea.op \in {"get", "cpy"}
    PROVE  \E b \in bloques[0] : /\ b.dir = tarea.dir /\ b.n = tarea.n
                                 /\ \A e \in bloques[0] : e.dir = tarea.dir => e = b
<1>1. PICK b \in bloques[0] : b.dir = tarea.dir /\ b.n = tarea.n
  BY DEF UnoInv, EnBloque
<1>2. \A e \in bloques[0] : e.dir = tarea.dir => e = b
  BY <1>1 DEF UnoInv, Puestos
<1> QED BY <1>1, <1>2

\* While a block is copied, what it holds is what is being copied.
LEMMA BytesDeCopia ==
    ASSUME UnoSolo, MuseInv, UnoInv, tarea.op = "cpy", NEW e \in bloques[0], e.dir = tarea.dir
    PROVE  /\ BytesDe(m, tarea, Par(e)) = [i \in 1..e.n |-> <<tarea.v, i>>]
           /\ e.n = tarea.n /\ EnCopia(tarea, Par(e))
<1>1. e.n = tarea.n
  BY BloqueDeTarea
<1> DEFINE p == Par(e)
<1>2. p.dir = e.dir /\ p.n = e.n
  BY ParEs
<1> HIDE DEF p
<1>3. EnCopia(tarea, p)
  BY <1>1, <1>2 DEF EnCopia
<1>4. p.n \in Nat /\ tarea.hecho \in Nat
  BY <1>1, <1>2, UnoEs
<1>5. ConDato(m, p.dir, tarea.v, tarea.hecho)
  BY <1>2 DEF UnoInv, Datos, ConDato
<1>6. BytesDe(m, tarea, p) = [i \in 1..p.n |-> <<tarea.v, i>>]
  BY <1>3, <1>4, <1>5, BytesEnCopia
<1> QED BY <1>1, <1>2, <1>3, <1>6 DEF p

LEMMA BytesDeLaCopia ==
    UnoSolo /\ MuseInv /\ UnoInv /\ tarea.op = "cpy"
      => \A f \in bloques[0] : f.dir = tarea.dir =>
              /\ BytesDe(m, tarea, Par(f)) = [i \in 1..f.n |-> <<tarea.v, i>>]
              /\ f.n = tarea.n /\ EnCopia(tarea, Par(f))
BY BytesDeCopia

LEMMA BytesDeCopiaLuego ==
    UnoSolo /\ MuseInv' /\ UnoInv' /\ tarea'.op = "cpy"
      => \A f \in bloques'[0] : f.dir = tarea'.dir =>
              /\ BytesDe(m', tarea', Par(f)) = [i \in 1..f.n |-> <<tarea'.v, i>>]
              /\ f.n = tarea'.n /\ EnCopia(tarea', Par(f))
<1>1. (UnoSolo /\ MuseInv /\ UnoInv /\ tarea.op = "cpy"
         => \A f \in bloques[0] : f.dir = tarea.dir =>
              /\ BytesDe(m, tarea, Par(f)) = [i \in 1..f.n |-> <<tarea.v, i>>]
              /\ f.n = tarea.n /\ EnCopia(tarea, Par(f)))'
  BY BytesDeLaCopia, PTL
<1> QED BY <1>1

LEMMA CopiarVisto ==
    ASSUME UnoSolo, MuseInv, UnoInv, MuseInv', NEW b \in bloques[0], NEW v \in Valores, MuseCpy(0, b, v)
    PROVE  UnoInv' /\ Promesa!Copiar /\ (Escritos => Escritos')
<1> DEFINE c == [b EXCEPT !.valor = v]
<1>1. /\ UnoInv' /\ tarea.op = "nada" /\ tarea'.op = "cpy" /\ respuesta' = respuesta
      /\ tarea'.dir = b.dir /\ tarea'.n = b.n /\ tarea'.v = v
      /\ bloques'[0] = (bloques[0] \ {b}) \cup {c}
      /\ Conserva(m, m', bloques[0], b.dir)
  BY MuseCpyUno
<1>2. c.dir = b.dir /\ c.n = b.n
  BY UnoEs DEF Bloque
<1>a. c.valor = v
  BY UnoEs DEF Bloque
<1> HIDE DEF c
<1>3. Par(c) = Par(b)
  BY <1>2 DEF Par
<1>4. VivosDe(bloques'[0]) = VivosDe(bloques[0])
  <2>1. \A e \in bloques'[0] : \E f \in bloques[0] : Par(e) = Par(f)
    BY <1>1, <1>3
  <2>2. \A f \in bloques[0] : \E e \in bloques'[0] : Par(e) = Par(f)
    BY <1>1, <1>3
  <2> QED BY <2>1, <2>2 DEF VivosDe
<1>5. DOMAIN Guarda' = VivosDe(bloques[0]) /\ DOMAIN Guarda = VivosDe(bloques[0])
  BY <1>4, VistaEs, VistaLuego
<1> DEFINE p == Par(b)
<1>6. p \in VivosDe(bloques[0]) /\ p.n = b.n
  BY ParEs DEF VivosDe
<1>7. Guarda'[p] = [i \in 1..p.n |-> <<v, i>>]
  <2>1. c \in bloques'[0] /\ c.dir = tarea'.dir
    BY <1>1, <1>2
  <2>2. BytesDe(m', tarea', Par(c)) = [i \in 1..c.n |-> <<v, i>>]
    BY <1>1, <2>1, BytesDeCopiaLuego
  <2>3. Guarda'[Par(c)] = BytesDe(m', tarea', Par(c))
    BY <2>1, GuardaLuego
  <2> QED BY <1>2, <1>3, <1>6, <2>2, <2>3
<1>8. ASSUME NEW q \in VivosDe(bloques[0]) \ {p} PROVE Guarda'[q] = Guarda[q]
  <2>1. PICK e \in bloques[0] : q = Par(e)
    BY DEF VivosDe
  <2>2. e # b
    BY <2>1
  <2>3. e.dir # b.dir
    BY <2>2 DEF UnoInv, Puestos
  <2>4. ~ EnCopia(tarea, Par(e)) /\ ~ EnCopia(tarea', Par(e))
    BY <1>1, <2>3, ParEs DEF EnCopia
  <2>5. BytesDe(m', tarea', Par(e)) = BytesDe(m, tarea, Par(e))
    BY <1>1, <2>3, <2>4, BytesConservados
  <2>6. e \in bloques'[0]
    BY <1>1, <2>2
  <2> QED BY <2>1, <2>5, <2>6, GuardaDeBloque, GuardaLuego
<1> HIDE DEF p
<1>9. Promesa!Copiar
  BY <1>1, <1>5, <1>6, <1>7, <1>8 DEF Promesa!Copiar, Promesa!Igual
<1>10. ASSUME Escritos, NEW e \in bloques'[0], e.valor # "cero"
       PROVE  Guarda'[Par(e)] = [i \in 1..e.n |-> <<e.valor, i>>]
  <2>1. CASE e = c
    BY <1>2, <1>3, <1>6, <1>7, <2>1, <1>a DEF p
  <2>2. CASE e # c
    <3>1. e \in bloques[0] /\ e # b
      BY <1>1, <2>2
    <3>2. Par(e) # p
      <4>1. e.dir # b.dir
        BY <3>1 DEF UnoInv, Puestos
      <4> QED BY <4>1, ParEs DEF p
    <3>3. Par(e) \in VivosDe(bloques[0])
      BY <3>1 DEF VivosDe
    <3>4. Guarda'[Par(e)] = Guarda[Par(e)]
      BY <1>8, <3>2, <3>3
    <3> QED BY <1>10, <3>1, <3>4 DEF Escritos
  <2> QED BY <2>1, <2>2
<1>11. Escritos => Escritos'
  BY <1>10 DEF Escritos
<1> QED BY <1>1, <1>9, <1>11

LEMMA CopiandoVista ==
    ASSUME UnoSolo, MuseInv, UnoInv, MuseInv', CopiarUnaPagina
    PROVE  UnoInv' /\ UNCHANGED <<Guarda, respuesta>>
<1>1. /\ UnoInv' /\ tarea.op = "cpy" /\ tarea'.op = "cpy" /\ respuesta' = respuesta
      /\ tarea'.dir = tarea.dir /\ tarea'.n = tarea.n /\ tarea'.v = tarea.v
      /\ bloques' = bloques /\ Conserva(m, m', bloques[0], tarea.dir)
  BY CopiarUnaPaginaUno
<1>2. ASSUME NEW e \in bloques[0] PROVE BytesDe(m', tarea', Par(e)) = BytesDe(m, tarea, Par(e))
  <2>1. CASE e.dir = tarea.dir
    <3>1. BytesDe(m, tarea, Par(e)) = [i \in 1..e.n |-> <<tarea.v, i>>]
      BY <1>1, <2>1, BytesDeCopia
    <3>2. BytesDe(m', tarea', Par(e)) = [i \in 1..e.n |-> <<tarea'.v, i>>]
      BY <1>1, <2>1, BytesDeCopiaLuego
    <3> QED BY <1>1, <3>1, <3>2
  <2>2. CASE e.dir # tarea.dir
    <3>1. ~ EnCopia(tarea, Par(e)) /\ ~ EnCopia(tarea', Par(e))
      BY <1>1, <2>2, ParEs DEF EnCopia
    <3> QED BY <1>1, <2>2, <3>1, BytesConservados
  <2> QED BY <2>1, <2>2
<1> QED BY <1>1, <1>2, NadaSeVe

LEMMA LeidoVisto ==
    ASSUME UnoSolo, MuseInv, UnoInv, ContestarGet
    PROVE  UnoInv' /\ Promesa!Contestar
<1>1. /\ UnoInv' /\ m' = m /\ tarea.op = "get" /\ tarea'.op = "nada" /\ bloques' = bloques
      /\ respuesta'.res = 0 /\ respuesta'.dir = tarea.dir /\ respuesta'.n = tarea.n
      /\ respuesta'.bytes = [i \in 1..tarea.n |-> m.mem[tarea.dir + i - 1]]
  BY ContestarGetUno
<1>2. PICK e \in bloques[0] : e.dir = tarea.dir /\ e.n = tarea.n
  BY <1>1, BloqueDeTarea
<1>3. ASSUME NEW f \in bloques[0] PROVE BytesDe(m', tarea', Par(f)) = BytesDe(m, tarea, Par(f))
  <2>1. ~ EnCopia(tarea, Par(f)) /\ ~ EnCopia(tarea', Par(f))
    BY <1>1 DEF EnCopia
  <2> QED BY <1>1, <2>1, BytesMismos
<1>4. Guarda' = Guarda
  BY <1>1, <1>3, GuardaIgual
<1> DEFINE p == Par(e)
<1>5. p.dir = tarea.dir /\ p.n = tarea.n
  BY <1>2, ParEs
<1>6. p \in DOMAIN Guarda /\ Guarda[p] = BytesDe(m, tarea, p)
  BY GuardaDeBloque
<1> HIDE DEF p
<1>7. BytesDe(m, tarea, p) = [i \in 1..p.n |-> m.mem[p.dir + i - 1]]
  BY <1>1, BytesSinCopia DEF EnCopia
<1>8. Guarda[p] = respuesta'.bytes
  BY <1>1, <1>5, <1>6, <1>7
<1>9. Promesa!Contestar
  BY <1>1, <1>4, <1>5, <1>6, <1>8 DEF Promesa!Contestar
<1> QED BY <1>1, <1>9

LEMMA CopiadoVisto ==
    ASSUME UnoSolo, MuseInv, UnoInv, ContestarCpy
    PROVE  UnoInv' /\ Promesa!Contestar
<1>1. /\ UnoInv' /\ m' = m /\ tarea.op = "cpy" /\ tarea'.op = "nada" /\ bloques' = bloques
      /\ respuesta'.res = 0 /\ respuesta'.dir = tarea.dir /\ respuesta'.n = tarea.n
      /\ tarea.hecho = tarea.n /\ respuesta'.bytes = Tira(tarea.v, 0, tarea.n)
      /\ \A i \in 1..tarea.n : m.mem[tarea.dir + i - 1] = <<tarea.v, i>>
  BY ContestarCpyUno
<1>2. PICK e \in bloques[0] : e.dir = tarea.dir /\ e.n = tarea.n
  BY <1>1, BloqueDeTarea
<1>3. ASSUME NEW f \in bloques[0] PROVE BytesDe(m', tarea', Par(f)) = BytesDe(m, tarea, Par(f))
  <2>1. ~ EnCopia(tarea', Par(f))
    BY <1>1 DEF EnCopia
  <2>2. CASE f.dir = tarea.dir
    <3> DEFINE q == Par(f)
    <3>1. BytesDe(m, tarea, q) = [i \in 1..f.n |-> <<tarea.v, i>>] /\ f.n = tarea.n
      BY <1>1, <2>2, BytesDeCopia
    <3>2. q.dir = tarea.dir /\ q.n = f.n
      BY <2>2, ParEs
    <3>3. BytesDe(m', tarea', q) = [i \in 1..q.n |-> m'.mem[q.dir + i - 1]]
      BY <2>1, BytesSinCopia
    <3> HIDE DEF q
    <3>4. \A i \in 1..tarea.n : m'.mem[q.dir + i - 1] = <<tarea.v, i>>
      BY <1>1, <3>2
    <3>5. BytesDe(m', tarea', q) = BytesDe(m, tarea, q)
      BY <3>1, <3>2, <3>3, <3>4
    <3> QED BY <3>5 DEF q
  <2>3. CASE f.dir # tarea.dir
    <3>1. ~ EnCopia(tarea, Par(f))
      BY <2>3, ParEs DEF EnCopia
    <3> QED BY <1>1, <2>1, <3>1, BytesMismos
  <2> QED BY <2>2, <2>3
<1>4. Guarda' = Guarda
  BY <1>1, <1>3, GuardaIgual
<1> DEFINE p == Par(e)
<1>5. p.dir = tarea.dir /\ p.n = tarea.n
  BY <1>2, ParEs
<1>6. p \in DOMAIN Guarda /\ Guarda[p] = BytesDe(m, tarea, p)
  BY GuardaDeBloque
<1>7. BytesDe(m, tarea, p) = [i \in 1..tarea.n |-> <<tarea.v, i>>]
  BY <1>1, <1>2, BytesDeCopia
<1> HIDE DEF p
<1>8. Guarda[p] = respuesta'.bytes
  <2>1. Tira(tarea.v, 0, tarea.n) = [i \in 1..tarea.n |-> <<tarea.v, i>>]
    <3>1. \A i \in 1..tarea.n : 0 + i = i
      BY UnoEs
    <3> QED BY <3>1 DEF Tira
  <2> QED BY <1>1, <1>6, <1>7, <2>1
<1>9. Promesa!Contestar
  BY <1>1, <1>4, <1>5, <1>6, <1>8 DEF Promesa!Contestar
<1> QED BY <1>1, <1>9

----------------------------------------------------------------------------
(* Every step.                                                             *)

Visto ==
    \/ Promesa!Reservar \/ Promesa!Liberar \/ Promesa!Copiar \/ Promesa!Contestar
    \/ UNCHANGED <<Guarda, respuesta>>
Bueno == UnoInv' /\ Visto /\ (Escritos => Escritos')

LEMMA EscritosIgual ==
    ASSUME Guarda' = Guarda, bloques' = bloques
    PROVE  Escritos => Escritos'
BY DEF Escritos

LEMMA EscritosMenos ==
    ASSUME UnoSolo, Promesa!Liberar, bloques'[0] \subseteq bloques[0]
    PROVE  Escritos => Escritos'
<1> SUFFICES ASSUME Escritos, NEW e \in bloques'[0], e.valor # "cero"
             PROVE  Guarda'[Par(e)] = [i \in 1..e.n |-> <<e.valor, i>>]
  BY DEF Escritos
<1>1. Par(e) \in DOMAIN Guarda'
  BY GuardaLuego
<1>2. Guarda'[Par(e)] = Guarda[Par(e)]
  BY <1>1 DEF Promesa!Liberar, Promesa!Igual
<1> QED BY <1>2 DEF Escritos

\* A step of a handler.
LEMMA ServirUno ==
    ASSUME UnoSolo, MuseInv, UnoInv, MuseInv', HayMarcos, Servir
    PROVE  Bueno
<1>1. CASE AsignarNuevaPagina
  <2>1. /\ UnoInv' /\ tarea.op = "alloc" /\ tarea'.op = "alloc" /\ bloques' = bloques /\ respuesta' = respuesta
        /\ m'.mem = m.mem
    BY <1>1, AsignarNuevaPaginaUno
  <2>2. UNCHANGED <<Guarda, respuesta>>
    BY <2>1, MemoriaVista
  <2> QED BY <2>1, <2>2, EscritosIgual DEF Bueno, Visto
<1>2. CASE AsignarUltimaPagina
  <2>1. /\ UnoInv' /\ tarea.op = "alloc" /\ tarea'.op = "alloc" /\ bloques' = bloques /\ respuesta' = respuesta
        /\ Conserva(m, m', bloques[0], 0)
    BY <1>2, AsignarUltimaPaginaUno
  <2>2. UNCHANGED <<Guarda, respuesta>>
    BY <2>1, QuietaVista
  <2> QED BY <2>1, <2>2, EscritosIgual DEF Bueno, Visto
<1>3. CASE ContestarAlloc
  <2>1. UnoInv' /\ tarea.op = "alloc" /\ tarea'.op = "nada" /\ m'.mem = m.mem
    BY <1>3, ContestarAllocUno
  <2>2. PICK c : /\ bloques'[0] = bloques[0] \cup {c} /\ c \notin bloques[0]
                 /\ \A e \in bloques[0] : e.dir # c.dir
                 /\ respuesta'.dir = c.dir /\ respuesta'.n = c.n /\ c.valor = "cero"
    BY <1>3, ContestarAllocUno
  <2>3. Promesa!Reservar
    BY <2>1, <2>2, ReservarVisto
  <2>4. Escritos => Escritos'
    <3> SUFFICES ASSUME Escritos, NEW e \in bloques'[0], e.valor # "cero"
                 PROVE  Guarda'[Par(e)] = [i \in 1..e.n |-> <<e.valor, i>>]
      BY DEF Escritos
    <3>1. e \in bloques[0]
      BY <2>2
    <3>2. Par(e) \in DOMAIN Guarda
      BY <3>1, GuardaDeBloque
    <3>3. Guarda'[Par(e)] = Guarda[Par(e)]
      BY <2>3, <3>2 DEF Promesa!Reservar, Promesa!Igual
    <3> QED BY <3>1, <3>3 DEF Escritos
  <2> QED BY <2>1, <2>3, <2>4 DEF Bueno, Visto
<1>4. CASE LeerUnaPagina
  <2>1. /\ UnoInv' /\ m'.mem = m.mem /\ tarea.op = "get" /\ tarea'.op = "get"
        /\ bloques' = bloques /\ respuesta' = respuesta
    BY <1>4, LeerUnaPaginaUno
  <2>2. UNCHANGED <<Guarda, respuesta>>
    BY <2>1, MemoriaVista
  <2> QED BY <2>1, <2>2, EscritosIgual DEF Bueno, Visto
<1>5. CASE ContestarGet
  <2>1. UnoInv' /\ Promesa!Contestar
    BY <1>5, LeidoVisto
  <2>2. Guarda' = Guarda /\ bloques' = bloques
    BY <1>5, <2>1 DEF Promesa!Contestar, ContestarGet
  <2> QED BY <2>1, <2>2, EscritosIgual DEF Bueno, Visto
<1>6. CASE CopiarUnaPagina
  <2>1. UnoInv' /\ UNCHANGED <<Guarda, respuesta>>
    BY <1>6, CopiandoVista
  <2>2. bloques' = bloques
    BY <1>6 DEF CopiarUnaPagina
  <2> QED BY <2>1, <2>2, EscritosIgual DEF Bueno, Visto
<1>7. CASE ContestarCpy
  <2>1. UnoInv' /\ Promesa!Contestar
    BY <1>7, CopiadoVisto
  <2>2. Guarda' = Guarda /\ bloques' = bloques
    BY <1>7, <2>1 DEF Promesa!Contestar, ContestarCpy
  <2> QED BY <2>1, <2>2, EscritosIgual DEF Bueno, Visto
<1> QED BY <1>1, <1>2, <1>3, <1>4, <1>5, <1>6, <1>7 DEF Servir

\* A call of the program.
LEMMA ProgramaUno ==
    ASSUME UnoSolo, SinReuso, MuseInv, UnoInv, MuseInv', Programa(0)
    PROVE  Bueno
<1>1. CASE MuseInit(0)
  <2>1. /\ UnoInv' /\ m'.mem = m.mem /\ tarea' = tarea /\ bloques' = bloques /\ respuesta' = respuesta
        /\ tarea.op = "nada"
    BY <1>1, MuseInitUno, LlamaUno DEF MuseInit
  <2>2. UNCHANGED <<Guarda, respuesta>>
    BY <2>1, MemoriaVista
  <2> QED BY <2>1, <2>2, EscritosIgual DEF Bueno, Visto
<1>2. CASE MuseClose(0)
  <2>1. /\ UnoInv' /\ m'.mem = m.mem /\ tarea' = tarea /\ bloques'[0] = {} /\ respuesta' = respuesta
        /\ tarea.op = "nada"
    BY <1>2, MuseCloseUno, LlamaUno DEF MuseClose
  <2>2. Conserva(m, m', bloques[0], 0)
    BY <2>1 DEF Conserva
  <2>3. Promesa!Liberar
    BY <2>1, <2>2, LiberarVisto
  <2>4. Escritos'
    BY <2>1 DEF Escritos
  <2> QED BY <2>1, <2>3, <2>4 DEF Bueno, Visto
<1>3. CASE \E n \in Tams : MuseAlloc(0, n) \/ (0 \in Mapean /\ MuseMap(0, n))
  <2>1. PICK n \in Tams : MuseAlloc(0, n)
    BY <1>3, Cuatro
  <2>2. /\ UnoInv' /\ tarea.op = "nada" /\ tarea'.op = "alloc" /\ bloques' = bloques /\ respuesta' = respuesta
        /\ m'.mem = m.mem \/ bloques[0] = {}
    BY <2>1, MuseAllocUno
  <2>3. Conserva(m, m', bloques[0], 0)
    BY <2>2 DEF Conserva
  <2>4. UNCHANGED <<Guarda, respuesta>>
    BY <2>2, <2>3, QuietaVista
  <2> QED BY <2>2, <2>4, EscritosIgual DEF Bueno, Visto
<1>4. ASSUME NEW b \in bloques[0], UsaBloque(0, b) PROVE Bueno
  <2>1. CASE MuseGet(0, b)
    <3>1. /\ UnoInv' /\ m' = m /\ tarea.op = "nada" /\ tarea'.op = "get"
          /\ bloques' = bloques /\ respuesta' = respuesta
      BY <2>1, MuseGetUno
    <3>2. UNCHANGED <<Guarda, respuesta>>
      BY <3>1, MemoriaVista
    <3> QED BY <3>1, <3>2, EscritosIgual DEF Bueno, Visto
  <2>2. CASE \E v \in Valores : MuseCpy(0, b, v)
    BY <2>2, CopiarVisto DEF Bueno, Visto
  <2>3. CASE LiberarBloque(0, b)
    <3>1. /\ UnoInv' /\ tarea.op = "nada" /\ tarea' = tarea /\ respuesta' = respuesta
          /\ bloques'[0] = bloques[0] \ {b} /\ Conserva(m, m', bloques[0], b.dir)
      BY <2>3, LiberarUno
    <3>2. \A e \in bloques'[0] : e.dir # b.dir
      BY <3>1 DEF UnoInv, Puestos
    <3>3. bloques'[0] \subseteq bloques[0]
      BY <3>1
    <3>4. Promesa!Liberar
      BY <3>1, <3>2, <3>3, LiberarVisto
    <3> QED BY <3>1, <3>3, <3>4, EscritosMenos DEF Bueno, Visto
  <2>4. CASE b.dir = DirMapa /\ (MuseSync(0, b) \/ MuseUnmap(0, b))
    <3>1. tarea.op # "alloc"
      BY <2>4, LlamaUno DEF MuseSync, MuseUnmap
    <3> QED BY <2>4, <3>1, SinMapa
  <2> QED BY <1>4, <2>1, <2>2, <2>3, <2>4 DEF UsaBloque
<1> QED BY <1>1, <1>2, <1>3, <1>4 DEF Programa

LEMMA PasoUno ==
    ASSUME UnoSolo, SinReuso, MuseInv, UnoInv, MuseInv', HayMarcos, [Next]_vars
    PROVE  Bueno
<1>1. CASE Aceptar
  <2>1. /\ UnoInv' /\ m'.mem = m.mem /\ tarea' = tarea /\ bloques' = bloques /\ respuesta' = respuesta
        /\ tarea.op = "nada"
    BY <1>1, AceptarUno, LlamaUno DEF Aceptar
  <2>2. UNCHANGED <<Guarda, respuesta>>
    BY <2>1, MemoriaVista
  <2> QED BY <2>1, <2>2, EscritosIgual DEF Bueno, Visto
<1>2. CASE \E s \in Slots : Programa(s)
  BY <1>2, Cuatro, ProgramaUno
<1>3. CASE Servir
  BY <1>3, ServirUno
<1>4. CASE UNCHANGED vars
  <2>1. m' = m /\ tarea' = tarea /\ bloques' = bloques /\ respuesta' = respuesta
    BY <1>4 DEF vars
  <2>2. UnoInv'
    BY <2>1 DEF UnoInv
  <2>3. Guarda' = Guarda
    BY <2>1 DEF Guarda, Vivos
  <2> QED BY <2>1, <2>2, <2>3, EscritosIgual DEF Bueno, Visto
<1> QED BY <1>1, <1>2, <1>3, <1>4 DEF Next

LEMMA UnoSiempre == UnoSolo /\ SinReuso => (Spec /\ []HayMarcos => []UnoInv)
<1> SUFFICES ASSUME UnoSolo, SinReuso PROVE Spec /\ []HayMarcos => []UnoInv
  OBVIOUS
<1>1. Init => UnoInv
  BY InicioUno
<1>2. MuseInv /\ MuseInv' /\ UnoInv /\ HayMarcos /\ [Next]_vars => UnoInv'
  BY PasoUno DEF Bueno
<1> QED BY <1>1, <1>2, SiempreBien, PTL DEF Spec

\* While one program at a time is connected and there are frames for what it allocs, the
\* headers and the blocks between them cover the pages of its segment end to end.
THEOREM EncadenadoSiempre == UnoSolo /\ SinReuso => (Spec /\ []HayMarcos => []Encadenado)
<1> SUFFICES ASSUME UnoSolo, SinReuso PROVE Spec /\ []HayMarcos => []Encadenado
  OBVIOUS
<1>1. MuseInv /\ UnoInv => Encadenado
  <2> SUFFICES ASSUME MuseInv, UnoInv, Tranquilo, m.tablas[0].enLista
               PROVE  /\ Hs(m)[1].dir = 0
                      /\ \A j \in 1..(Len(Hs(m)) - 1) :
                            Hs(m)[j + 1].dir = Hs(m)[j].dir + HM + Hs(m)[j].size
                      /\ Hs(m)[Len(Hs(m))].dir + HM + Hs(m)[Len(Hs(m))].size = Len(Ps(m)) * PAG
    BY ZenonT(60), Cuatro DEF Encadenado, Hs, Ps
  <2>1. tarea.op = "nada" /\ Segmentado(m, tarea) /\ Cadena(Hs(m)) /\ m \in Memoria
    BY UnoEs DEF Tranquilo, Ninguna
  <2>2. Hs(m) # <<>> /\ ~ Reserva(tarea)
    BY <2>1 DEF Segmentado, Completo, Reserva
  <2>3. Sig(Ultimo(m)) = 4 * Len(Ps(m))
    BY <2>1, <2>2 DEF Segmentado, Final
  <2>4. Len(Ps(m)) * PAG = 4 * Len(Ps(m))
    BY <2>1, SegmentoUno, Cuatro
  <2> QED BY <2>1, <2>2, <2>3, <2>4 DEF Cadena, Sig, Ultimo
<1> QED BY <1>1, UnoSiempre, SiempreBien, PTL

\* No request makes the server fall while one program at a time is connected and there
\* are frames for what it allocs.
THEOREM NoCaeSiempre == UnoSolo /\ SinReuso => (Spec /\ []HayMarcos => []NoCae)
<1> SUFFICES ASSUME UnoSolo, SinReuso PROVE Spec /\ []HayMarcos => []NoCae
  OBVIOUS
<1>1. UnoInv => NoCae
  BY DEF UnoInv, Segmentado, NoCae
<1> QED BY <1>1, UnoSiempre, PTL

LEMMA InicioVisto == UnoSolo /\ Init => Promesa!Init
<1> SUFFICES ASSUME UnoSolo, Init PROVE Promesa!Init
  OBVIOUS
<1>1. bloques[0] = {} /\ respuesta.op = "nada"
  BY InicioUno
<1>2. VivosDe(bloques[0]) = {}
  BY <1>1 DEF VivosDe
<1>3. Guarda = <<>>
  BY <1>2, VistaEs
<1> QED BY <1>1, <1>3 DEF Promesa!Init

\* The server keeps the promise of the library: each step of it gives a block apart from
\* the others, takes blocks away, writes one block and no other, answers with what the
\* block holds, or is seen by no program.
THEOREM MemoriaImplementada == UnoSolo /\ SinReuso => (Spec /\ []HayMarcos => ImplementaMemoria)
<1> SUFFICES ASSUME UnoSolo, SinReuso PROVE Spec /\ []HayMarcos => ImplementaMemoria
  OBVIOUS
<1>1. Init => Promesa!Init
  BY InicioVisto
<1>2. MuseInv /\ MuseInv' /\ UnoInv /\ HayMarcos /\ [Next]_vars
        => [Promesa!Reservar \/ Promesa!Liberar \/ Promesa!Copiar \/ Promesa!Contestar]_(Promesa!vars)
  BY PasoUno DEF Bueno, Visto, Promesa!vars
<1> QED BY <1>1, <1>2, UnoSiempre, SiempreBien, PTL DEF Spec, ImplementaMemoria, Promesa!Spec

LEMMA EscritosSiempre == UnoSolo /\ SinReuso => (Spec /\ []HayMarcos => []Escritos)
<1> SUFFICES ASSUME UnoSolo, SinReuso PROVE Spec /\ []HayMarcos => []Escritos
  OBVIOUS
<1>1. Init => Escritos
  BY InicioUno DEF Escritos
<1>2. MuseInv /\ MuseInv' /\ UnoInv /\ HayMarcos /\ Escritos /\ [Next]_vars => Escritos'
  BY PasoUno DEF Bueno
<1> QED BY <1>1, <1>2, UnoSiempre, SiempreBien, PTL DEF Spec

\* What the program reads from a block is what it last wrote there, while there are
\* frames for what it allocs: the property that a block in swap breaks.
THEOREM LoEscritoSiempre == UnoSolo /\ SinReuso => (Spec /\ []HayMarcos => LoEscritoSeLee)
<1> SUFFICES ASSUME UnoSolo, SinReuso PROVE Spec /\ []HayMarcos => LoEscritoSeLee
  OBVIOUS
<1> DEFINE A == ContestarGet => \A b \in bloques[tarea.s] :
                    (b.dir = tarea.dir /\ b.n = tarea.n /\ b.valor # "cero") =>
                        respuesta'.bytes = Tira(b.valor, 0, b.n)
<1>1. MuseInv /\ UnoInv /\ Escritos => A
  <2> SUFFICES ASSUME MuseInv, UnoInv, Escritos, ContestarGet, NEW b \in bloques[0],
                      b.dir = tarea.dir, b.n = tarea.n, b.valor # "cero"
               PROVE  respuesta'.bytes = Tira(b.valor, 0, b.n)
    BY UnoEs
  <2>1. tarea.op = "get" /\ respuesta'.bytes = [i \in 1..tarea.n |-> m.mem[tarea.dir + i - 1]]
    BY ContestarGetUno
  <2> DEFINE p == Par(b)
  <2>2. p.dir = tarea.dir /\ p.n = tarea.n
    BY ParEs
  <2>3. Guarda[p] = BytesDe(m, tarea, p)
    BY GuardaDeBloque
  <2>4. Guarda[p] = [i \in 1..b.n |-> <<b.valor, i>>]
    BY DEF Escritos
  <2> HIDE DEF p
  <2>5. BytesDe(m, tarea, p) = [i \in 1..p.n |-> m.mem[p.dir + i - 1]]
    BY <2>1, BytesSinCopia DEF EnCopia
  <2>6. Tira(b.valor, 0, b.n) = [i \in 1..b.n |-> <<b.valor, i>>]
    <3>1. \A i \in 1..b.n : 0 + i = i
      BY UnoEs
    <3> QED BY <3>1 DEF Tira
  <2> QED BY <2>1, <2>2, <2>3, <2>4, <2>5, <2>6
<1> HIDE DEF A
<1>2. MuseInv /\ UnoInv /\ Escritos /\ [Next]_vars => [A]_vars
  BY <1>1
<1>3. Spec /\ []HayMarcos => [][A]_vars
  BY <1>2, UnoSiempre, EscritosSiempre, SiempreBien, PTL DEF Spec
<1> QED BY <1>3 DEF LoEscritoSeLee, A

----------------------------------------------------------------------------
(* That there are frames, from the constants.                              *)

\* Frames for as many blocks as the calls of the program can ask for: before the first
\* one it has to connect and to call muse_init.
Alcanza ==
    \E M \in Nat : (\A n \in Tams : n <= M) /\ (MaxPedidos - 2) * (M + 5) + 5 <= 4 * NMarcos

\* The calls that may have been allocs.
Allocs == IF pedidos < 2 THEN 0 ELSE pedidos - 2
Presentado ==
    /\ programa[0] = "conectado" => pedidos >= 1
    /\ programa[0] = "listo" => pedidos >= 2
\* Each alloc takes the last header at most M + 5 bytes further.
Contado(M) == Presentado /\ Hasta(m, tarea) \in Nat /\ Hasta(m, tarea) <= Allocs * (M + 5)

LEMMA PedidosEs ==
    ASSUME UnoSolo, MuseInv
    PROVE  /\ pedidos \in Nat /\ pedidos <= MaxPedidos /\ MaxPedidos \in Nat
           /\ programa \in [{0} -> {"ausente", "conectado", "listo"}]
BY Cuatro, PedidosAssumption DEF MuseInv, OtrosBien

\* A step of a handler takes the last header where it was going to be.
LEMMA ServirHasta ==
    ASSUME UnoSolo, MuseInv, UnoInv, HayMarcos, Servir
    PROVE  Hasta(m', tarea') = Hasta(m, tarea) /\ UNCHANGED <<programa, pedidos>>
<1>1. UNCHANGED <<programa, pedidos>>
  BY DEF Servir, AsignarNuevaPagina, AsignarUltimaPagina, ContestarAlloc, LeerUnaPagina, ContestarGet,
         CopiarUnaPagina, ContestarCpy, En
<1>2. CASE AsignarNuevaPagina
  BY <1>1, <1>2, AsignarNuevaPaginaUno
<1>3. CASE AsignarUltimaPagina
  BY <1>1, <1>3, AsignarUltimaPaginaUno
<1>4. CASE ContestarAlloc
  BY <1>1, <1>4, ContestarAllocUno
<1>5. CASE LeerUnaPagina
  BY <1>1, <1>5, LeerUnaPaginaUno
<1>6. CASE ContestarGet
  BY <1>1, <1>6, ContestarGetUno
<1>7. CASE CopiarUnaPagina
  BY <1>1, <1>7, CopiarUnaPaginaUno
<1>8. CASE ContestarCpy
  BY <1>1, <1>8, ContestarCpyUno
<1> QED BY <1>2, <1>3, <1>4, <1>5, <1>6, <1>7, <1>8 DEF Servir

\* Of the calls, only an alloc moves it.
LEMMA UsarHasta ==
    ASSUME UnoSolo, MuseInv, UnoInv, NEW b \in bloques[0], UsaBloque(0, b)
    PROVE  Hasta(m', tarea') = Hasta(m, tarea) /\ programa' = programa /\ pedidos' = pedidos + 1
<1>1. CASE MuseGet(0, b)
  BY ZenonT(60), <1>1, MuseGetUno DEF MuseGet, Llamar
<1>2. CASE \E v \in Valores : MuseCpy(0, b, v)
  <2>1. PICK v \in Valores : MuseCpy(0, b, v)
    BY <1>2
  <2>2. Hasta(m', tarea') = Hasta(m, tarea)
    BY <2>1, MuseCpyUno
  <2> QED BY <2>1, <2>2 DEF MuseCpy, Llamar
<1>3. CASE LiberarBloque(0, b)
  BY <1>3, LiberarUno DEF LiberarBloque, Llamar
<1>4. CASE b.dir = DirMapa /\ (MuseSync(0, b) \/ MuseUnmap(0, b))
  <2>1. tarea.op # "alloc"
    BY <1>4, LlamaUno DEF MuseSync, MuseUnmap
  <2> QED BY <1>4, <2>1, SinMapa
<1> QED BY <1>1, <1>2, <1>3, <1>4 DEF UsaBloque

LEMMA ContadoIgual ==
    ASSUME UnoSolo, MuseInv, UnoInv, NEW M \in Nat, Contado(M), Presentado',
           Hasta(m', tarea') = Hasta(m, tarea), pedidos' = pedidos \/ pedidos' = pedidos + 1
    PROVE  Contado(M)'
<1> DEFINE x == Allocs
           y == Allocs'
           z == Hasta(m, tarea)
<1>1. x \in Nat /\ (y = x \/ y = x + 1) /\ z \in Nat /\ z <= x * (M + 5)
  BY PedidosEs DEF Contado, Allocs
<1> HIDE DEF x, y, z
<1>2. z <= y * (M + 5)
  BY <1>1
<1>3. Hasta(m', tarea') = z
  BY DEF z
<1> QED BY <1>1, <1>2, <1>3 DEF Contado, y

LEMMA PasoContado ==
    ASSUME UnoSolo, SinReuso, MuseInv, UnoInv, HayMarcos, [Next]_vars,
           NEW M \in Nat, \A n \in Tams : n <= M, Contado(M)
    PROVE  Contado(M)'
<1>1. /\ pedidos \in Nat /\ programa \in [{0} -> {"ausente", "conectado", "listo"}] /\ Presentado
  BY PedidosEs DEF Contado
<1>2. CASE Aceptar
  <2>1. Hasta(m', tarea') = Hasta(m, tarea)
    BY <1>2, AceptarUno
  <2>2. pedidos' = pedidos + 1 /\ programa'[0] \in {"ausente", "conectado", "listo"}
        /\ (programa'[0] = programa[0] \/ programa'[0] = "conectado")
    BY <1>1, <1>2 DEF Aceptar, Llamar
  <2>3. Presentado'
    BY <1>1, <2>2 DEF Presentado
  <2> QED BY <2>1, <2>2, <2>3, ContadoIgual
<1>3. CASE MuseInit(0)
  <2>1. Hasta(m', tarea') = Hasta(m, tarea)
    BY <1>3, MuseInitUno
  <2>2. pedidos' = pedidos + 1 /\ programa[0] = "conectado"
    BY <1>3 DEF MuseInit, Llamar
  <2>3. Presentado'
    BY <1>1, <2>2 DEF Presentado
  <2> QED BY <2>1, <2>2, <2>3, ContadoIgual
<1>4. CASE MuseClose(0)
  <2>1. Hasta(m', tarea') = Hasta(m, tarea)
    BY <1>4, MuseCloseUno
  <2>2. pedidos' = pedidos + 1 /\ programa'[0] = "ausente"
    BY <1>1, <1>4 DEF MuseClose, Llamar
  <2>3. Presentado'
    BY <2>2 DEF Presentado
  <2> QED BY <2>1, <2>2, <2>3, ContadoIgual
<1>5. CASE \E n \in Tams : MuseAlloc(0, n) \/ (0 \in Mapean /\ MuseMap(0, n))
  <2>1. PICK n \in Tams : MuseAlloc(0, n)
    BY <1>5, Cuatro
  <2> DEFINE x == Allocs
             y == Allocs'
             z == Hasta(m, tarea)
             w == Hasta(m', tarea')
  <2>2. w = z + n + 5
    BY <2>1, MuseAllocUno
  <2>3. pedidos' = pedidos + 1 /\ programa' = programa /\ programa[0] = "listo"
    BY <2>1 DEF MuseAlloc, Llamar
  <2>4. Presentado'
    BY <1>1, <2>3 DEF Presentado
  <2>5. x \in Nat /\ y = x + 1 /\ z \in Nat /\ z <= x * (M + 5) /\ n \in Nat /\ n <= M
    BY <1>1, <2>3, TamsNat DEF Presentado, Allocs, Contado
  <2> HIDE DEF x, y, z, w
  <2>6. w \in Nat /\ w <= y * (M + 5)
    <3>1. y * (M + 5) = x * (M + 5) + (M + 5) /\ x * (M + 5) \in Nat
      BY <2>5
    <3> QED BY <2>2, <2>5, <3>1
  <2> QED BY <2>4, <2>6 DEF Contado, w, y
<1>6. ASSUME NEW b \in bloques[0], UsaBloque(0, b) PROVE Contado(M)'
  <2>1. Hasta(m', tarea') = Hasta(m, tarea) /\ programa' = programa /\ pedidos' = pedidos + 1
    BY <1>6, UsarHasta
  <2>2. Presentado'
    BY <1>1, <2>1 DEF Presentado
  <2> QED BY <2>1, <2>2, ContadoIgual
<1>7. CASE Servir
  <2>1. Hasta(m', tarea') = Hasta(m, tarea) /\ UNCHANGED <<programa, pedidos>>
    BY <1>7, ServirHasta
  <2>2. Presentado'
    BY <1>1, <2>1 DEF Presentado
  <2> QED BY <2>1, <2>2, ContadoIgual
<1>8. CASE UNCHANGED vars
  BY <1>8 DEF vars, Contado, Presentado, Allocs
<1> QED BY <1>2, <1>3, <1>4, <1>5, <1>6, <1>7, <1>8, Cuatro DEF Next, Programa

LEMMA ProductoCrece ==
    ASSUME NEW x \in Nat, NEW k \in Nat, NEW q \in Nat, x <= k
    PROVE  x * q <= k * q /\ x * q \in Nat /\ k * q \in Nat
OBVIOUS

LEMMA ContadoHayMarcos ==
    ASSUME UnoSolo, MuseInv, UnoInv, NEW M \in Nat, \A n \in Tams : n <= M,
           (MaxPedidos - 2) * (M + 5) + 5 <= 4 * NMarcos, Contado(M)
    PROVE  HayMarcos
<1> SUFFICES ASSUME Reserva(tarea) PROVE Libres(m) # {}
  BY DEF HayMarcos, Reserva
<1> DEFINE N == Len(Ps(m))
           r == tarea.resta
           w == Ultimo(m)
<1>1. m \in Memoria /\ Recto(m) /\ Segmentado(m, tarea) /\ tarea.op = "alloc" /\ r \in Int /\ r > 0
  BY UnoEs DEF Reserva
<1>2. Hs(m) # <<>> /\ Tope(m, tarea) = Len(Hs(m)) /\ w.size = tarea.n /\ tarea.n \in Tams
  <2>1. Tope(m, tarea) = Len(Hs(m))
    BY <1>1 DEF Tope
  <2> QED BY <1>1, <2>1 DEF Segmentado, EnCurso, Ultimo
<1>3. Sig(w) + 5 = 4 * N + r /\ N \in Nat /\ NMarcos \in Nat /\ NMarcos >= 2
  BY <1>1, <1>2, SegmentoUno, Cuatro DEF Segmentado, Final
<1>4. w \in Heap
  <2>1. Len(Hs(m)) \in 1..Len(Hs(m))
    BY <1>1, <1>2, SegmentoUno
  <2> QED BY <1>1, <2>1, HeaderUno DEF Ultimo
<1>5. Sig(w) = w.dir + 5 + w.size /\ w.dir \in Nat /\ w.size \in Nat
  BY <1>4, SigNat, Cuatro
<1>6. Hasta(m, tarea) = w.dir + (tarea.n + 5)
  <2>1. Hs(m) # <<>> /\ Reserva(tarea) = TRUE
    BY <1>2
  <2> HIDE DEF w
  <2>2. w = Ultimo(m)
    BY DEF w
  <2> QED BY <2>1, <2>2 DEF Hasta
<1> DEFINE z == Hasta(m, tarea)
           x == Allocs
           s == Sig(w)
<1>7. s = z
  <2> DEFINE d == w.dir
             e == w.size
  <2>1. s = d + 5 + e /\ z = d + (e + 5) /\ d \in Nat /\ e \in Nat
    BY <1>2, <1>5, <1>6
  <2> HIDE DEF d, e, s, z
  <2> QED BY <2>1
<1>8. z \in Nat /\ z <= x * (M + 5) /\ x \in Nat /\ (x = 0 \/ x <= MaxPedidos - 2) /\ MaxPedidos \in Nat
  BY PedidosEs DEF Contado, Allocs
<1> HIDE DEF z, x, s, w, r, N
<1>9. z + 5 <= 4 * NMarcos
  <2>1. CASE x = 0
    BY <1>3, <1>8, <2>1
  <2>2. CASE x <= MaxPedidos - 2
    <3> DEFINE k == MaxPedidos - 2
               q == M + 5
    <3>1. k \in Nat /\ x <= k /\ q \in Nat /\ z <= x * q /\ k * q + 5 <= 4 * NMarcos
      BY <1>8, <2>2
    <3> HIDE DEF k, q
    <3>2. x * q <= k * q /\ x * q \in Nat /\ k * q \in Nat
      BY <1>8, <3>1, ProductoCrece
    <3> QED BY <1>3, <1>8, <3>1, <3>2
  <2> QED BY <1>8, <2>1, <2>2
<1>10. N < NMarcos
  BY <1>1, <1>3, <1>7, <1>8, <1>9 DEF s
<1>11. Libres(m) = N..(NMarcos - 1)
  BY <1>1 DEF Recto, N
<1>12. N \in N..(NMarcos - 1)
  BY <1>3, <1>10
<1> QED BY <1>11, <1>12

\* An alloc never lacks a frame when there are frames for the calls of the program.
THEOREM HayMarcosSiempre == UnoSolo /\ SinReuso /\ Alcanza => (Spec => []HayMarcos)
<1> SUFFICES ASSUME UnoSolo, SinReuso, Alcanza PROVE Spec => []HayMarcos
  OBVIOUS
<1>1. PICK M \in Nat : (\A n \in Tams : n <= M) /\ (MaxPedidos - 2) * (M + 5) + 5 <= 4 * NMarcos
  BY DEF Alcanza
<1> DEFINE I == UnoInv /\ Contado(M)
<1>2. Init => I
  <2> SUFFICES ASSUME Init PROVE I
    OBVIOUS
  <2>1. UnoInv /\ Hs(m) = <<>>
    BY InicioUno
  <2>2. programa[0] = "ausente" /\ pedidos = 0
    BY Cuatro DEF Init
  <2>3. Contado(M)
    BY <2>1, <2>2 DEF Contado, Presentado, Hasta, Allocs
  <2> QED BY <2>1, <2>3
<1>3. MuseInv /\ I => HayMarcos
  BY <1>1, ContadoHayMarcos
<1>4. MuseInv /\ MuseInv' /\ I /\ [Next]_vars => I'
  BY <1>1, <1>3, PasoUno, PasoContado DEF Bueno
<1> HIDE DEF I
<1> QED BY <1>2, <1>3, <1>4, SiempreBien, PTL DEF Spec

\* MUSE with one program at a time and frames for all that it allocs: headers and blocks
\* cover the pages, no request makes the server fall, each block is apart from the others
\* and holds what was last written to it.
THEOREM UnoCorrecto ==
    UnoSolo /\ SinReuso /\ Alcanza =>
        (Spec => []Encadenado /\ []NoCae /\ ImplementaMemoria /\ LoEscritoSeLee)
<1> SUFFICES ASSUME UnoSolo, SinReuso, Alcanza
             PROVE  Spec => []Encadenado /\ []NoCae /\ ImplementaMemoria /\ LoEscritoSeLee
  OBVIOUS
<1> QED BY HayMarcosSiempre, EncadenadoSiempre, NoCaeSiempre, MemoriaImplementada, LoEscritoSiempre, PTL
=============================================================================
