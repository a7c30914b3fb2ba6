------------------------------ MODULE SacDisco ------------------------------
(***************************************************************************)
(* The blocks of the file server, proved for one client, any disk and any  *)
(* table.  Every file that no unlink is taking away has a block of its own *)
(* for each of its positions and for each of its pointer blocks, which no  *)
(* other file has.  A step changes the blocks of one file at most, and     *)
(* takes those it adds from the free ones: what that does to the file      *)
(* (Respeta) is proved of the operators of SacBloques first, loop by loop, *)
(* and then of each request.                                               *)
(***************************************************************************)
EXTENDS SacNombres

-----------------------------------------------------------------------------
(* Division.                                                               *)
LEMMA DivResto ==
    ASSUME NEW a \in Int, NEW b \in Nat \ {0}
    PROVE  /\ a \div b \in Int /\ a % b \in 0..b - 1
           /\ a = b * (a \div b) + (a % b)
OBVIOUS

LEMMA Multiplo ==
    ASSUME NEW b \in Nat \ {0}, NEW x \in Int, NEW y \in Int, x < y
    PROVE  b * x + b <= b * y
<1>1. y - x - 1 \in Nat
  OBVIOUS
<1>2. b * (y - x - 1) \in Nat
  BY <1>1
<1> QED
  BY <1>2

LEMMA DivUnico ==
    ASSUME NEW b \in Nat \ {0}, NEW q \in Int, NEW r \in 0..b - 1
    PROVE  (b * q + r) \div b = q /\ (b * q + r) % b = r
<1> DEFINE a == b * q + r
           x == a \div b
           y == a % b
<1>1. a \in Int
  OBVIOUS
<1>2. x \in Int /\ y \in 0..b - 1 /\ a = b * x + y
  BY <1>1, DivResto
<1> HIDE DEF x, y
<1>3. ~(x < q)
  <2>1. x < q => b * x + b <= b * q
    BY <1>2, Multiplo
  <2> QED
    BY <1>2, <2>1
<1>4. ~(q < x)
  <2>1. q < x => b * q + b <= b * x
    BY <1>2, Multiplo
  <2> QED
    BY <1>2, <2>1
<1>5. x = q
  BY <1>2, <1>3, <1>4
<1>6. y = r
  BY <1>2, <1>5
<1> QED
  BY <1>5, <1>6 DEF x, y

LEMMA DivMenor ==
    ASSUME NEW b \in Nat \ {0}, NEW x \in Int, NEW y \in Int, x <= y
    PROVE  x \div b <= y \div b
<1> DEFINE s == x \div b
           t == y \div b
<1>1. s \in Int /\ t \in Int /\ b * s <= x /\ y < b * t + b
  BY DivResto
<1> HIDE DEF s, t
<1>2. t < s => b * t + b <= b * s
  BY <1>1, Multiplo
<1>3. s <= t
  BY <1>1, <1>2
<1> QED
  BY <1>3 DEF s, t

LEMMA DivEntre ==
    ASSUME NEW b \in Nat \ {0}, NEW x \in Int, NEW k \in Int
    PROVE  /\ x < b * k => x \div b < k
           /\ b * k <= x => k <= x \div b
<1> DEFINE s == x \div b
<1>1. s \in Int /\ b * s <= x /\ x < b * s + b
  BY DivResto
<1> HIDE DEF s
<1>2. k < s + 1 \/ s + 1 <= k
  BY <1>1
<1>3. x < b * k => s < k
  <2>1. k < s => b * k + b <= b * s
    BY <1>1, Multiplo
  <2>2. k = s => b * k = b * s
    OBVIOUS
  <2> QED
    BY <1>1, <2>1, <2>2
<1>4. b * k <= x => k <= s
  <2>1. s < k => b * s + b <= b * k
    BY <1>1, Multiplo
  <2> QED
    BY <1>1, <2>1
<1> QED
  BY <1>3, <1>4 DEF s

-----------------------------------------------------------------------------
(* Positions.  The one that begins at byte q * TB is entry q % P of pointer *)
(* block q \div P; a file of t bytes has the first Cuantas(t) of them.     *)
LEMMA PosicionDe ==
    ASSUME NEW q \in Nat
    PROVE  Puntero(TB * q) = q \div P /\ Posicion(TB * q) = q % P
<1> DEFINE a == q \div P
           e == q % P
           b == TB * P
<1>1. TB \in Nat \ {0} /\ P \in Nat \ {0} /\ b \in Nat \ {0}
  BY SacBloquesAssumption
<1>2. a \in Int /\ e \in 0..P - 1 /\ q = P * a + e
  BY <1>1, DivResto
<1> HIDE DEF a, e, b
<1>3. TB * e \in 0..b - 1
  <2>1. TB * e + TB <= TB * P
    BY <1>1, <1>2, Multiplo
  <2> QED
    BY <1>1, <1>2, <2>1 DEF b
<1>4. TB * q = b * a + TB * e
  <2>1. TB * q = TB * (P * a) + TB * e
    BY <1>1, <1>2
  <2>2. TB * (P * a) = (TB * P) * a
    BY <1>1, <1>2
  <2> QED
    BY <2>1, <2>2 DEF b
<1>5. (TB * q) \div b = a /\ (TB * q) % b = TB * e
  BY <1>1, <1>2, <1>3, <1>4, DivUnico
<1>6. (TB * e) \div TB = e
  BY <1>1, <1>2, DivUnico
<1> QED
  BY <1>5, <1>6 DEF Puntero, Posicion, a, e, b

LEMMA UltimaCota ==
    ASSUME NEW t \in Nat
    PROVE  /\ Ultima(t) \in Int /\ Ultima(t) >= -1
           /\ TB * Ultima(t) < t /\ t <= TB * (Ultima(t) + 1)
<1> DEFINE s == (t + TB - 1) \div TB
<1>1. TB \in Nat \ {0}
  BY SacBloquesAssumption
<1>2. s \in Int /\ TB * s <= t + TB - 1 /\ t + TB - 1 < TB * s + TB
  BY <1>1, DivResto
<1>3. Ultima(t) = s - 1
  BY DEF Ultima
<1> HIDE DEF s
<1> QED
  BY <1>1, <1>2, <1>3, UltimaTipo

Cuantas(t) == Max({0, Ultima(t)}) + 1

LEMMA CuantasSon ==
    ASSUME NEW t \in Nat
    PROVE  /\ Cuantas(t) \in Nat \ {0}
           /\ Cuantas(t) = IF t = 0 THEN 1 ELSE Ultima(t) + 1
           /\ t <= TB * Cuantas(t)
           /\ t > 0 => TB * (Cuantas(t) - 1) < t
<1>1. TB \in Nat \ {0}
  BY SacBloquesAssumption
<1>2. /\ Ultima(t) \in Int /\ Ultima(t) >= -1
      /\ TB * Ultima(t) < t /\ t <= TB * (Ultima(t) + 1)
  BY UltimaCota
<1>3. Max({0, Ultima(t)}) = IF 0 >= Ultima(t) THEN 0 ELSE Ultima(t)
  BY <1>2, MaxDeDos
<1>4. CASE t = 0
  <2>1. Ultima(t) < 0
    <3>1. Ultima(t) >= 0 => TB * Ultima(t) \in Nat
      BY <1>1, <1>2
    <3> QED
      BY <1>2, <1>4, <3>1
  <2> QED
    BY <1>1, <1>3, <1>4, <2>1, <1>2 DEF Cuantas
<1>5. CASE t > 0
  <2>1. Ultima(t) >= 0
    <3>1. Ultima(t) < 0 => Ultima(t) = -1
      BY <1>2
    <3> QED
      BY <1>1, <1>2, <1>5, <3>1
  <2>2. Cuantas(t) = Ultima(t) + 1
    BY <1>2, <1>3, <2>1 DEF Cuantas
  <2> QED
    BY <1>2, <1>5, <2>1, <2>2
<1> QED
  BY <1>4, <1>5

LEMMA CuantasHasta ==
    ASSUME NEW t \in Nat, NEW k \in Nat \ {0}, t <= TB * k
    PROVE  Cuantas(t) <= k
<1>1. TB \in Nat \ {0}
  BY SacBloquesAssumption
<1> DEFINE x == Cuantas(t)
<1>2. x \in Nat \ {0} /\ (t = 0 => x = 1) /\ (t > 0 => TB * (x - 1) < t)
  BY CuantasSon
<1> HIDE DEF x
<1>3. k < x => t > 0
  BY <1>2
<1>4. k < x - 1 => TB * k + TB <= TB * (x - 1)
  BY <1>1, <1>2, Multiplo
<1>5. k = x - 1 => TB * k = TB * (x - 1)
  OBVIOUS
<1>6. ~(k < x)
  <2> SUFFICES ASSUME k < x PROVE FALSE
    OBVIOUS
  <2>1. TB * (x - 1) < TB * k
    BY <1>1, <1>2, <1>3
  <2>2. k < x - 1 \/ k = x - 1
    BY <1>2
  <2> QED
    BY <1>1, <1>2, <1>4, <1>5, <2>1, <2>2
<1> QED
  BY <1>2, <1>6 DEF x

LEMMA CuantasExactas ==
    ASSUME NEW t \in Nat, NEW k \in Nat \ {0}, t <= TB * k, TB * (k - 1) < t
    PROVE  Cuantas(t) = k
<1>1. TB \in Nat \ {0}
  BY SacBloquesAssumption
<1> DEFINE x == Cuantas(t)
<1>2. x \in Nat \ {0} /\ x <= k /\ t <= TB * x
  BY CuantasSon, CuantasHasta
<1> HIDE DEF x
<1>3. ~(x <= k - 1)
  <2>1. x < k - 1 => TB * x + TB <= TB * (k - 1)
    BY <1>1, <1>2, Multiplo
  <2>2. x = k - 1 => TB * x = TB * (k - 1)
    OBVIOUS
  <2> QED
    BY <1>1, <1>2, <2>1, <2>2
<1> QED
  BY <1>2, <1>3 DEF x

(* The byte at `off' of a file is in one of its positions.                 *)
LEMMA PosicionDelByte ==
    ASSUME NEW t \in Nat, NEW off \in Nat, off < t \/ off = 0
    PROVE  off \div TB \in 0..Cuantas(t) - 1
<1>1. TB \in Nat \ {0}
  BY SacBloquesAssumption
<1> DEFINE k == Cuantas(t)
<1>2. k \in Nat \ {0} /\ t <= TB * k
  BY CuantasSon
<1> HIDE DEF k
<1>3. off < TB * k
  <2>1. TB * 0 + TB <= TB * k
    BY <1>1, <1>2, Multiplo
  <2> QED
    BY <1>1, <1>2, <2>1
<1>4. off \div TB < k
  BY <1>1, <1>2, <1>3, DivEntre
<1>5. off \div TB \in Nat
  BY <1>1, DivTipo
<1> QED
  BY <1>2, <1>4, <1>5 DEF k

-----------------------------------------------------------------------------
(* Whole files.  The first k positions of f have a block each, which is    *)
(* taken, and so has each pointer block they are in; no block is there     *)
(* twice.                                                                  *)
Entero(f, d, k) ==
    /\ \A q \in 0..k - 1 : f.ind[q \div P] \in d.usados /\ Numero(f, d, q) \in d.usados
    /\ \A q, s \in 0..k - 1 :
        /\ Numero(f, d, q) # f.ind[s \div P]
        /\ Numero(f, d, q) = Numero(f, d, s) => q = s
        /\ f.ind[q \div P] = f.ind[s \div P] => q \div P = s \div P

BloquesEn(f, d, k) ==
    {Numero(f, d, q) : q \in 0..k - 1} \cup {f.ind[q \div P] : q \in 0..k - 1}

(* The first k positions of f become the first l of g, and the disk e:     *)
(* whatever else was taken stays so, with what was in it.                  *)
Respeta(f, d, k, g, e, l) ==
    /\ Entero(g, e, l)
    /\ BloquesEn(g, e, l) \subseteq BloquesEn(f, d, k) \cup (Datos \ d.usados)
    /\ d.usados \ BloquesEn(f, d, k) \subseteq e.usados
    /\ \A b \in d.usados \ BloquesEn(f, d, k) : e.cont[b] = d.cont[b]

LEMMA EnteroMenos ==
    ASSUME NEW f, NEW d, NEW k \in Nat, Entero(f, d, k), NEW l \in Nat, l <= k
    PROVE  Entero(f, d, l) /\ BloquesEn(f, d, l) \subseteq BloquesEn(f, d, k)
<1>1. 0..l - 1 \subseteq 0..k - 1
  OBVIOUS
<1>2. Entero(f, d, l)
  BY <1>1 DEF Entero
<1>3. BloquesEn(f, d, l) \subseteq BloquesEn(f, d, k)
  BY <1>1 DEF BloquesEn
<1> QED
  BY <1>2, <1>3

LEMMA EnteroVacio == \A f, d : Entero(f, d, 0) /\ BloquesEn(f, d, 0) = {}
BY DEF Entero, BloquesEn

LEMMA BloquesTomados ==
    ASSUME NEW f, NEW d, NEW k \in Nat, Entero(f, d, k)
    PROVE  BloquesEn(f, d, k) \subseteq d.usados
BY DEF Entero, BloquesEn

LEMMA RespetaIgual ==
    ASSUME NEW f, NEW d, NEW k \in Nat, Entero(f, d, k), NEW l \in Nat, l <= k
    PROVE  Respeta(f, d, k, f, d, l)
BY EnteroMenos DEF Respeta

LEMMA RespetaMenos ==
    ASSUME NEW f, NEW d, NEW k, NEW g, NEW e, NEW l \in Nat, NEW m \in Nat, m <= l,
           Respeta(f, d, k, g, e, l)
    PROVE  Respeta(f, d, k, g, e, m)
BY EnteroMenos DEF Respeta

LEMMA RespetaSigue ==
    ASSUME NEW f, NEW d, NEW k, NEW g, NEW e, NEW l \in Nat, NEW h, NEW c, NEW m,
           e.usados \subseteq Datos, d.usados \subseteq Datos,
           Respeta(f, d, k, g, e, l), Respeta(g, e, l, h, c, m)
    PROVE  Respeta(f, d, k, h, c, m)
<1> DEFINE B == BloquesEn(f, d, k)
           C == BloquesEn(g, e, l)
           D == BloquesEn(h, c, m)
<1>1. /\ C \subseteq B \cup (Datos \ d.usados) /\ d.usados \ B \subseteq e.usados
      /\ \A b \in d.usados \ B : e.cont[b] = d.cont[b]
  BY DEF Respeta
<1>2. /\ Entero(h, c, m)
      /\ D \subseteq C \cup (Datos \ e.usados) /\ e.usados \ C \subseteq c.usados
      /\ \A b \in e.usados \ C : c.cont[b] = e.cont[b]
  BY DEF Respeta
<1> HIDE DEF B, C, D
<1>3. d.usados \ B \subseteq e.usados \ C
  BY <1>1
<1>4. D \subseteq B \cup (Datos \ d.usados)
  BY <1>1, <1>2
<1> QED
  BY <1>1, <1>2, <1>3, <1>4 DEF Respeta, B, D

(* A file apart from the one that changed is as it was.                    *)
LEMMA Ajeno ==
    ASSUME NEW f, NEW d, NEW k, NEW g, NEW e, NEW l, Respeta(f, d, k, g, e, l),
           NEW h, NEW j \in Nat, Entero(h, d, j),
           d.usados \subseteq Datos,
           BloquesEn(h, d, j) \cap BloquesEn(f, d, k) = {}
    PROVE  /\ Entero(h, e, j) /\ BloquesEn(h, e, j) = BloquesEn(h, d, j)
           /\ BloquesEn(h, e, j) \cap BloquesEn(g, e, l) = {}
           /\ \A q \in 0..j - 1 : Numero(h, e, q) = Numero(h, d, q)
<1> DEFINE B == BloquesEn(f, d, k)
           H == BloquesEn(h, d, j)
<1>1. H \subseteq d.usados
  BY BloquesTomados
<1>2. H \subseteq d.usados \ B
  BY <1>1
<1>3. \A b \in H : b \in e.usados /\ e.cont[b] = d.cont[b]
  BY <1>2 DEF Respeta
<1>4. \A q \in 0..j - 1 : h.ind[q \div P] \in H /\ Numero(h, d, q) \in H
  BY DEF BloquesEn
<1> HIDE DEF B, H
<1>5. \A q \in 0..j - 1 : Numero(h, e, q) = Numero(h, d, q)
  BY <1>3, <1>4 DEF Numero
<1>6. Entero(h, e, j)
  BY <1>3, <1>4, <1>5 DEF Entero
<1>7. BloquesEn(h, e, j) = H
  BY <1>5 DEF BloquesEn, H
<1>8. H \cap BloquesEn(g, e, l) = {}
  BY <1>1, <1>2 DEF Respeta, B
<1> QED
  BY <1>5, <1>6, <1>7, <1>8 DEF H

-----------------------------------------------------------------------------
(* Taking the block of the next position.                                  *)
LEMMA PunteroEntra ==
    ASSUME NEW q \in Nat, q < PB * P
    PROVE  q \div P \in 0..PB - 1
<1>1. P \in Nat \ {0} /\ PB \in Nat \ {0}
  BY SacBloquesAssumption
<1>2. q < P * PB
  BY <1>1
<1>3. q \div P < PB
  BY <1>1, <1>2, DivEntre
<1>4. q \div P \in Nat
  BY <1>1, DivTipo
<1> QED
  BY <1>1, <1>3, <1>4

LEMMA NumeroEs ==
    ASSUME NEW f, NEW d, NEW q, f.ind \in [0..PB - 1 -> Datos \cup {Cabecera}],
           q \div P \in 0..PB - 1, f.ind[q \div P] \in Datos
    PROVE  Numero(f, d, q) = d.cont[f.ind[q \div P]][q % P]
BY DEF Numero

(* The pointer block of a position is that of the one before, or a new one *)
(* in which it is the first.                                               *)
LEMMA PunteroSigue ==
    ASSUME NEW k \in Nat
    PROVE  /\ k % P # 0 => k > 0 /\ k \div P = (k - 1) \div P
           /\ k % P = 0 => \A q \in 0..k - 1 : q \div P < k \div P
<1> DEFINE a == k \div P
           e == k % P
<1>1. P \in Nat \ {0}
  BY SacBloquesAssumption
<1>2. a \in Int /\ e \in 0..P - 1 /\ k = P * a + e
  BY <1>1, DivResto
<1>0. P * a \in Int
  BY <1>1, <1>2
<1> HIDE DEF a, e
<1>3. ASSUME e # 0 PROVE k > 0 /\ a = (k - 1) \div P
  <2>1. k - 1 = P * a + (e - 1) /\ e - 1 \in 0..P - 1
    BY <1>0, <1>1, <1>2, <1>3
  <2>2. (k - 1) \div P = a
    BY <1>1, <1>2, <2>1, DivUnico
  <2>3. k # 0
    <3> SUFFICES ASSUME k = 0 PROVE FALSE
      OBVIOUS
    <3>1. k = P * 0 + 0 /\ 0 \in 0..P - 1
      BY <1>1
    <3>2. k % P = 0
      BY <1>1, <3>1, DivUnico
    <3> QED
      BY <3>2, <1>3 DEF e
  <2> QED
    BY <2>2, <2>3
<1>4. ASSUME e = 0, NEW q \in 0..k - 1 PROVE q \div P < a
  <2>1. q < P * a
    BY <1>0, <1>2, <1>4
  <2> QED
    BY <1>1, <1>2, <2>1, DivEntre
<1> QED
  BY <1>3, <1>4 DEF a, e

LEMMA Crece ==
    ASSUME NEW f, NEW d, NEW g, NEW e, NEW k \in Nat, NEW b,
           Entero(f, d, k), d.usados \subseteq Datos,
           \A q \in 0..k - 1 :
              g.ind[q \div P] = f.ind[q \div P] /\ Numero(g, e, q) = Numero(f, d, q),
           Numero(g, e, k) = b, b \in Datos \ d.usados,
           LET x == g.ind[k \div P] IN
              \/ x \in Datos \ d.usados /\ x # b /\ \A q \in 0..k - 1 : q \div P # k \div P
              \/ k > 0 /\ k \div P = (k - 1) \div P,
           d.usados \cup {b, g.ind[k \div P]} \subseteq e.usados,
           \A x \in d.usados \ BloquesEn(f, d, k) : e.cont[x] = d.cont[x]
    PROVE  Respeta(f, d, k, g, e, k + 1)
<1> DEFINE x == g.ind[k \div P]
           B == BloquesEn(f, d, k)
<1>1. B \subseteq d.usados
  BY BloquesTomados
<1>2. \A q \in 0..k - 1 : /\ g.ind[q \div P] \in B /\ Numero(g, e, q) \in B
                          /\ g.ind[q \div P] # b /\ Numero(g, e, q) # b
  BY <1>1 DEF BloquesEn
<1>3. 0..(k + 1) - 1 = 0..k - 1 \cup {k}
  OBVIOUS
<1>4. \A q, s \in 0..k - 1 :
        /\ Numero(g, e, q) # g.ind[s \div P]
        /\ Numero(g, e, q) = Numero(g, e, s) => q = s
        /\ g.ind[q \div P] = g.ind[s \div P] => q \div P = s \div P
  BY DEF Entero
<1>5. x # b /\ x \in B \cup (Datos \ d.usados)
  <2>1. CASE k > 0 /\ k \div P = (k - 1) \div P
    <3>1. k - 1 \in 0..k - 1 /\ x = g.ind[(k - 1) \div P]
      BY <2>1
    <3> QED
      BY <1>2, <3>1
  <2> QED
    BY <2>1
<1>6. \A q \in 0..k - 1 :
        /\ Numero(g, e, q) # x
        /\ g.ind[q \div P] = x => q \div P = k \div P
  <2>1. CASE x \in Datos \ d.usados /\ x # b /\ \A q \in 0..k - 1 : q \div P # k \div P
    BY <1>1, <1>2, <2>1
  <2>2. CASE k > 0 /\ k \div P = (k - 1) \div P
    <3>1. k - 1 \in 0..k - 1 /\ x = g.ind[(k - 1) \div P]
      BY <2>2
    <3> QED
      BY <1>4, <2>2, <3>1
  <2> QED
    BY <2>1, <2>2
<1> HIDE DEF x, B
<1>7. \A q, s \in 0..k :
        /\ Numero(g, e, q) # g.ind[s \div P]
        /\ Numero(g, e, q) = Numero(g, e, s) => q = s
        /\ g.ind[q \div P] = g.ind[s \div P] => q \div P = s \div P
  BY <1>2, <1>3, <1>4, <1>5, <1>6 DEF x
<1>8. Entero(g, e, k + 1)
  <2>1. \A q \in 0..k : g.ind[q \div P] \in e.usados /\ Numero(g, e, q) \in e.usados
    BY <1>1, <1>2, <1>3
  <2>2. 0..(k + 1) - 1 = 0..k
    OBVIOUS
  <2> QED
    BY <1>7, <2>1, <2>2 DEF Entero
<1>9. BloquesEn(g, e, k + 1) \subseteq B \cup (Datos \ d.usados)
  BY <1>2, <1>3, <1>5 DEF BloquesEn, x
<1> QED
  BY <1>1, <1>8, <1>9 DEF Respeta, B

LEMMA NuevoPunteroEs ==
    ASSUME NEW f \in Entrada, NEW d \in Disco, NEW b \in Datos, d.usados # Datos,
           NEW nuevo, nuevo = Libre(d), NEW pe, pe = Puntero(f.tam),
           NEW r, r = NuevoPuntero(f, d, b)
    PROVE  /\ r.f.ind = [[f.ind EXCEPT ![pe] = nuevo] EXCEPT ![pe + 1] = Cabecera]
           /\ r.f.tam = f.tam
           /\ r.d.usados = d.usados \cup {nuevo} /\ r.d.libres = d.libres
           /\ r.d.cont = [d.cont EXCEPT ![nuevo] = [Ceros EXCEPT ![0] = b]]
           /\ r.fin = "ok"
<1>1. [f EXCEPT !.ind[pe] = nuevo, !.ind[pe + 1] = Cabecera]
        = [f EXCEPT !.ind = [[f.ind EXCEPT ![pe] = nuevo] EXCEPT ![pe + 1] = Cabecera]]
  BY EntradaCampos
<1>2. [Tomado(d) EXCEPT !.cont[nuevo] = [Ceros EXCEPT ![0] = b]]
        = [d EXCEPT !.usados = d.usados \cup {nuevo},
                    !.cont = [d.cont EXCEPT ![nuevo] = [Ceros EXCEPT ![0] = b]]]
  BY ZenonT(60), TomadoTipo, DiscoCampos
<1> DEFINE i == [[f.ind EXCEPT ![pe] = nuevo] EXCEPT ![pe + 1] = Cabecera]
           c == [d.cont EXCEPT ![nuevo] = [Ceros EXCEPT ![0] = b]]
<1>3. r.f = [f EXCEPT !.ind = i] /\ r.fin = "ok"
      /\ r.d = [d EXCEPT !.usados = d.usados \cup {nuevo}, !.cont = c]
  BY <1>1, <1>2 DEF NuevoPuntero, Fin
<1> HIDE DEF i, c
<1>4. r.f.ind = i /\ r.f.tam = f.tam
  BY <1>3, EntradaCampos
<1>5. r.d.usados = d.usados \cup {nuevo} /\ r.d.libres = d.libres /\ r.d.cont = c
  BY <1>3, DiscoCampos
<1> QED
  BY <1>3, <1>4, <1>5 DEF i, c

LEMMA RestoUnico ==
    ASSUME NEW q \in Nat, NEW s \in Nat, q \div P = s \div P, q % P = s % P
    PROVE  q = s
<1>1. P \in Nat \ {0}
  BY SacBloquesAssumption
<1> DEFINE x == q \div P
           y == q % P
           z == s \div P
           w == s % P
<1>2. q = P * x + y /\ s = P * z + w
  BY <1>1, DivResto
<1>3. x = z /\ y = w
  OBVIOUS
<1> HIDE DEF x, y, z, w
<1> QED
  BY <1>2, <1>3

(* A file of k whole blocks gets one more: everything it had is where it   *)
(* was.                                                                    *)
LEMMA AlAgregar ==
    ASSUME NEW f \in Entrada, NEW d \in Disco, NEW k \in Nat, k < PB * P - 1,
           f.tam = TB * k, Entero(f, d, k), TomarYAgregar(f, d).fin \notin Grave
    PROVE  LET r == TomarYAgregar(f, d) IN
           /\ Respeta(f, d, k, r.f, r.d, k + 1)
           /\ r.fin = "ok" /\ r.f.tam = f.tam /\ r.d.libres = d.libres
           /\ Libre(d) \in Datos \ d.usados /\ Numero(r.f, r.d, k) = Libre(d)
           /\ \A q \in 0..k - 1 :
                Numero(r.f, r.d, q) = Numero(f, d, q)
                /\ r.d.cont[Numero(f, d, q)] = d.cont[Numero(f, d, q)]
<1> DEFINE b == Libre(d)
           e == Tomado(d)
           pe == k \div P
           de == k % P
           r == TomarYAgregar(f, d)
<1>1. P \in Nat \ {0} /\ PB \in Nat \ {0} /\ 0 \notin Datos
  BY SacBloquesAssumption
<1>2. d.usados # Datos
  BY DEF TomarYAgregar, Fin, Grave
<1>3. b \in Datos \ d.usados
  BY <1>2, LibreEnDatos
<1>4. /\ e \in Disco /\ e.usados = d.usados \cup {b}
      /\ e.libres = d.libres /\ e.cont = d.cont
  BY <1>2, TomadoTipo, DiscoCampos
<1>5. Puntero(f.tam) = pe /\ Posicion(f.tam) = de
  BY PosicionDe
<1>6. r = AgregarBloque(f, e, b)
  BY <1>2 DEF TomarYAgregar
<1>7. pe \in 0..PB - 1 /\ de \in 0..P - 1 /\ pe \in Nat
  <2>1. k < PB * P
    BY <1>1
  <2> QED
    BY <1>1, <2>1, PunteroEntra, DivTipo
<1>8. <<pe, de>> # <<PB - 1, P - 1>>
  <2> SUFFICES ASSUME pe = PB - 1, de = P - 1 PROVE FALSE
    OBVIOUS
  <2>1. k = P * pe + de
    BY <1>1, DivResto
  <2> HIDE DEF pe, de
  <2>2. P * (PB - 1) = PB * P - P
    BY <1>1
  <2> QED
    BY <1>1, <2>1, <2>2
<1>9. d.usados \subseteq Datos /\ f.ind \in [0..PB - 1 -> Datos \cup {Cabecera}]
      /\ d.cont \in [Datos -> [0..P - 1 -> Contenido]]
  BY ZenonT(60), DiscoCampos, EntradaCampos
<1>10. \A q \in 0..k - 1 :
         /\ q \in Nat /\ q \div P \in 0..PB - 1 /\ q % P \in 0..P - 1
         /\ f.ind[q \div P] \in d.usados /\ Numero(f, d, q) \in d.usados
         /\ Numero(f, d, q) = d.cont[f.ind[q \div P]][q % P]
  <2> SUFFICES ASSUME NEW q \in 0..k - 1
               PROVE  /\ q \in Nat /\ q \div P \in 0..PB - 1 /\ q % P \in 0..P - 1
                      /\ f.ind[q \div P] \in d.usados /\ Numero(f, d, q) \in d.usados
                      /\ Numero(f, d, q) = d.cont[f.ind[q \div P]][q % P]
    OBVIOUS
  <2>1. q \in Nat /\ q < PB * P
    BY <1>1
  <2>2. q \div P \in 0..PB - 1 /\ q % P \in 0..P - 1
    BY <1>1, <2>1, PunteroEntra, DivTipo
  <2>3. f.ind[q \div P] \in d.usados /\ Numero(f, d, q) \in d.usados
    BY DEF Entero
  <2> QED
    BY <1>9, <2>1, <2>2, <2>3, NumeroEs
<1>11. \A q, s \in 0..k - 1 :
         /\ Numero(f, d, q) # f.ind[s \div P]
         /\ f.ind[q \div P] = f.ind[s \div P] => q \div P = s \div P
  BY DEF Entero
<1>12. \A q \in 0..k - 1 : f.ind[q \div P] \in BloquesEn(f, d, k)
  BY DEF BloquesEn
<1>13. \A q \in 0..k - 1 : q \div P = pe => q % P # de
  BY SMTT(60), <1>10, RestoUnico
<1> HIDE DEF b, e, r, pe, de
<1>14. CASE de = 0
  <2> DEFINE nuevo == Libre(e)
             i1 == [f.ind EXCEPT ![pe] = nuevo]
             i2 == [i1 EXCEPT ![pe + 1] = Cabecera]
             c == [d.cont EXCEPT ![nuevo] = [Ceros EXCEPT ![0] = b]]
  <2>1. e.usados # Datos
    BY <1>5, <1>6, <1>8, <1>14 DEF AgregarBloque, Fin, Grave, r
  <2>2. nuevo \in Datos /\ nuevo \notin d.usados /\ nuevo # b
    BY <1>4, <2>1, LibreEnDatos
  <2>3. r = NuevoPuntero(f, e, b)
    BY <1>5, <1>6, <1>8, <1>14, <2>1 DEF AgregarBloque
  <2>4. /\ r.f.ind = i2 /\ r.f.tam = f.tam /\ r.fin = "ok"
        /\ r.d.usados = e.usados \cup {nuevo} /\ r.d.libres = e.libres
        /\ r.d.cont = [e.cont EXCEPT ![nuevo] = [Ceros EXCEPT ![0] = b]]
    <3>1. b \in Datos /\ pe = Puntero(f.tam) /\ e \in Disco
      BY <1>3, <1>4, <1>5
    <3>2. nuevo = Libre(e)
      OBVIOUS
    <3> HIDE DEF nuevo, i1, i2, c
    <3>3. /\ r.f.ind = [[f.ind EXCEPT ![pe] = nuevo] EXCEPT ![pe + 1] = Cabecera]
          /\ r.f.tam = f.tam
          /\ r.d.usados = e.usados \cup {nuevo} /\ r.d.libres = e.libres
          /\ r.d.cont = [e.cont EXCEPT ![nuevo] = [Ceros EXCEPT ![0] = b]]
          /\ r.fin = "ok"
      BY <2>1, <2>3, <3>1, <3>2, NuevoPunteroEs
    <3> QED
      BY <3>3 DEF i1, i2
  <2>5. /\ r.f.ind = i2 /\ r.f.tam = f.tam
        /\ r.d.usados = d.usados \cup {b, nuevo} /\ r.d.cont = c /\ r.d.libres = d.libres
    BY <1>4, <2>4
  <2>6. i2 \in [0..PB - 1 -> Datos \cup {Cabecera}] /\ i2[pe] = nuevo
        /\ \A p \in 0..pe - 1 : i2[p] = f.ind[p]
    <3>1. i1 \in [0..PB - 1 -> Datos \cup {Cabecera}] /\ i1[pe] = nuevo
          /\ \A p \in 0..pe - 1 : i1[p] = f.ind[p]
      BY <1>1, <1>7, <1>9, <2>2
    <3> HIDE DEF i1
    <3>2. i2 \in [0..PB - 1 -> Datos \cup {Cabecera}]
      BY <3>1
    <3>3. \A p \in 0..PB - 1 : p # pe + 1 => i2[p] = i1[p]
      BY <3>1
    <3> HIDE DEF i2
    <3> QED
      BY <1>1, <1>7, <3>1, <3>2, <3>3
  <2>7. c[nuevo] = [Ceros EXCEPT ![0] = b] /\ \A x \in Datos : x # nuevo => c[x] = d.cont[x]
    BY <1>9, <2>2
  <2>8. [Ceros EXCEPT ![0] = b][0] = b
    BY <1>1 DEF Ceros
  <2> HIDE DEF nuevo, i1, i2, c
  <2>9. \A q \in 0..k - 1 : q \div P \in 0..pe - 1
    <3>1. \A q \in 0..k - 1 : q \div P < pe
      BY SMTT(60), <1>14, PunteroSigue DEF pe, de
    <3> QED
      BY <1>7, <1>10, <3>1
  <2>10. \A q \in 0..k - 1 :
           r.f.ind[q \div P] = f.ind[q \div P] /\ Numero(r.f, r.d, q) = Numero(f, d, q)
    <3> SUFFICES ASSUME NEW q \in 0..k - 1
                 PROVE  r.f.ind[q \div P] = f.ind[q \div P]
                        /\ Numero(r.f, r.d, q) = Numero(f, d, q)
      OBVIOUS
    <3>1. r.f.ind[q \div P] = f.ind[q \div P]
      BY <2>5, <2>6, <2>9
    <3>2. f.ind[q \div P] \in Datos /\ f.ind[q \div P] # nuevo
      BY <1>9, <1>10, <2>2
    <3>3. Numero(r.f, r.d, q) = r.d.cont[f.ind[q \div P]][q % P]
      <4>1. r.f.ind \in [0..PB - 1 -> Datos \cup {Cabecera}]
        BY <2>5, <2>6
      <4>2. r.f.ind[q \div P] \in Datos /\ q \div P \in 0..PB - 1
        BY <1>10, <3>1, <3>2
      <4>3. Numero(r.f, r.d, q) = r.d.cont[r.f.ind[q \div P]][q % P]
        BY <4>1, <4>2, NumeroEs, Zenon
      <4> QED
        BY <3>1, <4>3
    <3> QED
      BY <1>10, <2>5, <2>7, <3>1, <3>2, <3>3
  <2>11. Numero(r.f, r.d, k) = b
    <3>1. Numero(r.f, r.d, k) = r.d.cont[nuevo][k % P]
      <4>1. /\ r.f.ind \in [0..PB - 1 -> Datos \cup {Cabecera}]
            /\ r.f.ind[k \div P] = nuevo /\ k \div P \in 0..PB - 1 /\ nuevo \in Datos
        BY <1>7, <2>2, <2>5, <2>6 DEF pe
      <4> QED
        BY <4>1, NumeroEs, Zenon
    <3> QED
      BY <1>14, <2>5, <2>7, <2>8, <3>1 DEF de
  <2>12. r.f.ind[k \div P] = nuevo
    BY <2>5, <2>6 DEF pe
  <2>13. \A q \in 0..k - 1 : q \div P # k \div P
    BY <1>7, <2>9 DEF pe
  <2>14. \A x \in d.usados : r.d.cont[x] = d.cont[x]
    BY <1>9, <2>2, <2>5, <2>7
  <2>15. Respeta(f, d, k, r.f, r.d, k + 1)
    <3>1. d.usados \cup {b, r.f.ind[k \div P]} \subseteq r.d.usados
      BY <2>5, <2>12
    <3> QED
      BY <1>3, <1>9, <2>2, <2>10, <2>11, <2>12, <2>13, <2>14, <3>1, Crece
  <2> QED
    BY <1>3, <1>10, <2>4, <2>5, <2>10, <2>11, <2>14, <2>15 DEF b, r
<1>15. CASE de # 0
  <2> DEFINE x == f.ind[pe]
             c == [d.cont EXCEPT ![x][de] = b]
  <2>1. k > 0 /\ pe = (k - 1) \div P
    BY <1>15, PunteroSigue DEF pe, de
  <2>2. k - 1 \in 0..k - 1 /\ x = f.ind[(k - 1) \div P]
    BY <2>1
  <2>3. x \in d.usados /\ x \in Datos /\ x # Cabecera /\ x \in BloquesEn(f, d, k)
    BY <1>1, <1>9, <1>10, <1>12, <2>2 DEF Cabecera
  <2>4. r = Fin(f, [e EXCEPT !.cont[x][de] = b], "ok")
    BY <1>5, <1>6, <1>8, <1>15, <2>3 DEF AgregarBloque
  <2>5. [e EXCEPT !.cont[x][de] = b] = [e EXCEPT !.cont = c]
    BY <1>4, DiscoCampos
  <2>6. /\ r.f = f /\ r.fin = "ok"
        /\ r.d.usados = d.usados \cup {b} /\ r.d.cont = c /\ r.d.libres = d.libres
    BY SMTT(60), <1>4, <2>4, <2>5, DiscoCampos DEF Fin
  <2>7. /\ c[x][de] = b
        /\ \A i \in 0..P - 1 : i # de => c[x][i] = d.cont[x][i]
        /\ \A y \in Datos : y # x => c[y] = d.cont[y]
    BY <1>7, <1>9, <2>3
  <2> HIDE DEF x, c
  <2>8. \A q \in 0..k - 1 :
          r.f.ind[q \div P] = f.ind[q \div P] /\ Numero(r.f, r.d, q) = Numero(f, d, q)
    <3> SUFFICES ASSUME NEW q \in 0..k - 1
                 PROVE  Numero(f, r.d, q) = Numero(f, d, q)
      BY <2>6
    <3>1. f.ind[q \div P] \in Datos
      BY <1>9, <1>10
    <3>2. Numero(f, r.d, q) = c[f.ind[q \div P]][q % P]
      BY <1>9, <1>10, <2>6, <3>1, NumeroEs
    <3>3. CASE f.ind[q \div P] = x
      <4>1. q \div P = pe
        BY <1>11, <2>1, <2>2, <3>3
      <4>2. q % P # de
        BY SMTT(60), <1>13, <4>1
      <4> QED
        BY <1>10, <2>7, <3>2, <3>3, <4>2
    <3>4. CASE f.ind[q \div P] # x
      BY <1>10, <2>7, <3>1, <3>2, <3>4
    <3> QED
      BY <3>3, <3>4
  <2>9. r.f.ind[k \div P] = x
    BY <2>6 DEF pe, x
  <2>10. Numero(r.f, r.d, k) = b
    <3>1. Numero(r.f, r.d, k) = c[x][k % P]
      BY <1>7, <1>9, <2>3, <2>6, <2>9, NumeroEs DEF pe
    <3> QED
      BY <2>7, <3>1 DEF de
  <2>11. Respeta(f, d, k, r.f, r.d, k + 1)
    <3>1. d.usados \cup {b, r.f.ind[k \div P]} \subseteq r.d.usados
      BY <2>3, <2>6, <2>9
    <3>2. \A y \in d.usados \ BloquesEn(f, d, k) : r.d.cont[y] = d.cont[y]
      BY <1>9, <2>3, <2>6, <2>7
    <3> QED
      BY <1>3, <1>9, <2>1, <2>8, <2>10, <3>1, <3>2, Crece DEF pe
  <2>12. \A q \in 0..k - 1 : r.d.cont[Numero(f, d, q)] = d.cont[Numero(f, d, q)]
    <3>1. \A q \in 0..k - 1 : Numero(f, d, q) # x
      BY <1>11, <2>2
    <3> QED
      BY <1>9, <1>10, <2>6, <2>7, <3>1
  <2> QED
    BY <1>3, <2>6, <2>8, <2>10, <2>11, <2>12 DEF b, r
<1> QED
  BY <1>14, <1>15

-----------------------------------------------------------------------------
(* Freeing blocks from position l on.                                      *)
LEMMA AlLiberar ==
    ASSUME NEW f \in Entrada, NEW d \in Disco, NEW k \in Nat, k <= PB * P, Entero(f, d, k),
           NEW l \in Nat, l <= k, NEW qs, qs \subseteq l..k - 1,
           NEW ps, ps \subseteq {q \div P : q \in 0..k - 1},
           \A q \in 0..l - 1 : q \div P \notin ps,
           NEW g, g.ind = [p \in 0..PB - 1 |-> IF p \in ps THEN Cabecera ELSE f.ind[p]],
           NEW e, e.cont = d.cont,
           e.usados = d.usados \ ({Numero(f, d, q) : q \in qs} \cup {f.ind[p] : p \in ps})
    PROVE  Respeta(f, d, k, g, e, l)
<1> DEFINE liberados == {Numero(f, d, q) : q \in qs} \cup {f.ind[p] : p \in ps}
           B == BloquesEn(f, d, k)
<1>1. P \in Nat \ {0} /\ PB \in Nat \ {0} /\ d.usados \subseteq Datos
  BY SacBloquesAssumption, DiscoCampos
<1>2. qs \subseteq 0..k - 1
  OBVIOUS
<1>3. liberados \subseteq B
  <2>1. {Numero(f, d, q) : q \in qs} \subseteq {Numero(f, d, q) : q \in 0..k - 1}
    BY <1>2
  <2>2. {f.ind[p] : p \in ps} \subseteq {f.ind[q \div P] : q \in 0..k - 1}
    <3> SUFFICES ASSUME NEW p \in ps PROVE \E q \in 0..k - 1 : f.ind[p] = f.ind[q \div P]
      OBVIOUS
    <3>1. PICK q \in 0..k - 1 : p = q \div P
      OBVIOUS
    <3> QED
      BY <3>1
  <2> QED
    BY <2>1, <2>2 DEF BloquesEn
<1>4. ASSUME NEW q \in 0..l - 1
      PROVE  /\ q \in 0..k - 1 /\ q \div P \in 0..PB - 1
             /\ g.ind[q \div P] = f.ind[q \div P] /\ Numero(g, e, q) = Numero(f, d, q)
             /\ f.ind[q \div P] \in d.usados /\ Numero(f, d, q) \in d.usados
  <2> DEFINE m == PB * P
  <2>1. q \in Nat /\ q < m /\ q \in 0..k - 1
    <3>1. m \in Nat /\ k <= m
      BY <1>1
    <3> HIDE DEF m
    <3> QED
      BY <3>1
  <2>2. q \div P \in 0..PB - 1
    BY <2>1, PunteroEntra
  <2>3. g.ind[q \div P] = f.ind[q \div P]
    BY <2>2
  <2>4. f.ind[q \div P] \in d.usados /\ Numero(f, d, q) \in d.usados
    BY <2>1 DEF Entero
  <2>5. DOMAIN g.ind = 0..PB - 1 /\ DOMAIN f.ind = 0..PB - 1
    BY ZenonT(60), EntradaCampos
  <2>6. Numero(g, e, q) = Numero(f, d, q)
    BY <2>2, <2>3, <2>5 DEF Numero
  <2> QED
    BY <2>1, <2>2, <2>3, <2>4, <2>6
<1>5. ASSUME NEW q \in 0..l - 1
      PROVE  f.ind[q \div P] \notin liberados /\ Numero(f, d, q) \notin liberados
  <2>1. q \in 0..k - 1 /\ q \notin qs /\ q \div P \notin ps
    BY <1>4
  <2>2. \A s \in qs : Numero(f, d, s) # Numero(f, d, q) /\ Numero(f, d, s) # f.ind[q \div P]
    BY <1>2, <2>1 DEF Entero
  <2>3. \A p \in ps : f.ind[p] # Numero(f, d, q) /\ f.ind[p] # f.ind[q \div P]
    <3> SUFFICES ASSUME NEW p \in ps
                 PROVE  f.ind[p] # Numero(f, d, q) /\ f.ind[p] # f.ind[q \div P]
      OBVIOUS
    <3>1. PICK s \in 0..k - 1 : p = s \div P
      OBVIOUS
    <3> QED
      BY <2>1, <3>1 DEF Entero
  <2> QED
    BY <2>2, <2>3
<1>6. e.usados = d.usados \ liberados
  OBVIOUS
<1> HIDE DEF liberados, B
<1>7. Entero(g, e, l)
  <2>1. \A q \in 0..l - 1 : g.ind[q \div P] \in e.usados /\ Numero(g, e, q) \in e.usados
    BY <1>4, <1>5, <1>6
  <2>2. \A q, s \in 0..k - 1 :
          /\ Numero(f, d, q) # f.ind[s \div P]
          /\ Numero(f, d, q) = Numero(f, d, s) => q = s
          /\ f.ind[q \div P] = f.ind[s \div P] => q \div P = s \div P
    BY DEF Entero
  <2>3. \A q, s \in 0..l - 1 :
          /\ Numero(g, e, q) # g.ind[s \div P]
          /\ Numero(g, e, q) = Numero(g, e, s) => q = s
          /\ g.ind[q \div P] = g.ind[s \div P] => q \div P = s \div P
    BY ZenonT(60), <1>4, <2>2
  <2> QED
    BY <2>1, <2>3 DEF Entero
<1>8. BloquesEn(g, e, l) \subseteq B
  BY ZenonT(60), <1>4 DEF BloquesEn, B
<1>9. d.usados \ B \subseteq e.usados
  BY <1>3, <1>6
<1> QED
  BY <1>7, <1>8, <1>9 DEF Respeta, B

LEMMA EliminarNodosEs ==
    ASSUME NEW f \in Entrada, NEW d \in Disco, NEW m, NEW hasta \in Nat,
           NEW r, r = EliminarNodos(f, d, m, hasta),
           NEW qs, qs = SeBorran(f, m, hasta), NEW ps, ps = PunterosQueSeBorran(f, m, hasta)
    PROVE  /\ r.f.ind = [p \in 0..PB - 1 |-> IF p \in ps THEN Cabecera ELSE f.ind[p]]
           /\ r.f.tam = f.tam
           /\ r.d.usados = d.usados \ ({Numero(f, d, q) : q \in qs} \cup {f.ind[p] : p \in ps})
           /\ r.d.cont = d.cont
           /\ d.libres = Cardinality(Datos) => r.d.libres = d.libres
           /\ r.fin \in Grave \cup {"ok"}
<1> DEFINE ind == [p \in DOMAIN f.ind |-> IF p \in ps THEN Cabecera ELSE f.ind[p]]
           liberados == {Numero(f, d, q) : q \in qs} \cup {f.ind[p] : p \in ps}
           libres == Min({d.libres + Cardinality(qs), Cardinality(Datos)})
<1>1. r.f = [f EXCEPT !.ind = ind]
      /\ r.d = [d EXCEPT !.usados = d.usados \ liberados, !.libres = libres]
      /\ r.fin \in Grave \cup {"ok"}
  BY DiscoCampos DEF EliminarNodos, Grave
<1>2. d.libres = Cardinality(Datos) => libres = d.libres
  <2>1. Cardinality(qs) \in Nat
    BY SeBorranTipo
  <2> QED
    BY <2>1, CardDatos, MinDeDos
<1> HIDE DEF ind, liberados, libres
<1>3. r.f.ind = ind /\ r.f.tam = f.tam
  BY <1>1, EntradaCampos
<1>4. r.d.usados = d.usados \ liberados /\ r.d.libres = libres /\ r.d.cont = d.cont
  BY <1>1, DiscoCampos
<1>5. ind = [p \in 0..PB - 1 |-> IF p \in ps THEN Cabecera ELSE f.ind[p]]
  BY EntradaCampos DEF ind
<1> QED
  BY <1>1, <1>2, <1>3, <1>4, <1>5 DEF liberados

LEMMA PunterosDeAntes ==
    ASSUME NEW u \in Int, u >= -1, NEW a \in Nat
    PROVE  a..(u \div P) \subseteq {q \div P : q \in 0..u}
<1>1. P \in Nat \ {0} /\ u \div P \in Int
  BY DivResto, SacBloquesAssumption
<1> SUFFICES ASSUME NEW p \in a..(u \div P) PROVE \E q \in 0..u : p = q \div P
  OBVIOUS
<1>2. p \in Nat /\ p <= u \div P
  BY <1>1
<1> DEFINE v == u \div P
<1>3. v \in Int /\ P * v <= u
  BY <1>1, DivResto
<1> HIDE DEF v
<1>4. p <= v
  BY <1>2 DEF v
<1>5. P * p <= P * v
  <2>1. p < v => P * p + P <= P * v
    BY <1>1, <1>2, <1>3, Multiplo
  <2> QED
    BY <1>1, <1>2, <1>3, <1>4, <2>1
<1>6. P * p \in Nat
  BY <1>1, <1>2
<1>7. P * p \in 0..u
  BY <1>1, <1>3, <1>5, <1>6
<1>8. (P * p) \div P = p
  <2>1. (P * p + 0) \div P = p
    BY <1>1, <1>2, DivUnico
  <2> QED
    BY <1>6, <2>1
<1> QED
  BY <1>7, <1>8

LEMMA BloqueDelByte == \A a \in Nat : a \div TB \in Nat /\ a < TB * ((a \div TB) + 1)
<1> SUFFICES ASSUME NEW a \in Nat PROVE a \div TB \in Nat /\ a < TB * ((a \div TB) + 1)
  OBVIOUS
<1> DEFINE x == a \div TB
           y == a % TB
<1>1. TB \in Nat \ {0}
  BY SacBloquesAssumption
<1>2. x \in Nat /\ y \in 0..TB - 1 /\ a = TB * x + y
  <2>1. x \in Nat
    BY <1>1, DivTipo
  <2>2. y \in 0..TB - 1 /\ a = TB * x + y
    BY <1>1, DivResto
  <2> QED
    BY <2>1, <2>2
<1> HIDE DEF x, y
<1>3. a < TB * (x + 1)
  BY <1>1, <1>2
<1> QED
  BY <1>2, <1>3 DEF x

LEMMA PunteroNegativo == \A u \in Int : u \div P \in Int /\ (u < 0 => u \div P < 0)
<1>1. P \in Nat \ {0}
  BY SacBloquesAssumption
<1> SUFFICES ASSUME NEW u \in Int PROVE u \div P \in Int /\ (u < 0 => u \div P < 0)
  OBVIOUS
<1> DEFINE x == u \div P
<1>2. x \in Int /\ (u < P * 0 => x < 0)
  BY <1>1, DivEntre, DivResto
<1> HIDE DEF x
<1>3. P * 0 = 0
  BY <1>1
<1> QED
  BY <1>2, <1>3 DEF x

(* The blocks a truncate counts: the last one that stays and the last one   *)
(* there is, by their positions and by those of their pointer blocks.      *)
LEMMA TruncaHasta ==
    ASSUME NEW t \in Nat, NEW n \in Nat, n <= t, ~(t > 0 /\ t % TB = 0 /\ n = t)
    PROVE  LET h == n \div TB
               u == Ultima(t)
           IN  /\ h \in Nat /\ u \in Int /\ u >= -1
               /\ h \div P \in Nat /\ u \div P \in Int
               /\ t = 0 => n = 0 /\ u = -1 /\ u \div P < 0 /\ Cuantas(t) = 1
               /\ t > 0 => /\ Cuantas(t) = u + 1 /\ h <= u
                          /\ h \div P <= u \div P /\ Cuantas(n) <= h + 1
<1> DEFINE h == n \div TB
           u == Ultima(t)
           hp == h \div P
           up == u \div P
<1>1. TB \in Nat \ {0} /\ P \in Nat \ {0}
  BY SacBloquesAssumption
<1>2. h \in Nat /\ n < TB * (h + 1)
  BY BloqueDelByte
<1>3. u \in Int /\ u >= -1 /\ TB * u < t /\ t <= TB * (u + 1)
  BY UltimaCota
<1>4. Cuantas(t) = IF t = 0 THEN 1 ELSE u + 1
  BY CuantasSon
<1>5. hp \in Nat
  BY <1>1, <1>2, DivTipo
<1>6. up \in Int /\ (u < 0 => up < 0)
  BY <1>3, PunteroNegativo
<1>7. h <= u => hp <= up
  BY <1>1, <1>2, <1>3, DivMenor
<1>8. n < TB * (u + 1) => h < u + 1
  BY <1>1, <1>3, DivEntre
<1>9. n <= TB * (h + 1) => Cuantas(n) <= h + 1
  BY <1>2, CuantasHasta
<1>10. t % TB # 0 => t # TB * (u + 1)
  <2>1. (TB * (u + 1) + 0) % TB = 0
    BY SMTT(60), <1>1, <1>3, DivUnico
  <2> HIDE DEF u
  <2>2. TB * (u + 1) + 0 = TB * (u + 1)
    BY <1>1, <1>3
  <2> QED
    BY <2>1, <2>2
<1> HIDE DEF h, u, hp, up
<1>11. ASSUME t = 0 PROVE n = 0 /\ u = -1 /\ up < 0
  <2>1. u >= 0 => TB * u \in Nat
    BY <1>1, <1>3
  <2>2. u = -1
    BY <1>3, <1>11, <2>1
  <2> QED
    BY <1>6, <1>11, <2>2
<1>12. ASSUME t > 0 PROVE h <= u
  <2>1. n # t \/ t # TB * (u + 1)
    BY <1>10, <1>12
  <2>2. TB * (u + 1) \in Int
    BY <1>1, <1>3
  <2>3. n < TB * (u + 1)
    BY <1>3, <2>1, <2>2
  <2> QED
    BY <1>2, <1>3, <1>8, <2>3
<1>13. TB * (h + 1) \in Nat
  BY <1>1, <1>2
<1> QED
  BY <1>2, <1>3, <1>4, <1>5, <1>6, <1>7, <1>9, <1>11, <1>12, <1>13 DEF h, u, hp, up

(* A truncate to n bytes of a file of more, or of as many when its last    *)
(* block is not full, leaves it the first positions it needs.              *)
LEMMA AlTruncar ==
    ASSUME NEW f \in Entrada, NEW d \in Disco, NEW n \in Nat, n <= f.tam,
           ~(f.tam > 0 /\ f.tam % TB = 0 /\ n = f.tam),
           Cuantas(f.tam) <= PB * P, Entero(f, d, Cuantas(f.tam))
    PROVE  LET r == EliminarNodos(f, d, 0, n \div TB) IN
           /\ Respeta(f, d, Cuantas(f.tam), r.f, r.d, Cuantas(n))
           /\ d.libres = Cardinality(Datos) => r.d.libres = d.libres
<1> DEFINE h == n \div TB
           u == Ultima(f.tam)
           hp == h \div P
           up == u \div P
           k == Cuantas(f.tam)
           qs == SeBorran(f, 0, h)
           ps == PunterosQueSeBorran(f, 0, h)
           r == EliminarNodos(f, d, 0, h)
<1>1. TB \in Nat \ {0} /\ P \in Nat \ {0} /\ f.tam \in Nat
  BY SacBloquesAssumption, EntradaCampos
<1>2. /\ h \in Nat /\ u \in Int /\ u >= -1
      /\ hp \in Nat /\ up \in Int
      /\ f.tam = 0 => n = 0 /\ u = -1 /\ up < 0 /\ k = 1
      /\ f.tam > 0 => /\ k = u + 1 /\ h <= u
                     /\ hp <= up /\ Cuantas(n) <= h + 1
  BY <1>1, TruncaHasta
<1>3. /\ r.f.ind = [p \in 0..PB - 1 |-> IF p \in ps THEN Cabecera ELSE f.ind[p]]
      /\ r.d.usados = d.usados \ ({Numero(f, d, q) : q \in qs} \cup {f.ind[p] : p \in ps})
      /\ r.d.cont = d.cont
      /\ d.libres = Cardinality(Datos) => r.d.libres = d.libres
  BY <1>2, EliminarNodosEs
<1>4. k \in Nat \ {0} /\ Cuantas(n) \in Nat \ {0}
  BY <1>1, CuantasSon
<1>5. ps = (IF up < hp THEN 0 ELSE hp + 1)..up
  BY <1>2 DEF PunterosQueSeBorran
<1>6. qs \subseteq (IF up < hp THEN 0 ELSE h + 1)..u
  BY <1>2 DEF SeBorran
<1>7. 0..up \subseteq {q \div P : q \in 0..u} /\ hp + 1..up \subseteq {q \div P : q \in 0..u}
  BY <1>2, PunterosDeAntes
<1>8. \A q \in 0..h : q \div P \in Int /\ q \div P <= hp
  <2> SUFFICES ASSUME NEW q \in 0..h PROVE q \div P \in Int /\ q \div P <= hp
    OBVIOUS
  <2>1. q \in Int /\ q <= h /\ h \in Int
    BY <1>2
  <2> HIDE DEF h
  <2> QED
    BY <1>1, <2>1, DivMenor, DivResto
<1>9. k <= PB * P /\ Entero(f, d, k)
  OBVIOUS
<1> DEFINE S == {q \div P : q \in 0..u}
           T == {q \div P : q \in 0..k - 1}
<1>10. k = u + 1 => S = T
  BY <1>2
<1>11. ASSUME NEW l \in Nat, l <= k, qs \subseteq l..k - 1, ps \subseteq T,
              \A q \in 0..l - 1 : q \div P \notin ps
       PROVE  Respeta(f, d, k, r.f, r.d, l)
  <2>1. r.f.ind = [p \in 0..PB - 1 |-> IF p \in ps THEN Cabecera ELSE f.ind[p]]
    BY <1>3
  <2>2. ps \subseteq {q \div P : q \in 0..k - 1}
    BY <1>11
  <2> HIDE DEF h, u, hp, up, k, qs, ps, r, S, T
  <2> QED
    BY ZenonT(60), <1>3, <1>4, <1>9, <1>11, <2>1, <2>2, AlLiberar
<1> HIDE DEF h, u, hp, up, k, qs, ps, r, S, T
<1>12. CASE f.tam = 0
  <2>1. qs = {} /\ ps = {}
    BY <1>2, <1>5, <1>6, <1>12
  <2>2. Respeta(f, d, k, r.f, r.d, 1)
    BY <1>4, <1>11, <2>1
  <2>3. Cuantas(n) = 1
    BY <1>2, <1>12 DEF k
  <2> QED
    BY <1>3, <2>2, <2>3 DEF r, k, h
<1>13. CASE f.tam > 0
  <2>1. h + 1 \in Nat /\ h + 1 <= k /\ qs \subseteq h + 1..k - 1
    BY <1>2, <1>4, <1>6, <1>13
  <2>2. ps \subseteq T
    BY <1>2, <1>5, <1>7, <1>10, <1>13 DEF S
  <2>3. \A q \in 0..(h + 1) - 1 : q \div P \notin ps
    <3>1. (h + 1) - 1 = h
      BY <1>2
    <3>2. \A x \in ps : x > hp
      BY <1>2, <1>5, <1>13
    <3> QED
      BY <1>2, <1>8, <3>1, <3>2
  <2>4. Respeta(f, d, k, r.f, r.d, h + 1)
    BY <1>11, <2>1, <2>2, <2>3
  <2>5. Respeta(f, d, k, r.f, r.d, Cuantas(n))
    BY <1>2, <1>4, <1>13, <2>1, <2>4, RespetaMenos
  <2> QED
    BY <1>3, <2>5 DEF r, k, h
<1> QED
  BY <1>1, <1>12, <1>13

(* An unlink frees all of the file.                                        *)
LEMMA AlDesligar ==
    ASSUME NEW f \in Entrada, NEW d \in Disco,
           NEW k, k = Cuantas(f.tam), k <= PB * P, Entero(f, d, k),
           NEW r, r = EliminarNodos(f, d, 1, 0)
    PROVE  /\ Respeta(f, d, k, r.f, r.d, 0)
           /\ d.libres = Cardinality(Datos) => r.d.libres = d.libres
<1> DEFINE u == Ultima(f.tam)
           qs == SeBorran(f, 1, 0)
           ps == PunterosQueSeBorran(f, 1, 0)
<1>1. P \in Nat \ {0} /\ f.tam \in Nat
  BY SacBloquesAssumption, EntradaCampos
<1>2. /\ r.f.ind = [p \in 0..PB - 1 |-> IF p \in ps THEN Cabecera ELSE f.ind[p]]
      /\ r.d.usados = d.usados \ ({Numero(f, d, q) : q \in qs} \cup {f.ind[p] : p \in ps})
      /\ r.d.cont = d.cont
      /\ d.libres = Cardinality(Datos) => r.d.libres = d.libres
  BY EliminarNodosEs
<1>3. k \in Nat \ {0} /\ (f.tam > 0 => k = u + 1)
  BY <1>1, CuantasSon
<1>4. u \in Int /\ u >= -1 /\ u <= k - 1
  <2>1. u \in Int /\ u >= -1 /\ TB * u < f.tam
    BY <1>1, UltimaCota
  <2>2. f.tam = 0 => u < 0
    <3>1. u >= 0 => TB * u \in Nat
      BY <2>1, SacBloquesAssumption
    <3> QED
      BY <2>1, <3>1
  <2> QED
    BY <1>1, <1>3, <2>1, <2>2
<1>5. qs = 0..u /\ ps = 0..(u \div P)
  BY DEF SeBorran, PunterosQueSeBorran
<1>6. ps \subseteq {q \div P : q \in 0..k - 1}
  <2>1. 0..(u \div P) \subseteq {q \div P : q \in 0..u}
    BY <1>4, PunterosDeAntes
  <2>2. 0..u \subseteq 0..k - 1
    BY <1>3, <1>4
  <2> QED
    BY <1>5, <2>1, <2>2
<1>7. 0 \in Nat /\ 0 <= k /\ k \in Nat /\ qs \subseteq 0..k - 1 /\ 0..0 - 1 = {}
  BY <1>3, <1>4, <1>5
<1> HIDE DEF u, qs, ps
<1> QED
  BY ZenonT(60), <1>2, <1>6, <1>7, AlLiberar

-----------------------------------------------------------------------------
(* Growing.  What is said of the blocks of a file does not look at its     *)
(* size.                                                                   *)
LEMMA SoloInd ==
    ASSUME NEW g, NEW h, h.ind = g.ind, NEW e
    PROVE  /\ \A q : Numero(h, e, q) = Numero(g, e, q)
           /\ \A l : Entero(h, e, l) = Entero(g, e, l)
           /\ \A l : BloquesEn(h, e, l) = BloquesEn(g, e, l)
           /\ \A f, d, k, l : Respeta(f, d, k, h, e, l) = Respeta(f, d, k, g, e, l)
           /\ \A f, d, k, l : Respeta(h, e, k, f, d, l) = Respeta(g, e, k, f, d, l)
<1>1. \A q : Numero(h, e, q) = Numero(g, e, q)
  BY DEF Numero
<1>2. \A l : Entero(h, e, l) = Entero(g, e, l)
  BY <1>1 DEF Entero
<1>3. \A l : BloquesEn(h, e, l) = BloquesEn(g, e, l)
  BY <1>1 DEF BloquesEn
<1> QED
  BY <1>1, <1>2, <1>3 DEF Respeta

(* Positions a file can have: all but the last one of all.                 *)
Lugares == PB * P - 1

LEMMA LugaresSon == Lugares \in Nat /\ Lugares < PB * P
<1>1. PB \in Nat \ {0} /\ P \in Nat \ {0}
  BY SacBloquesAssumption
<1>2. PB * P \in Nat \ {0}
  BY <1>1
<1> QED
  BY <1>2 DEF Lugares

LEMMA PosicionUltima ==
    Lugares \div P = PB - 1 /\ Lugares % P = P - 1
<1>1. PB \in Nat \ {0} /\ P \in Nat \ {0}
  BY SacBloquesAssumption
<1>2. P - 1 \in 0..P - 1 /\ PB - 1 \in Int
  BY <1>1
<1>3. Lugares = P * (PB - 1) + (P - 1)
  BY <1>1 DEF Lugares
<1> QED
  BY <1>1, <1>2, <1>3, DivUnico

(* Past them the block that was taken is lost, and the file stays.         *)
LEMMA AlNoCaber ==
    ASSUME NEW f \in Entrada, NEW d \in Disco, f.tam = TB * Lugares,
           TomarYAgregar(f, d).fin \notin Grave
    PROVE  LET r == TomarYAgregar(f, d) IN
           /\ r.f = f /\ r.d.libres = d.libres /\ r.d.cont = d.cont
           /\ d.usados \subseteq r.d.usados
<1> DEFINE r == TomarYAgregar(f, d)
           e == Tomado(d)
<1>1. d.usados # Datos
  BY DEF TomarYAgregar, Fin, Grave
<1>2. Puntero(f.tam) = PB - 1 /\ Posicion(f.tam) = P - 1
  <2>1. \A q \in Nat : Puntero(TB * q) = q \div P /\ Posicion(TB * q) = q % P
    BY PosicionDe
  <2>2. Puntero(TB * Lugares) = Lugares \div P /\ Posicion(TB * Lugares) = Lugares % P
    BY <2>1, LugaresSon
  <2> QED
    BY <2>2, PosicionUltima
<1>3. r = AgregarBloque(f, e, Libre(d))
  BY <1>1 DEF TomarYAgregar
<1>4. r = Fin(f, e, "sinEspacio")
  BY <1>2, <1>3 DEF AgregarBloque
<1>5. e.usados = d.usados \cup {Libre(d)} /\ e.libres = d.libres /\ e.cont = d.cont
  BY <1>1, TomadoTipo, DiscoCampos
<1> HIDE DEF e, r
<1> QED
  BY <1>4, <1>5 DEF Fin, r

LEMMA RespetaTomado ==
    ASSUME NEW f, NEW d, NEW k, NEW g, NEW e, NEW l, Respeta(f, d, k, g, e, l),
           NEW c, c.cont = e.cont, e.usados \subseteq c.usados
    PROVE  Respeta(f, d, k, g, c, l)
<1>1. \A q : Numero(g, c, q) = Numero(g, e, q)
  BY DEF Numero
<1>2. Entero(g, c, l)
  BY <1>1 DEF Respeta, Entero
<1>3. BloquesEn(g, c, l) = BloquesEn(g, e, l)
  BY <1>1 DEF BloquesEn
<1> QED
  BY <1>2, <1>3 DEF Respeta

(* One more round: the file has one more whole block, if it can.           *)
LEMMA AlDarVuelta ==
    ASSUME NEW f, NEW d \in Disco, NEW k, NEW g \in Entrada, NEW e \in Disco,
           NEW m \in Nat, m <= Lugares, g.tam = TB * m, Respeta(f, d, k, g, e, m),
           TomarYAgregar(g, e).fin \notin Grave
    PROVE  LET r == TomarYAgregar(g, e) IN
           /\ r.d.libres = e.libres
           /\ Respeta(f, d, k, r.f, r.d, IF m < Lugares THEN m + 1 ELSE m)
<1> DEFINE r == TomarYAgregar(g, e)
<1>1. CASE m < Lugares
  <2>1. Entero(g, e, m) /\ e.usados \subseteq Datos /\ d.usados \subseteq Datos
    BY DiscoCampos DEF Respeta
  <2>2. m < PB * P - 1
    BY <1>1 DEF Lugares
  <2>3. Respeta(g, e, m, r.f, r.d, m + 1) /\ r.d.libres = e.libres
    BY <2>1, <2>2, AlAgregar
  <2> HIDE DEF r
  <2>4. Respeta(f, d, k, r.f, r.d, m + 1)
    BY <2>1, <2>3, RespetaSigue
  <2> QED
    BY <1>1, <2>3, <2>4 DEF r
<1>2. CASE m = Lugares
  <2>1. r.f = g /\ r.d.libres = e.libres /\ r.d.cont = e.cont /\ e.usados \subseteq r.d.usados
    BY <1>2, AlNoCaber
  <2>2. ~(m < Lugares)
    BY <1>2, LugaresSon
  <2> HIDE DEF r
  <2>3. Respeta(f, d, k, g, r.d, m)
    BY <2>1, RespetaTomado
  <2> QED
    BY <2>1, <2>2, <2>3 DEF r
<1> QED
  BY <1>1, <1>2, LugaresSon

LEMMA RestoCuantas ==
    ASSUME NEW t \in Nat, ~(t > 0 /\ t % TB = 0)
    PROVE  t + Resto(t) = TB * Cuantas(t) /\ Resto(t) \in 1..TB
<1> DEFINE x == t \div TB
           y == t % TB
<1>1. TB \in Nat \ {0}
  BY SacBloquesAssumption
<1>2. x \in Nat
  BY <1>1, DivTipo
<1>3. y \in 0..TB - 1 /\ t = TB * x + y
  BY SMTT(60), <1>1, DivResto
<1>4. Resto(t) = TB - y /\ Resto(t) \in 1..TB
  BY RestoTipo DEF Resto
<1>5. ~(t > 0 /\ y = 0)
  OBVIOUS
<1> HIDE DEF x, y
<1>6. CASE t = 0
  <2>1. Cuantas(t) = 1
    BY <1>6, CuantasSon
  <2>2. y = 0
    <3>1. TB * x \in Nat
      BY <1>1, <1>2
    <3> QED
      BY <1>3, <1>6, <3>1
  <2> QED
    BY <1>1, <1>4, <1>6, <2>1, <2>2
<1>7. CASE t > 0
  <2>1. t <= TB * (x + 1) /\ TB * ((x + 1) - 1) < t /\ x + 1 \in Nat \ {0}
    BY <1>1, <1>2, <1>3, <1>5, <1>7
  <2>2. Cuantas(t) = x + 1
    BY <2>1, CuantasExactas
  <2> QED
    BY <1>1, <1>2, <1>3, <1>4, <2>2
<1> QED
  BY <1>6, <1>7

(* The rounds that n bytes take, when the code does not lose count.        *)
LEMMA VueltasSon ==
    ASSUME NEW t \in Nat, NEW size \in Nat \ {0}, NEW k \in Nat \ {0},
           t + Resto(t) = TB * k, Resto(t) \in 1..TB, Resto(t) <= size,
           ~NoTermina(t, size)
    PROVE  LET V == Vueltas(t, size) IN
           /\ V \in Nat
           /\ t + size <= TB * (k + V)
           /\ V > 0 => TB * (k + V - 1) <= t + size
<1> DEFINE R == Resto(t)
           x == size \div TB
           y == size % TB
           V == Vueltas(t, size)
<1>1. TB \in Nat \ {0}
  BY SacBloquesAssumption
<1>2. x \in Nat
  BY <1>1, DivTipo
<1>3. y \in 0..TB - 1 /\ size = TB * x + y
  BY <1>1, DivResto
<1>4. V = IF R >= size THEN 0 ELSE x
  BY DEF Vueltas
<1>5. ~(R < size /\ y >= R)
  BY DEF NoTermina
<1>6. R \in 1..TB /\ R <= size /\ t + R = TB * k
  OBVIOUS
<1> HIDE DEF R, x, y, V
<1>7. CASE R >= size
  <2>1. t + size = TB * k /\ V = 0
    BY <1>1, <1>4, <1>6, <1>7
  <2> QED
    BY <1>1, <2>1 DEF V
<1>8. CASE R < size
  <2>1. V = x /\ y < R
    BY <1>1, <1>3, <1>4, <1>5, <1>6, <1>8
  <2>2. t + size = TB * (k + V) - R + y
    <3>1. TB * (k + x) = TB * k + TB * x /\ TB * k \in Int /\ TB * x \in Int
      BY <1>1, <1>2
    <3> QED
      BY <1>1, <1>3, <1>6, <2>1, <3>1
  <2>3. TB * (k + V) = TB * (k + V - 1) + TB /\ TB * (k + V - 1) \in Int
    BY <1>1, <1>2, <2>1
  <2> QED
    BY <1>1, <1>2, <1>3, <1>6, <2>1, <2>2, <2>3 DEF V
<1> QED
  BY <1>1, <1>6, <1>7, <1>8

(* A truncate to more bytes gives the file the blocks for them, or leaves  *)
(* it as it is.                                                            *)
LEMMA AlAgrandar ==
    ASSUME NEW f \in Entrada, NEW d \in Disco, NEW size \in Nat \ {0},
           ~(f.tam > 0 /\ f.tam % TB = 0), Lugares > 0, f.tam + size <= TB * Lugares,
           Entero(f, d, Cuantas(f.tam)), DarleEspacio(f, d, size).fin \notin Grave
    PROVE  LET r == DarleEspacio(f, d, size) IN
           /\ r.fin \in {"ok", "sinEspacio"}
           /\ r.d.libres = d.libres
           /\ r.fin = "ok" => Respeta(f, d, Cuantas(f.tam), r.f, r.d, Cuantas(f.tam + size))
           /\ r.fin # "ok" => r.f = f /\ r.d = d
<1> DEFINE R == Resto(f.tam)
           k == Cuantas(f.tam)
           V == Vueltas(f.tam, size)
           n == f.tam + size
           z == Agrandados(f, d, size)
           r == DarleEspacio(f, d, size)
           Quedan(i) == IF k + i <= Lugares THEN k + i ELSE Lugares
           Va(x, i) == x.d.libres = d.libres /\ Respeta(f, d, k, x.f, x.d, Quedan(i))
           S == {i \in 0..V : z[i].fin \in Grave \/ Va(z[i], i)}
<1>1. TB \in Nat \ {0} /\ f.tam \in Nat /\ Lugares \in Nat \ {0} /\ n \in Nat
  <2>1. f.tam \in Nat
    BY EntradaCampos
  <2>2. Lugares \in Nat \ {0} /\ TB \in Nat \ {0}
    BY LugaresSon, SacBloquesAssumption
  <2> QED
    BY <2>1, <2>2
<1>2. f.tam + R = TB * k /\ R \in 1..TB
  BY <1>1, RestoCuantas
<1>3. k \in Nat \ {0} /\ k <= Lugares /\ Cuantas(n) <= Lugares /\ Cuantas(n) \in Nat \ {0}
  <2>1. f.tam <= TB * Lugares /\ n <= TB * Lugares
    <3>1. TB * Lugares \in Nat
      BY <1>1
    <3> HIDE DEF k
    <3> QED
      BY <1>1, <3>1
  <2> QED
    BY <1>1, <2>1, CuantasSon, CuantasHasta
<1>4. r = IF size < R \/ d.libres * TB < size - R THEN Fin(f, d, "sinEspacio")
          ELSE IF NoTermina(f.tam, size) THEN Fin(f, d, "lleno")
          ELSE Fin(z[V].f, z[V].d, IF z[V].fin \in Grave THEN z[V].fin ELSE "ok")
  <2> DEFINE A == size < R \/ d.libres * TB < size - R
             B == size >= R /\ d.libres * TB >= size - R
  <2>1. A <=> ~B
    <3>1. d.libres * TB \in Int /\ size - R \in Int
      BY SMTT(60), <1>1, <1>2, DiscoCampos, CardDatos
    <3> DEFINE l == d.libres * TB
    <3> HIDE DEF l, R
    <3> QED
      BY <1>1, <1>2, <3>1 DEF l
  <2>2. r = CASE A -> Fin(f, d, "sinEspacio")
              [] B /\ NoTermina(f.tam, size) -> Fin(f, d, "lleno")
              [] OTHER -> Fin(z[V].f, z[V].d, IF z[V].fin \in Grave THEN z[V].fin ELSE "ok")
    BY DEF DarleEspacio
  <2> HIDE DEF A, B, R, V, z, r
  <2>3. r = IF A THEN Fin(f, d, "sinEspacio")
            ELSE IF NoTermina(f.tam, size) THEN Fin(f, d, "lleno")
            ELSE Fin(z[V].f, z[V].d, IF z[V].fin \in Grave THEN z[V].fin ELSE "ok")
    BY <2>1, <2>2
  <2> QED
    BY <2>3 DEF A
<1>5. r.fin \notin Grave /\ Entero(f, d, k)
  OBVIOUS
<1>6. /\ V \in Nat
      /\ z \in [0..V -> Resultados] /\ z[0] = Fin(f, d, "ok")
      /\ \A i \in 1..V : z[i] = Agranda(f, z[i - 1], i)
  BY <1>1, VueltasTipo, AgrandadosDef
<1>7. size >= R /\ ~NoTermina(f.tam, size) =>
        n <= TB * (k + V) /\ (V > 0 => TB * (k + V - 1) <= n)
  BY <1>1, <1>2, <1>3, VueltasSon
<1>8. n <= TB * Lugares
  OBVIOUS
<1> HIDE DEF R, k, V, n, z, r
<1>9. CASE size < R \/ d.libres * TB < size - R
  <2>1. r = Fin(f, d, "sinEspacio")
    BY <1>4, <1>9
  <2> QED
    BY <2>1 DEF Fin, r
<1>10. CASE ~(size < R \/ d.libres * TB < size - R)
  <2>1. size >= R /\ ~NoTermina(f.tam, size)
    <3>1. ~NoTermina(f.tam, size)
      BY <1>4, <1>5, <1>10 DEF Fin, Grave
    <3> QED
      BY <1>1, <1>2, <1>10, <3>1
  <2>2. z[V].fin \notin Grave /\ r = Fin(z[V].f, z[V].d, "ok")
    BY <1>4, <1>5, <1>10, <2>1 DEF Fin
  <2>3. k + V - 1 <= Lugares
    <3>1. V > 0 => ~(Lugares < k + V - 1)
      <4> SUFFICES ASSUME V > 0, Lugares < k + V - 1 PROVE FALSE
        OBVIOUS
      <4>1. TB * Lugares + TB <= TB * (k + V - 1)
        BY <1>1, <1>3, <1>6, Multiplo
      <4>2. TB * Lugares \in Int /\ TB * (k + V - 1) \in Int
        BY <1>1, <1>3, <1>6
      <4> QED
        BY <1>1, <1>7, <1>8, <2>1, <4>1, <4>2
    <3> QED
      BY <1>1, <1>3, <1>6, <3>1
  <2>4. 0 \in S
    <3>1. Respeta(f, d, k, f, d, k)
      BY <1>3, <1>5, RespetaIgual
    <3>2. Quedan(0) = k
      BY <1>1, <1>3
    <3>3. z[0].f = f /\ z[0].d = d
      BY <1>6 DEF Fin
    <3> HIDE DEF Quedan
    <3> QED
      BY <1>6, <3>1, <3>2, <3>3
  <2>5. \A i \in 0..V - 1 : i \in S => i + 1 \in S
    <3> SUFFICES ASSUME NEW i \in 0..V - 1, i \in S PROVE i + 1 \in S
      OBVIOUS
    <3> DEFINE g == [z[i].f EXCEPT !.tam = f.tam + Resto(f.tam) + ((i + 1) - 1) * TB]
               m == k + i
    <3>1. i + 1 \in 0..V /\ i + 1 \in 1..V /\ (i + 1) - 1 = i /\ i \in 0..V
      BY <1>6
    <3>2. z[i + 1] = Agranda(f, z[i], i + 1)
      BY <1>6, <3>1
    <3>3. CASE z[i].fin \in Grave
      <4>1. z[i + 1] = z[i]
        BY <3>2, <3>3 DEF Agranda
      <4> QED
        BY <3>1, <3>3, <4>1
    <3>4. CASE z[i].fin \notin Grave
      <4>1. Va(z[i], i)
        BY <3>4
      <4>2. z[i].f \in Entrada /\ z[i].d \in Disco
        BY <1>6, <3>1 DEF Resultados
      <4>3. z[i + 1] = TomarYAgregar(g, z[i].d)
        BY <3>2, <3>4 DEF Agranda
      <4>4. m \in Nat /\ m <= Lugares
        BY <1>1, <1>3, <1>6, <2>3
      <4>5. TB * m \in Nat /\ f.tam + Resto(f.tam) + ((i + 1) - 1) * TB = TB * m
        <5>1. TB * (k + i) = TB * k + i * TB /\ TB * k \in Nat /\ i * TB \in Nat
          BY SMTT(60), <1>1, <1>3, <1>6
        <5> QED
          BY <1>1, <1>2, <3>1, <5>1 DEF R
      <4>6. g = [z[i].f EXCEPT !.tam = TB * m]
        BY <4>5
      <4> HIDE DEF g
      <4>7. g \in Entrada /\ g.tam = TB * m /\ g.ind = z[i].f.ind
        <5>1. g \in Entrada
          BY <4>2, <4>5, <4>6, EntradaConTam
        <5> HIDE DEF m
        <5> QED
          BY ZenonT(60), <4>2, <4>6, <5>1, EntradaCampos
      <4>8. Quedan(i) = m
        BY <4>4
      <4>9. Quedan(i + 1) = IF m < Lugares THEN m + 1 ELSE m
        BY SMTT(60), <1>1, <1>3, <1>6, <4>4
      <4>10. Respeta(f, d, k, z[i].f, z[i].d, m) /\ z[i].d.libres = d.libres
        <5> HIDE DEF Quedan
        <5> QED
          BY <4>1, <4>8
      <4>11. Respeta(f, d, k, g, z[i].d, m)
        BY <4>7, <4>10, SoloInd
      <4> HIDE DEF m, Quedan
      <4>12. CASE z[i + 1].fin \notin Grave
        <5>1. /\ z[i + 1].d.libres = z[i].d.libres
              /\ Respeta(f, d, k, z[i + 1].f, z[i + 1].d, IF m < Lugares THEN m + 1 ELSE m)
          BY <4>2, <4>3, <4>4, <4>7, <4>11, <4>12, AlDarVuelta
        <5>2. Va(z[i + 1], i + 1)
          BY <4>9, <4>10, <5>1
        <5> QED
          BY <3>1, <5>2
      <4>13. CASE z[i + 1].fin \in Grave
        BY <3>1, <4>13
      <4> QED
        BY <4>12, <4>13
    <3> QED
      BY <3>3, <3>4
  <2>6. 0..V \subseteq S
    <3> HIDE DEF S
    <3> QED
      BY <1>6, <2>4, <2>5, InduccionHasta
  <2>7. Va(z[V], V)
    <3>1. V \in 0..V
      BY <1>6
    <3> HIDE DEF Va
    <3> QED
      BY <2>2, <2>6, <3>1
  <2>8. Cuantas(n) <= Quedan(V) /\ Quedan(V) \in Nat
    <3>1. Cuantas(n) <= k + V
      <4>1. k + V \in Nat \ {0}
        BY <1>3, <1>6
      <4> QED
        BY <1>1, <1>7, <2>1, <4>1, CuantasHasta
    <3> QED
      BY <1>1, <1>3, <1>6, <3>1
  <2>9. Respeta(f, d, k, z[V].f, z[V].d, Cuantas(n)) /\ z[V].d.libres = d.libres
    <3> HIDE DEF Quedan
    <3> QED
      BY <1>3, <2>7, <2>8, RespetaMenos
  <2>10. r.f = z[V].f /\ r.d = z[V].d /\ r.fin = "ok"
    BY <2>2 DEF Fin
  <2> QED
    BY <2>9, <2>10 DEF r, k, n
<1> QED
  BY <1>9, <1>10

-----------------------------------------------------------------------------
(* Writing.  The room in the last block, none when it is full.             *)
LEMMA EspacioEs ==
    ASSUME NEW t \in Nat
    PROVE  /\ EspacioEnBloque(t) \in 0..TB
           /\ t + EspacioEnBloque(t) = TB * Cuantas(t)
<1> DEFINE E == EspacioEnBloque(t)
           R == Resto(t)
           y == t % TB
<1>1. TB \in Nat \ {0}
  BY SacBloquesAssumption
<1>2. E \in 0..TB
  BY EspacioTipo
<1>3. CASE t = 0
  <2>1. E = TB /\ Cuantas(t) = 1
    BY <1>3, CuantasSon DEF EspacioEnBloque
  <2> HIDE DEF E
  <2> QED
    BY <1>1, <1>2, <1>3, <2>1 DEF E
<1>4. CASE t # 0 /\ y = 0
  <2> DEFINE x == t \div TB
  <2>1. x \in Nat /\ t = TB * x + y
    BY <1>1, DivTipo, DivResto
  <2>2. R = TB
    BY <1>1, <1>4 DEF Resto
  <2>3. (TB * 1 + 0) % TB = 0
    BY <1>1, DivUnico
  <2>4. E = 0
    BY <1>1, <1>4, <2>2, <2>3 DEF EspacioEnBloque
  <2> HIDE DEF x, E, R, y
  <2>5. t = TB * x /\ x # 0
    BY <1>1, <1>4, <2>1
  <2>6. t <= TB * x /\ TB * (x - 1) < t /\ x \in Nat \ {0}
    BY <1>1, <2>1, <2>5
  <2>7. Cuantas(t) = x
    BY <2>6, CuantasExactas
  <2> QED
    BY <1>2, <2>4, <2>5, <2>7 DEF E
<1>5. CASE t # 0 /\ y # 0
  <2>1. R = TB - y /\ y \in 0..TB - 1
    BY <1>1, DivResto DEF Resto
  <2>2. t + R = TB * Cuantas(t)
    BY <1>5, RestoCuantas
  <2>3. (TB * 0 + (TB - y)) % TB = TB - y
    <3>1. TB - y \in 0..TB - 1 /\ 0 \in Int
      BY <1>1, <1>5, <2>1
    <3> HIDE DEF y
    <3> QED
      BY <1>1, <3>1, DivUnico
  <2>4. E = R % TB
    BY <1>5 DEF EspacioEnBloque
  <2> HIDE DEF E, R, y
  <2>5. E = R
    BY <1>1, <2>1, <2>3, <2>4
  <2> QED
    BY <1>2, <2>2, <2>5 DEF E
<1> QED
  BY <1>3, <1>4, <1>5

(* Of a write of n bytes at off, inside one block: whether it needs a new  *)
(* block, how many bytes the first round writes and the size it leaves.    *)
LEMMA EscribeCuenta ==
    ASSUME NEW t \in Nat, NEW off \in Nat, NEW n \in Nat \ {0}, off <= t,
           (off % TB) + n <= TB
    PROVE  LET E == EspacioEnBloque(t)
               K == Cuantas(t)
               q == off \div TB
               pide == t # 0 /\ off >= t + E
               u == NuevoTam(t, off, n, IF pide THEN TB ELSE E)
               k == Cuantos(n, IF pide THEN TB ELSE E)
           IN  /\ q \in Nat
               /\ pide => t = TB * K /\ q = K /\ k = n /\ u = off + n /\ Cuantas(u) <= K + 1
               /\ ~pide => /\ q < K
                           /\ \/ k = n /\ u \in {t, off + n} /\ Cuantas(u) <= K
                              \/ k = E /\ E < n /\ n < TB /\ off < t /\ u = TB * K
<1> DEFINE E == EspacioEnBloque(t)
           K == Cuantas(t)
           q == off \div TB
           y == off % TB
           pide == t # 0 /\ off >= t + E
           lugar == IF pide THEN TB ELSE E
           u == NuevoTam(t, off, n, lugar)
           k == Cuantos(n, lugar)
<1>1. TB \in Nat \ {0}
  BY SacBloquesAssumption
<1>2. E \in 0..TB /\ t + E = TB * K
  BY EspacioEs
<1>3. q \in Nat
  BY <1>1, DivTipo
<1>4. y \in 0..TB - 1 /\ off = TB * q + y
  BY <1>1, DivResto
<1>5. K \in Nat \ {0} /\ (t = 0 => K = 1)
  BY CuantasSon
<1>6. y + n <= TB
  OBVIOUS
<1>7. u = IF n >= TB THEN IF t <= off THEN t + TB ELSE t
          ELSE IF n <= lugar THEN IF t <= off THEN t + n ELSE Max({t, off + n})
          ELSE t + lugar
  <2>1. lugar \in Nat
    BY <1>1, <1>2
  <2> HIDE DEF lugar
  <2> QED
    BY <1>1, <2>1 DEF NuevoTam
<1>8. k = IF n <= lugar \/ n >= TB THEN n ELSE lugar
  BY DEF Cuantos
<1>9. Max({t, off + n}) = IF t >= off + n THEN t ELSE off + n
  BY MaxDeDos
<1>10. off < TB * K => q < K
  BY <1>1, <1>5, DivEntre
<1>11. (TB * K + 0) \div TB = K /\ (TB * K + 0) % TB = 0
  <2>1. 0 \in 0..TB - 1 /\ K \in Int
    BY <1>1, <1>5
  <2> HIDE DEF K
  <2> QED
    BY <1>1, <2>1, DivUnico
<1>12. t \in Nat => (t <= TB * K => Cuantas(t) <= K)
  BY <1>5, CuantasHasta
<1>13. off + n <= TB * K => Cuantas(off + n) <= K
  BY <1>5, CuantasHasta
<1>14. off + n <= TB * (K + 1) => Cuantas(off + n) <= K + 1
  BY <1>5, CuantasHasta
<1>15. TB * K \in Nat /\ TB * (K + 1) = TB * K + TB
  BY <1>1, <1>5
<1>16. off = TB * K => q = K /\ y = 0
  BY <1>11, <1>15
<1> HIDE DEF E, K, q, y, pide, lugar, u, k
<1>17. CASE pide
  <2>1. t # 0 /\ off >= t + E /\ lugar = TB
    BY <1>17 DEF pide, lugar
  <2>2. off = t /\ E = 0 /\ off = TB * K
    BY <1>1, <1>2, <2>1
  <2>3. q = K /\ n <= TB
    BY <1>1, <1>6, <1>16, <2>2
  <2>4. k = n /\ u = off + n
    BY <1>1, <1>7, <1>8, <2>1, <2>2, <2>3
  <2>5. Cuantas(u) <= K + 1
    BY <1>1, <1>14, <1>15, <2>2, <2>3, <2>4
  <2> QED
    BY <1>3, <1>17, <2>2, <2>3, <2>4, <2>5 DEF E, K, q, pide, lugar, u, k
<1>18. CASE ~pide
  <2>1. lugar = E
    BY <1>18 DEF lugar
  <2>2. off < TB * K
    <3>1. t = 0 \/ off < t + E
      BY <1>1, <1>2, <1>18 DEF pide
    <3> QED
      BY <1>1, <1>2, <1>5, <3>1
  <2>3. q < K
    BY <1>10, <2>2
  <2>4. off + n <= TB * K
    <3>1. TB * (q + 1) <= TB * K
      <4>1. q + 1 < K => TB * (q + 1) + TB <= TB * K
        BY <1>1, <1>3, <1>5, Multiplo
      <4>2. q + 1 = K => TB * (q + 1) = TB * K
        OBVIOUS
      <4>3. TB * (q + 1) \in Nat
        BY <1>1, <1>3
      <4> QED
        BY <1>1, <1>3, <1>5, <1>15, <2>3, <4>1, <4>2, <4>3
    <3>2. TB * (q + 1) = TB * q + TB /\ TB * q \in Nat
      BY <1>1, <1>3
    <3> QED
      BY <1>1, <1>4, <1>6, <1>15, <3>1, <3>2
  <2>5. t <= TB * K
    BY <1>1, <1>2, <1>15
  <2>6. Cuantas(t) <= K /\ Cuantas(off + n) <= K
    BY <1>12, <1>13, <2>4, <2>5
  <2>7. CASE n <= E \/ n >= TB
    <3>1. k = n
      BY <1>8, <2>1, <2>7
    <3>2. n >= TB => n = TB
      BY <1>1, <1>4, <1>6
    <3>3. u \in {t, off + n}
      BY <1>1, <1>2, <1>7, <1>9, <2>1, <2>7, <3>2
    <3> QED
      BY <1>3, <1>18, <2>3, <2>6, <3>1, <3>3 DEF E, K, q, pide, lugar, u, k
  <2>8. CASE ~(n <= E \/ n >= TB)
    <3>1. k = E /\ E < n /\ n < TB /\ u = t + E
      BY <1>1, <1>2, <1>7, <1>8, <2>1, <2>8
    <3>2. off < t
      BY <1>1, <1>2, <1>15, <2>4, <3>1
    <3> QED
      BY <1>2, <1>3, <1>18, <2>3, <3>1, <3>2 DEF E, K, q, pide, lugar, u, k
  <2> QED
    BY <2>7, <2>8
<1> QED
  BY <1>17, <1>18

(* Bytes written in the block of a position: all else stays.               *)
LEMMA AlPoner ==
    ASSUME NEW f \in Entrada, NEW d \in Disco, NEW k \in Nat, k <= PB * P, Entero(f, d, k),
           NEW q \in 0..k - 1, NEW v, NEW e, e.usados = d.usados,
           e.cont = [d.cont EXCEPT ![Numero(f, d, q)] = v]
    PROVE  /\ Respeta(f, d, k, f, e, k)
           /\ \A s \in 0..k - 1 : Numero(f, e, s) = Numero(f, d, s)
           /\ e.cont[Numero(f, d, q)] = v
           /\ \A s \in 0..k - 1 : s # q =>
                e.cont[Numero(f, d, s)] = d.cont[Numero(f, d, s)]
<1> DEFINE b == Numero(f, d, q)
<1>1. d.usados \subseteq Datos /\ DOMAIN d.cont = Datos
      /\ f.ind \in [0..PB - 1 -> Datos \cup {Cabecera}]
  BY DiscoCampos, EntradaCampos
<1>2. b \in d.usados /\ b \in BloquesEn(f, d, k)
  BY DEF Entero, BloquesEn
<1>3. /\ \A x \in Datos : x # b => e.cont[x] = d.cont[x]
      /\ e.cont[b] = v
  BY <1>1, <1>2
<1> DEFINE m == PB * P
<1>4. \A s \in 0..k - 1 : s \in Nat /\ s < m
  <2>1. m \in Nat /\ k <= m
    BY SacBloquesAssumption
  <2> HIDE DEF m
  <2> QED
    BY <2>1
<1>5. \A s \in 0..k - 1 :
        /\ s \div P \in 0..PB - 1 /\ f.ind[s \div P] \in Datos
        /\ f.ind[s \div P] # b /\ Numero(f, d, s) \in Datos
        /\ Numero(f, d, s) = b => s = q
  <2> SUFFICES ASSUME NEW s \in 0..k - 1
               PROVE  /\ s \div P \in 0..PB - 1 /\ f.ind[s \div P] \in Datos
                      /\ f.ind[s \div P] # b /\ Numero(f, d, s) \in Datos
                      /\ Numero(f, d, s) = b => s = q
    OBVIOUS
  <2>1. s \div P \in 0..PB - 1
    BY SMTT(60), <1>4, PunteroEntra
  <2> QED
    BY <1>1, <2>1 DEF Entero
<1> HIDE DEF m, b
<1>6. \A s \in 0..k - 1 : Numero(f, e, s) = Numero(f, d, s)
  <2> SUFFICES ASSUME NEW s \in 0..k - 1 PROVE Numero(f, e, s) = Numero(f, d, s)
    OBVIOUS
  <2>1. f.ind[s \div P] \in Datos /\ f.ind[s \div P] # b
    BY <1>5
  <2> QED
    BY ZenonT(60), <1>3, <2>1 DEF Numero
<1>7. Entero(f, e, k)
  BY <1>6 DEF Entero
<1>8. BloquesEn(f, e, k) = BloquesEn(f, d, k)
  BY <1>6 DEF BloquesEn
<1>9. \A x \in d.usados \ BloquesEn(f, d, k) : e.cont[x] = d.cont[x]
  BY <1>1, <1>2, <1>3
<1>10. Respeta(f, d, k, f, e, k)
  BY <1>7, <1>8, <1>9 DEF Respeta
<1> QED
  BY <1>3, <1>5, <1>6, <1>10 DEF b

(* Value v put where position q of f is, on disk d, gives e.               *)
Puesto(f, d, k, q, v, e) ==
    e.usados = d.usados /\ e.cont = [d.cont EXCEPT ![Numero(f, d, q)] = v] =>
    /\ Respeta(f, d, k, f, e, k)
    /\ \A s \in 0..k - 1 : Numero(f, e, s) = Numero(f, d, s)
    /\ e.cont[Numero(f, d, q)] = v
    /\ \A s \in 0..k - 1 : s # q =>
         e.cont[Numero(f, d, s)] = d.cont[Numero(f, d, s)]

(* The same, of every disk.                                                *)
LEMMA AlPonerlo ==
    ASSUME NEW f \in Entrada, NEW d \in Disco, NEW k \in Nat, k <= PB * P, Entero(f, d, k)
    PROVE  \A q \in 0..k - 1 : \A v, e : Puesto(f, d, k, q, v, e)
<1> SUFFICES ASSUME NEW q \in 0..k - 1, NEW v, NEW e PROVE Puesto(f, d, k, q, v, e)
  OBVIOUS
<1> DEFINE pone == e.usados = d.usados /\ e.cont = [d.cont EXCEPT ![Numero(f, d, q)] = v]
           queda == /\ Respeta(f, d, k, f, e, k)
                    /\ \A s \in 0..k - 1 : Numero(f, e, s) = Numero(f, d, s)
                    /\ e.cont[Numero(f, d, q)] = v
                    /\ \A s \in 0..k - 1 : s # q =>
                         e.cont[Numero(f, d, s)] = d.cont[Numero(f, d, s)]
<1>1. ASSUME pone PROVE queda
  BY SMTT(60), <1>1, AlPoner
<1>2. Puesto(f, d, k, q, v, e) = (pone => queda)
  BY DEF Puesto
<1> HIDE DEF pone, queda
<1> QED
  BY <1>1, <1>2

(* Where a round writes, and the file and the disk with that block in it.  *)
Agregado(f, d, k, y) ==
    /\ Respeta(f, d, k, y.f, y.d, k + 1)
    /\ y.fin = "ok" /\ y.f.tam = f.tam /\ y.d.libres = d.libres
    /\ Libre(d) \in Datos \ d.usados /\ Numero(y.f, y.d, k) = Libre(d)
    /\ \A s \in 0..k - 1 :
         /\ Numero(y.f, y.d, s) = Numero(f, d, s)
         /\ y.d.cont[Numero(f, d, s)] = d.cont[Numero(f, d, s)]

LEMMA AlAgregarUno ==
    ASSUME NEW f \in Entrada, NEW d \in Disco, NEW k \in Nat, k < Lugares,
           f.tam = TB * k, Entero(f, d, k), TomarYAgregar(f, d).fin \notin Grave
    PROVE  Agregado(f, d, k, TomarYAgregar(f, d))
<1>1. k < PB * P - 1
  BY DEF Lugares
<1> QED
  BY <1>1, AlAgregar DEF Agregado

LEMMA AlDestinar ==
    ASSUME NEW r \in Escrituras, r.off \div TB \in Nat, NEW K, K = Cuantas(r.f.tam),
           K <= Lugares, Entero(r.f, r.d, K), r.d.libres > 0,
           PideBloque(r) => r.f.tam = TB * K /\ r.off \div TB = K /\ K < Lugares,
           ~PideBloque(r) => r.off \div TB < K,
           Destino(r).fin \notin Grave
    PROVE  LET x == Destino(r)
               q == r.off \div TB
               L == IF PideBloque(r) THEN K + 1 ELSE K
           IN  /\ x.fin = "ok" /\ x.f \in Entrada /\ x.d \in Disco
               /\ x.f.tam = r.f.tam /\ x.d.libres = r.d.libres
               /\ Respeta(r.f, r.d, K, x.f, x.d, L)
               /\ q \in 0..L - 1 /\ x.b = Numero(x.f, x.d, q)
               /\ \A s \in 0..K - 1 :
                    /\ Numero(x.f, x.d, s) = Numero(r.f, r.d, s)
                    /\ x.d.cont[Numero(r.f, r.d, s)] = r.d.cont[Numero(r.f, r.d, s)]
<1> DEFINE x == Destino(r)
           q == r.off \div TB
           y == TomarYAgregar(r.f, r.d)
           b == Numero(r.f, r.d, q)
           pide == PideBloque(r)
<1>1. r.f \in Entrada /\ r.d \in Disco /\ r.f.tam \in Nat
  BY EntradaCampos DEF Escrituras
<1>2. x.f \in Entrada /\ x.d \in Disco
  BY DestinoTipo DEF Resultado
<1>3. K \in Nat \ {0}
  BY <1>1, CuantasSon
<1>4. q \in Nat /\ (pide => r.f.tam = TB * K /\ q = K /\ K < Lugares) /\ (~pide => q < K)
  OBVIOUS
<1>5. x.fin \notin Grave
  OBVIOUS
<1>6. pide => /\ x.f = y.f /\ x.d = y.d /\ x.fin = y.fin
              /\ x.b = IF r.d.usados = Datos THEN 0 ELSE Libre(r.d)
  <2>1. r.d.libres # 0
    BY <1>1, DiscoCampos, CardDatos
  <2> QED
    BY <2>1 DEF Destino
<1>7. ~pide => x.f = r.f /\ x.d = r.d /\ x.fin = Juicio({b}) /\ x.b = b
  BY DEF Destino
<1> HIDE DEF x, q, y, b, pide
<1>8. CASE pide
  <2>1. K \in Nat /\ K < Lugares /\ r.f.tam = TB * K /\ Entero(r.f, r.d, K)
    BY <1>3, <1>4, <1>8
  <2>2. y.fin \notin Grave
    BY <1>5, <1>6, <1>8
  <2>3. Agregado(r.f, r.d, K, y)
    BY <1>1, <2>1, <2>2, AlAgregarUno DEF y
  <2>4. r.d.usados # Datos
    BY <2>3 DEF Agregado
  <2>5. q \in 0..(K + 1) - 1
    BY <1>3, <1>4, <1>8
  <2>6. x.b = Numero(x.f, x.d, q)
    BY <1>4, <1>6, <1>8, <2>3, <2>4 DEF Agregado
  <2>7. /\ Respeta(r.f, r.d, K, x.f, x.d, K + 1)
        /\ x.fin = "ok" /\ x.f.tam = r.f.tam /\ x.d.libres = r.d.libres
        /\ \A s \in 0..K - 1 :
             /\ Numero(x.f, x.d, s) = Numero(r.f, r.d, s)
             /\ x.d.cont[Numero(r.f, r.d, s)] = r.d.cont[Numero(r.f, r.d, s)]
    BY <1>6, <1>8, <2>3 DEF Agregado
  <2> QED
    BY <1>2, <1>8, <2>5, <2>6, <2>7 DEF x, q, pide
<1>9. CASE ~pide
  <2>1. x.fin = "ok"
    BY <1>5, <1>7, <1>9 DEF Juicio, Grave
  <2>2. q \in 0..K - 1
    BY <1>3, <1>4, <1>9
  <2>3. Respeta(r.f, r.d, K, r.f, r.d, K)
    BY <1>3, RespetaIgual
  <2> QED
    BY <1>2, <1>7, <1>9, <2>1, <2>2, <2>3 DEF x, q, b, pide
<1> QED
  BY <1>8, <1>9

LEMMA ConTam ==
    ASSUME NEW f \in Entrada, NEW t
    PROVE  [f EXCEPT !.tam = t].ind = f.ind /\ [f EXCEPT !.tam = t].tam = t
           /\ [f EXCEPT !.tam = t].estado = f.estado
<1>1. f = [estado |-> f.estado, nombre |-> f.nombre, padre |-> f.padre,
           tam |-> f.tam, ind |-> f.ind]
  BY EntradaCampos
<1>2. [f EXCEPT !.tam = t] =
        [estado |-> f.estado, nombre |-> f.nombre, padre |-> f.padre,
         tam |-> t, ind |-> f.ind]
  BY <1>1
<1> QED
  BY <1>2

LEMMA ConCont ==
    ASSUME NEW d \in Disco, NEW c
    PROVE  /\ [d EXCEPT !.cont = c].usados = d.usados
           /\ [d EXCEPT !.cont = c].libres = d.libres
           /\ [d EXCEPT !.cont = c].cont = c
<1>1. d = [usados |-> d.usados, libres |-> d.libres, cont |-> d.cont]
  BY DiscoCampos
<1>2. [d EXCEPT !.cont = c] = [usados |-> d.usados, libres |-> d.libres, cont |-> c]
  BY <1>1
<1> QED
  BY <1>2

LEMMA AsientaEs ==
    ASSUME NEW r \in Escrituras, NEW x, x.f \in Entrada, x.d \in Disco, NEW lugar \in Nat
    PROVE  LET y == Asienta(r, x, lugar)
               k == Cuantos(r.n, lugar)
               tam == NuevoTam(x.f.tam, r.off, r.n, lugar)
           IN  /\ y.f.ind = x.f.ind /\ y.f.tam = tam
               /\ y.d.usados = x.d.usados /\ y.d.libres = x.d.libres
               /\ y.d.cont = [x.d.cont EXCEPT ![x.b] = Bytes(r.off \div TB)]
               /\ y.tam = IF tam # x.f.tam THEN tam ELSE r.tam
               /\ y.off = r.off + k /\ y.n = r.n - k
               /\ y.fin = IF k = r.n THEN "ok" ELSE IF k = 0 THEN "colgado" ELSE "sigue"
<1> DEFINE k == Cuantos(r.n, lugar)
           tam == NuevoTam(x.f.tam, r.off, r.n, lugar)
           cont == [x.d.cont EXCEPT ![x.b] = Bytes(r.off \div TB)]
           fin == IF k = r.n THEN "ok" ELSE IF k = 0 THEN "colgado" ELSE "sigue"
           t == IF tam # x.f.tam THEN tam ELSE r.tam
           y == Asienta(r, x, lugar)
<1>1. [x.d EXCEPT !.cont[x.b] = Bytes(r.off \div TB)] = [x.d EXCEPT !.cont = cont]
  BY DiscoCampos
<1> DEFINE g == [x.f EXCEPT !.tam = tam]
           e == [x.d EXCEPT !.cont = cont]
<1>2. y = [f |-> g, d |-> e, tam |-> t, off |-> r.off + k, n |-> r.n - k, fin |-> fin]
  BY <1>1 DEF Asienta
<1> HIDE DEF k, tam, cont, fin, t, y
<1>3. g.ind = x.f.ind /\ g.tam = tam
  BY ConTam
<1>4. e.usados = x.d.usados /\ e.libres = x.d.libres /\ e.cont = cont
  BY ConCont
<1> HIDE DEF g, e
<1>5. /\ y.f = g /\ y.d = e /\ y.tam = t /\ y.off = r.off + k /\ y.n = r.n - k
      /\ y.fin = fin
  BY <1>2
<1>6. /\ y.f.ind = x.f.ind /\ y.f.tam = tam
      /\ y.d.usados = x.d.usados /\ y.d.libres = x.d.libres /\ y.d.cont = cont
      /\ y.tam = t /\ y.off = r.off + k /\ y.n = r.n - k /\ y.fin = fin
  BY <1>3, <1>4, <1>5
<1> QED
  BY <1>6 DEF k, tam, cont, fin, t, y

(* What a write of n bytes at off does, and when it never ends: after a    *)
(* round that fills the last block there is no room left, and the next one *)
(* writes nothing.                                                         *)
Escrito(f, d, off, n, r) ==
    LET k == Cuantas(f.tam)
        q == off \div TB
    IN  /\ r.d.libres = d.libres
        /\ r.f.tam \in {f.tam, off + n}
        /\ Respeta(f, d, k, r.f, r.d, Cuantas(r.f.tam))
        /\ r.d.cont[Numero(r.f, r.d, q)] = Bytes(q)
        /\ \A s \in 0..k - 1 : s # q =>
                r.d.cont[Numero(f, d, s)] = d.cont[Numero(f, d, s)]

LEMMA VueltaVacia ==
    ASSUME NEW r \in Escrituras, NEW K \in Nat \ {0}, r.tam = TB * K, r.off < TB * K,
           r.n \in 1..TB - 1
    PROVE  Vuelta(r).fin \in Grave
<1>1. TB \in Nat \ {0} /\ r.tam \in Nat /\ r.off \in Nat
  BY SacBloquesAssumption DEF Escrituras
<1>2. EspacioEnBloque(r.tam) = 0
  <2>1. TB * (K - 1) < r.tam /\ r.tam <= TB * K
    BY <1>1
  <2>2. Cuantas(r.tam) = K
    BY <1>1, <2>1, CuantasExactas
  <2>3. EspacioEnBloque(r.tam) \in 0..TB /\ r.tam + EspacioEnBloque(r.tam) = r.tam
    BY <1>1, <2>2, EspacioEs
  <2> QED
    BY <1>1, <2>3
<1>3. ~PideBloque(r)
  BY <1>1, <1>2 DEF PideBloque
<1>4. Lugar(r) = 0
  BY <1>2, <1>3 DEF Lugar
<1>5. Cuantos(r.n, 0) = 0 /\ r.n # 0
  BY <1>1 DEF Cuantos
<1>6. Destino(r).fin \in Grave \cup {"ok"}
  BY <1>3 DEF Destino, Juicio, Grave
<1>7. CASE Destino(r).fin = "ok"
  <2>1. Asienta(r, Destino(r), 0).fin = "colgado"
    BY ZenonT(60), <1>5 DEF Asienta
  <2> QED
    BY <1>4, <1>7, <2>1 DEF Vuelta, Grave
<1>8. CASE Destino(r).fin # "ok"
  <2>1. Vuelta(r) = [r EXCEPT !.f = Destino(r).f, !.d = Destino(r).d, !.fin = Destino(r).fin]
    BY <1>8 DEF Vuelta
  <2>2. Vuelta(r).fin = Destino(r).fin
    <3> DEFINE x == Destino(r)
    <3>1. Vuelta(r) = [r EXCEPT !.f = x.f, !.d = x.d, !.fin = x.fin]
      BY <2>1
    <3> HIDE DEF x
    <3>2. Vuelta(r).fin = x.fin
      BY <3>1 DEF Escrituras
    <3> QED
      BY <3>2 DEF x
  <2> QED
    BY <1>6, <1>8, <2>2
<1> QED
  BY <1>7, <1>8

LEMMA VueltaEs ==
    ASSUME NEW r \in Escrituras, r.tam = r.f.tam, r.off <= r.tam, r.n # 0,
           (r.off % TB) + r.n <= TB, r.off + r.n <= TB * Lugares,
           Cuantas(r.tam) <= Lugares, Entero(r.f, r.d, Cuantas(r.tam)), r.d.libres > 0,
           Vuelta(r).fin \notin Grave
    PROVE  LET y == Vuelta(r) IN
           \/ y.fin = "ok" /\ Escrito(r.f, r.d, r.off, r.n, y)
           \/ /\ y.fin = "sigue" /\ y.tam = TB * Cuantas(r.tam)
              /\ y.off < TB * Cuantas(r.tam) /\ y.n \in 1..TB - 1
<1> DEFINE y == Vuelta(r)
           x == Destino(r)
           K == Cuantas(r.tam)
           E == EspacioEnBloque(r.tam)
           q == r.off \div TB
           pide == PideBloque(r)
           lugar == Lugar(r)
           u == NuevoTam(r.tam, r.off, r.n, lugar)
           k == Cuantos(r.n, lugar)
           L == IF pide THEN K + 1 ELSE K
<1>1. /\ r.f \in Entrada /\ r.d \in Disco /\ r.tam \in Nat /\ r.off \in Nat
      /\ r.n \in Nat \ {0} /\ TB \in Nat \ {0} /\ K \in Nat \ {0}
  <2>1. /\ r.f \in Entrada /\ r.d \in Disco /\ r.tam \in Nat /\ r.off \in Nat
        /\ r.n \in Nat \ {0} /\ TB \in Nat \ {0}
    BY SacBloquesAssumption DEF Escrituras
  <2> QED
    BY <2>1, CuantasSon
<1>2. lugar = IF pide THEN TB ELSE E
  BY DEF Lugar
<1>3. pide <=> r.tam # 0 /\ r.off >= r.tam + E
  BY DEF PideBloque
<1>4. /\ q \in Nat
      /\ pide => r.tam = TB * K /\ q = K /\ k = r.n /\ u = r.off + r.n /\ Cuantas(u) <= K + 1
      /\ ~pide => /\ q < K
                  /\ \/ k = r.n /\ u \in {r.tam, r.off + r.n} /\ Cuantas(u) <= K
                     \/ k = E /\ E < r.n /\ r.n < TB /\ r.off < r.tam /\ u = TB * K
  <2> DEFINE otro == r.tam # 0 /\ r.off >= r.tam + E
             l == IF otro THEN TB ELSE E
             v == NuevoTam(r.tam, r.off, r.n, l)
             j == Cuantos(r.n, l)
  <2>1. /\ q \in Nat
        /\ otro => r.tam = TB * K /\ q = K /\ j = r.n /\ v = r.off + r.n /\ Cuantas(v) <= K + 1
        /\ ~otro => /\ q < K
                    /\ \/ j = r.n /\ v \in {r.tam, r.off + r.n} /\ Cuantas(v) <= K
                       \/ j = E /\ E < r.n /\ r.n < TB /\ r.off < r.tam /\ v = TB * K
    BY SMTT(60), <1>1, EscribeCuenta
  <2>2. otro <=> pide
    BY <1>3
  <2> HIDE DEF pide, otro, E, K, q
  <2>3. l = lugar
    BY <1>2, <2>2
  <2> HIDE DEF l, lugar
  <2> QED
    BY <2>1, <2>2, <2>3
<1>5. E \in 0..TB /\ r.tam + E = TB * K
  BY <1>1, EspacioEs
<1>6. pide => K < Lugares
  <2> SUFFICES ASSUME pide, ~(K < Lugares) PROVE FALSE
    OBVIOUS
  <2>1. K = Lugares /\ r.off >= r.tam /\ r.tam = TB * K
    <3>1. K <= Lugares /\ K \in Int /\ Lugares \in Int
      BY <1>1, LugaresSon
    <3>2. r.off >= r.tam + E
      BY <1>3
    <3> HIDE DEF pide, K, E
    <3> QED
      BY <1>1, <1>4, <1>5, <3>1, <3>2
  <2>2. r.off + r.n <= TB * Lugares
    OBVIOUS
  <2> HIDE DEF K
  <2> QED
    BY <1>1, <2>1, <2>2
<1>7. y.fin \notin Grave /\ r.f.tam = r.tam
  OBVIOUS
<1>8. x.fin \notin Grave
  <2> SUFFICES ASSUME x.fin \in Grave PROVE FALSE
    OBVIOUS
  <2>1. x.fin # "ok"
    BY DEF Grave
  <2> HIDE DEF x
  <2>2. y = [r EXCEPT !.f = x.f, !.d = x.d, !.fin = x.fin]
    BY <2>1 DEF Vuelta, x
  <2>3. y.fin = x.fin
    <3> HIDE DEF y
    <3> QED
      BY <2>2 DEF Escrituras
  <2> QED
    BY <1>7, <2>3
<1>9. /\ x.fin = "ok" /\ x.f \in Entrada /\ x.d \in Disco
      /\ x.f.tam = r.f.tam /\ x.d.libres = r.d.libres
      /\ Respeta(r.f, r.d, K, x.f, x.d, L)
      /\ q \in 0..L - 1 /\ x.b = Numero(x.f, x.d, q)
      /\ \A s \in 0..K - 1 :
           /\ Numero(x.f, x.d, s) = Numero(r.f, r.d, s)
           /\ x.d.cont[Numero(r.f, r.d, s)] = r.d.cont[Numero(r.f, r.d, s)]
  <2>1. K = Cuantas(r.f.tam) /\ K <= Lugares /\ Entero(r.f, r.d, K) /\ r.d.libres > 0
    BY <1>7
  <2>2. pide => r.f.tam = TB * K /\ q = K /\ K < Lugares
    BY <1>4, <1>6, <1>7
  <2>3. ~pide => q < K
    BY <1>4
  <2> HIDE DEF K
  <2> QED
    BY <1>4, <1>8, <2>1, <2>2, <2>3, AlDestinar
<1>10. lugar \in Nat
  BY <1>1, <1>2, <1>5
<1>11. y = Asienta(r, x, lugar)
  BY <1>9 DEF Vuelta
<1>12. /\ y.f.ind = x.f.ind /\ y.f.tam = u
       /\ y.d.usados = x.d.usados /\ y.d.libres = x.d.libres
       /\ y.d.cont = [x.d.cont EXCEPT ![x.b] = Bytes(q)]
       /\ y.tam = IF u # r.tam THEN u ELSE r.tam
       /\ y.off = r.off + k /\ y.n = r.n - k
       /\ y.fin = IF k = r.n THEN "ok" ELSE IF k = 0 THEN "colgado" ELSE "sigue"
  <2> HIDE DEF x, y, q, lugar
  <2>1. /\ y.f.ind = x.f.ind /\ y.f.tam = NuevoTam(x.f.tam, r.off, r.n, lugar)
        /\ y.d.usados = x.d.usados /\ y.d.libres = x.d.libres
        /\ y.d.cont = [x.d.cont EXCEPT ![x.b] = Bytes(r.off \div TB)]
        /\ y.tam = IF NuevoTam(x.f.tam, r.off, r.n, lugar) # x.f.tam
                   THEN NuevoTam(x.f.tam, r.off, r.n, lugar) ELSE r.tam
        /\ y.off = r.off + Cuantos(r.n, lugar) /\ y.n = r.n - Cuantos(r.n, lugar)
        /\ y.fin = IF Cuantos(r.n, lugar) = r.n THEN "ok"
                   ELSE IF Cuantos(r.n, lugar) = 0 THEN "colgado" ELSE "sigue"
    BY <1>9, <1>10, <1>11, AsientaEs
  <2>2. x.f.tam = r.tam
    BY <1>7, <1>9
  <2> QED
    BY <2>1, <2>2 DEF q
<1>13. L <= PB * P /\ L \in Nat
  <2>1. Lugares \in Nat /\ Lugares < PB * P
    BY LugaresSon
  <2>2. L <= Lugares /\ L \in Nat
    <3>1. K <= Lugares
      OBVIOUS
    <3> HIDE DEF K, pide
    <3> QED
      BY <1>1, <1>6, <2>1, <3>1
  <2> DEFINE m == PB * P
  <2>3. m \in Nat
    BY SacBloquesAssumption
  <2> HIDE DEF L, m
  <2>4. Lugares < m
    BY <2>1 DEF m
  <2>5. L <= m
    BY <2>1, <2>2, <2>3, <2>4
  <2> QED
    BY <2>2, <2>5 DEF m
<1> HIDE DEF y, x, K, E, q, pide, lugar, u, k
<1>14. CASE k = r.n
  <2>1. y.fin = "ok" /\ u \in {r.tam, r.off + r.n} /\ Cuantas(u) <= L
    BY <1>1, <1>4, <1>5, <1>12, <1>14
  <2>2. Cuantas(u) \in Nat
    <3>1. u \in Nat
      BY <1>1, <2>1
    <3> QED
      BY <3>1, CuantasSon
  <2> DEFINE e == y.d
  <2>3. /\ Respeta(x.f, x.d, L, x.f, e, L)
        /\ \A s \in 0..L - 1 : Numero(x.f, e, s) = Numero(x.f, x.d, s)
        /\ e.cont[Numero(x.f, x.d, q)] = Bytes(q)
        /\ \A s \in 0..L - 1 : s # q =>
             e.cont[Numero(x.f, x.d, s)] = x.d.cont[Numero(x.f, x.d, s)]
    <3>1. Entero(x.f, x.d, L)
      BY <1>9 DEF Respeta
    <3>2. e.usados = x.d.usados
          /\ e.cont = [x.d.cont EXCEPT ![Numero(x.f, x.d, q)] = Bytes(q)]
      BY <1>9, <1>12
    <3> DEFINE g == x.f
               h == x.d
               z == Bytes(q)
               j == e
    <3>3. /\ g \in Entrada /\ h \in Disco /\ L \in Nat /\ L <= PB * P /\ Entero(g, h, L)
          /\ q \in 0..L - 1 /\ j.usados = h.usados
          /\ j.cont = [h.cont EXCEPT ![Numero(g, h, q)] = z]
      BY <1>9, <1>13, <3>1, <3>2
    <3> HIDE DEF L, e, g, h, z, j
    <3>4. /\ Respeta(g, h, L, g, j, L)
          /\ \A s \in 0..L - 1 : Numero(g, j, s) = Numero(g, h, s)
          /\ j.cont[Numero(g, h, q)] = z
          /\ \A s \in 0..L - 1 : s # q => j.cont[Numero(g, h, s)] = h.cont[Numero(g, h, s)]
      <4>1. \A p \in 0..L - 1 : \A v, w : Puesto(g, h, L, p, v, w)
        BY <3>3, AlPonerlo
      <4>2. Puesto(g, h, L, q, z, j)
        BY <3>3, <4>1
      <4> QED
        BY <3>3, <4>2 DEF Puesto
    <3> QED
      BY <3>4 DEF g, h, z, j
  <2>4. Respeta(r.f, r.d, K, x.f, e, L)
    <3>1. x.d.usados \subseteq Datos /\ r.d.usados \subseteq Datos
      BY <1>1, <1>9, DiscoCampos
    <3> HIDE DEF L, e
    <3> QED
      BY <1>9, <1>13, <2>3, <3>1, RespetaSigue
  <2>5. Respeta(r.f, r.d, K, y.f, e, Cuantas(u))
    <3>1. Respeta(r.f, r.d, K, y.f, e, L)
      BY <1>12, <2>4, SoloInd
    <3> HIDE DEF L, e
    <3> QED
      BY <1>13, <2>1, <2>2, <3>1, RespetaMenos
  <2>6. Numero(y.f, e, q) = Numero(x.f, x.d, q)
    BY <1>9, <1>12, <2>3, SoloInd
  <2>7. \A s \in 0..K - 1 : s # q =>
          e.cont[Numero(r.f, r.d, s)] = r.d.cont[Numero(r.f, r.d, s)]
    <3>1. 0..K - 1 \subseteq 0..L - 1
      BY <1>1
    <3> HIDE DEF L, e
    <3> QED
      BY <1>9, <2>3, <3>1
  <2>8. y.d.libres = r.d.libres
    BY <1>9, <1>12
  <2>9. Escrito(r.f, r.d, r.off, r.n, y)
    <3>1. y.d.cont[Numero(y.f, y.d, q)] = Bytes(q)
      BY <2>3, <2>6
    <3>2. y.f.tam = u /\ r.f.tam = r.tam
      BY <1>7, <1>12
    <3> QED
      BY <2>1, <2>5, <2>7, <2>8, <3>1, <3>2 DEF Escrito, K, q
  <2> QED
    BY <2>1, <2>9 DEF y
<1>15. CASE k # r.n
  <2>1. k = E /\ E < r.n /\ r.n < TB /\ r.off < r.tam /\ u = TB * K
    BY <1>4, <1>15
  <2>2. y.fin = "sigue"
    BY <1>7, <1>12, <1>15 DEF Grave
  <2>3. y.tam = TB * K
    BY <1>12, <2>1
  <2>4. y.off < TB * K
    BY <1>1, <1>5, <1>12, <2>1
  <2>5. y.n \in 1..TB - 1
    BY <1>1, <1>5, <1>12, <2>1
  <2> QED
    BY <2>2, <2>3, <2>4, <2>5 DEF y, K
<1> QED
  BY <1>14, <1>15

(* o_write of a page that begins inside the file or at its end.            *)
LEMMA AlEscribir ==
    ASSUME NEW f \in Entrada, NEW d \in Disco, NEW off \in Nat, NEW n \in Nat \ {0},
           off <= f.tam, (off % TB) + n <= TB, off + n <= TB * Lugares,
           Cuantas(f.tam) <= Lugares, Entero(f, d, Cuantas(f.tam)), d.libres > 0,
           Escribe(f, d, f.tam, off, n).fin \notin Grave
    PROVE  /\ Escribe(f, d, f.tam, off, n).fin = "ok"
           /\ Escrito(f, d, off, n, Escribe(f, d, f.tam, off, n))
<1> DEFINE otra(r) == IF r.fin = "sigue" THEN Vuelta(r) ELSE r
           r0 == [f |-> f, d |-> d, tam |-> f.tam, off |-> off, n |-> n, fin |-> "sigue"]
           r1 == Vuelta(r0)
           r3 == otra(otra(r1))
<1>1. f.tam \in Nat /\ Cuantas(f.tam) \in Nat \ {0}
  BY EntradaCampos, CuantasSon
<1>2. r0 \in Escrituras /\ r1 \in Escrituras
  <2>1. r0 \in Escrituras
    BY <1>1 DEF Escrituras, Fines
  <2> QED
    BY <2>1, VueltaTipo
<1>3. Escribe(f, d, f.tam, off, n) = Fin(r3.f, r3.d, r3.fin)
  BY DEF Escribe
<1>4. r0.f = f /\ r0.d = d /\ r0.tam = f.tam /\ r0.off = off /\ r0.n = n /\ n # 0
  OBVIOUS
<1> HIDE DEF r0
<1>5. ASSUME r1.fin \notin Grave
      PROVE  \/ r1.fin = "ok" /\ Escrito(f, d, off, n, r1)
             \/ /\ r1.fin = "sigue" /\ r1.tam = TB * Cuantas(f.tam)
                /\ r1.off < TB * Cuantas(f.tam) /\ r1.n \in 1..TB - 1
  <2>1. /\ r0.tam = r0.f.tam /\ r0.off <= r0.tam /\ r0.n # 0
        /\ (r0.off % TB) + r0.n <= TB /\ r0.off + r0.n <= TB * Lugares
        /\ Cuantas(r0.tam) <= Lugares /\ Entero(r0.f, r0.d, Cuantas(r0.tam)) /\ r0.d.libres > 0
    BY <1>4
  <2>2. \/ Vuelta(r0).fin = "ok" /\ Escrito(r0.f, r0.d, r0.off, r0.n, Vuelta(r0))
        \/ /\ Vuelta(r0).fin = "sigue" /\ Vuelta(r0).tam = TB * Cuantas(r0.tam)
           /\ Vuelta(r0).off < TB * Cuantas(r0.tam) /\ Vuelta(r0).n \in 1..TB - 1
    BY <1>2, <1>5, <2>1, VueltaEs
  <2> QED
    BY <1>4, <2>2
<1> HIDE DEF r1
<1>6. ASSUME r1.fin = "sigue", r1.fin \notin Grave PROVE Vuelta(r1).fin \in Grave
  <2>1. /\ r1.tam = TB * Cuantas(f.tam)
        /\ r1.off < TB * Cuantas(f.tam) /\ r1.n \in 1..TB - 1
    BY <1>5, <1>6
  <2> HIDE DEF otra, r3
  <2> QED
    BY <1>1, <1>2, <2>1, VueltaVacia
<1>7. "sigue" \notin Grave /\ "ok" \notin Grave
  BY DEF Grave
<1>8. r3 = IF r1.fin # "sigue" THEN r1
           ELSE IF Vuelta(r1).fin # "sigue" THEN Vuelta(r1) ELSE Vuelta(Vuelta(r1))
  OBVIOUS
<1> HIDE DEF r3, otra
<1>9. r3.fin \notin Grave
  BY <1>3 DEF Fin
<1>10. r3 = r1 /\ r1.fin \notin Grave /\ r1.fin # "sigue"
  BY <1>6, <1>7, <1>8, <1>9
<1>11. r1.fin = "ok" /\ Escrito(f, d, off, n, r1)
  BY <1>5, <1>10
<1> QED
  BY <1>3, <1>10, <1>11 DEF Escrito, Fin

(* o_create: the first block of a file with nothing in it.                 *)
LEMMA AlCrear ==
    ASSUME NEW f \in Entrada, NEW d \in Disco, f.tam = 0, 0 < Lugares,
           ConBloque(TomarYAgregar(f, d), d).fin \notin Grave
    PROVE  LET r == ConBloque(TomarYAgregar(f, d), d) IN
           /\ r.fin = "ok" /\ r.f.tam = 0 /\ r.d.libres = d.libres
           /\ Respeta(f, d, 0, r.f, r.d, 1)
<1> DEFINE x == TomarYAgregar(f, d)
           r == ConBloque(x, d)
<1>1. x.fin \notin Grave
  BY DEF ConBloque, Grave
<1>2. /\ Agregado(f, d, 0, x) /\ x.f \in Entrada /\ x.d \in Disco
  <2>1. TB * 0 = 0 /\ 0 \in Nat
    BY SacBloquesAssumption
  <2>3. Entero(f, d, 0)
    BY EnteroVacio
  <2>4. Agregado(f, d, 0, x)
    BY <1>1, <2>1, <2>3, AlAgregarUno
  <2>5. x.f \in Entrada /\ x.d \in Disco
    BY TomarYAgregarTipo DEF Resultado
  <2> QED
    BY <2>4, <2>5
<1>9. x \in Resultados
  BY TomarYAgregarForma
<1> HIDE DEF x
<1>3. /\ Respeta(f, d, 0, x.f, x.d, 1) /\ x.fin = "ok" /\ x.f.tam = 0
      /\ x.d.libres = d.libres /\ Libre(d) \in Datos /\ Numero(x.f, x.d, 0) = Libre(d)
  BY <1>2 DEF Agregado
<1> DEFINE b == Libre(d)
           w == [x.d.cont EXCEPT ![b] = Ceros]
           e == [x.d EXCEPT !.cont = w]
<1>4. r.f = x.f /\ r.fin = x.fin /\ r.d = e
  <2>1. r = [x EXCEPT !.d.cont[b] = Ceros]
    BY <1>3 DEF ConBloque
  <2> HIDE DEF r, b
  <2>2. x = [f |-> x.f, d |-> x.d, fin |-> x.fin]
    BY <1>9 DEF Resultados
  <2> QED
    BY <2>1, <2>2
<1>5. e.usados = x.d.usados /\ e.libres = x.d.libres /\ e.cont = w
  BY <1>2, ConCont
<1> HIDE DEF r, e
<1>6. Respeta(x.f, x.d, 1, x.f, e, 1)
  <2> DEFINE m == PB * P
  <2>1. 1 <= m /\ m \in Nat
    BY SacBloquesAssumption
  <2> HIDE DEF m
  <2>2. 1 <= m /\ 1 \in Nat /\ Entero(x.f, x.d, 1) /\ 0 \in 0..1 - 1
    BY <1>3, <2>1 DEF Respeta
  <2>3. \A q \in 0..1 - 1 : \A v, z : Puesto(x.f, x.d, 1, q, v, z)
    BY <1>2, <2>2, AlPonerlo DEF m
  <2>4. Puesto(x.f, x.d, 1, 0, Ceros, e)
    BY <2>2, <2>3
  <2> QED
    BY <1>3, <1>5, <2>4 DEF Puesto
<1>7. Respeta(f, d, 0, x.f, e, 1)
  <2>1. x.d.usados \subseteq Datos /\ d.usados \subseteq Datos
    BY <1>2, DiscoCampos
  <2> QED
    BY <1>3, <1>6, <2>1, RespetaSigue
<1> QED
  BY <1>3, <1>4, <1>5, <1>7 DEF r, x

-----------------------------------------------------------------------------
(* The files of one client and their blocks.  The kernel of the client     *)
(* makes none of the calls the server mishandles (Raras), nor removes a    *)
(* directory: eliminarRecursivamente frees the blocks of the entry before  *)
(* each file.  And no file is written past the last block that             *)
(* agregarBloqueLibre numbers: the sizes of Sac-Cli are ints, less than    *)
(* what the pointer blocks of an entry reach.                              *)
Corriente ==
    /\ \E c : Clientes = {c}
    /\ Raras = {}
    /\ \A c \in Clientes : \A p \in Pedidos[c] : p.op # "rmdir"
    /\ Lugares > 0 /\ MaxTam \in 0..TB * Lugares

(* The first blocks of files A of the table are their own.                 *)
Suyos(t, d, n) == BloquesEn(t[n], d, Cuantas(t[n].tam))

Asignado(t, d, A) ==
    /\ \A n \in A : t[n].tam <= MaxTam /\ Entero(t[n], d, Cuantas(t[n].tam))
    /\ \A n, m \in A : n # m => Suyos(t, d, n) \cap Suyos(t, d, m) = {}

(* The file whose blocks an unlink has freed, until its entry goes.        *)
Ido(t, h) ==
    IF h.paso \in {"bajarModo", "quitar"} THEN {Baja(t, 0, h.pedido.ruta)} ELSE {}

Ocupados(t) == {n \in Nodos : t[n].estado = "ocupado"}

Enteros(t, h) == Ocupados(t) \ Ido(t, h)

(* What the kernel looked at before it asked.                              *)
Cabe(t, p) ==
    LET n == Baja(t, 0, p.ruta) IN
    /\ p.op # "rmdir"
    /\ p.op = "write" => p.off <= t[n].tam /\ p.off + p.n <= MaxTam
    /\ p.op = "truncate" =>
          /\ p.n <= MaxTam
          /\ ~(t[n].tam > 0 /\ t[n].tam % TB = 0 /\ p.n >= t[n].tam)

ModoDe(paso) == IF paso \in {"borrarBloques", "bajarModo"} THEN 1 ELSE 0

Ordenado(t, d, m, q, h) ==
    /\ Asignado(t, d, Enteros(t, h))
    /\ d.libres = Cardinality(Datos)
    /\ m = ModoDe(h.paso)
    /\ \A i \in 1..Len(q) : Cabe(t, q[i])
    /\ h.paso \notin Quietos => Cabe(t, h.pedido)
    /\ h.paso = "escribir" => h.tam = t[h.nodo].tam

EnOrden(c) == Ordenado(tabla, disco, modo, cola[c], hilo[c])

Ordenados == \A c \in Clientes : EnOrden(c)

(* Entry n gets the blocks of g on disk e, with none that was taken but    *)
(* those of f, its own; the other files keep theirs.                       *)
LEMMA AsignadoTras ==
    ASSUME NEW t, NEW d, NEW A, Asignado(t, d, A), A \subseteq Nodos, t \in [Nodos -> Entrada],
           d.usados \subseteq Datos,
           NEW n, NEW f, NEW k, NEW g, NEW e, NEW l, Respeta(f, d, k, g, e, l),
           \A m \in A \ {n} : Suyos(t, d, m) \cap BloquesEn(f, d, k) = {},
           NEW u, NEW B, B \subseteq A \cup {n},
           \A m \in A \ {n} : u[m].ind = t[m].ind /\ u[m].tam = t[m].tam,
           n \in B => u[n].ind = g.ind /\ l = Cuantas(u[n].tam) /\ u[n].tam <= MaxTam
    PROVE  Asignado(u, e, B)
<1>1. ASSUME NEW m \in A \ {n}
      PROVE  /\ u[m].tam <= MaxTam /\ Entero(u[m], e, Cuantas(u[m].tam))
             /\ Suyos(u, e, m) = Suyos(t, d, m)
             /\ Suyos(u, e, m) \cap BloquesEn(g, e, l) = {}
  <2> DEFINE j == Cuantas(t[m].tam)
             h == t[m]
             w == u[m]
  <2>1. h.tam \in Nat /\ h.tam <= MaxTam /\ Entero(h, d, j) /\ m \in A
    BY EntradaCampos DEF Asignado
  <2>2. j \in Nat
    BY <2>1, CuantasSon
  <2>3. BloquesEn(h, d, j) \cap BloquesEn(f, d, k) = {}
    BY <1>1 DEF Suyos
  <2>4. w.ind = h.ind /\ w.tam = h.tam
    BY <1>1
  <2>5. Suyos(t, d, m) = BloquesEn(h, d, j) /\ Suyos(u, e, m) = BloquesEn(w, e, j)
        /\ Cuantas(u[m].tam) = j
    BY <2>4 DEF Suyos
  <2> HIDE DEF j, h
  <2>6. /\ Entero(h, e, j) /\ BloquesEn(h, e, j) = BloquesEn(h, d, j)
        /\ BloquesEn(h, e, j) \cap BloquesEn(g, e, l) = {}
    BY <2>1, <2>2, <2>3, Ajeno
  <2> HIDE DEF w
  <2>7. Entero(w, e, j) /\ BloquesEn(w, e, j) = BloquesEn(h, e, j)
    BY <2>4, <2>6, SoloInd
  <2> QED
    BY <2>1, <2>4, <2>5, <2>6, <2>7 DEF w
<1>2. n \in B => /\ u[n].tam <= MaxTam /\ Entero(u[n], e, Cuantas(u[n].tam))
                 /\ Suyos(u, e, n) = BloquesEn(g, e, l)
  <2> HAVE n \in B
  <2> DEFINE w == u[n]
  <2>1. w.ind = g.ind /\ l = Cuantas(w.tam) /\ w.tam <= MaxTam
    OBVIOUS
  <2>2. Suyos(u, e, n) = BloquesEn(w, e, Cuantas(w.tam))
    BY DEF Suyos
  <2>3. Entero(g, e, l)
    BY DEF Respeta
  <2> HIDE DEF w
  <2>4. Entero(w, e, l) /\ BloquesEn(w, e, l) = BloquesEn(g, e, l)
    BY <2>1, <2>3, SoloInd
  <2> QED
    BY <2>1, <2>2, <2>4 DEF w
<1>3. \A m \in B : m # n => m \in A \ {n}
  OBVIOUS
<1>4. \A m \in B : u[m].tam <= MaxTam /\ Entero(u[m], e, Cuantas(u[m].tam))
  BY <1>1, <1>2, <1>3
<1>5. ASSUME NEW m \in B, NEW r \in B, m # r
      PROVE  Suyos(u, e, m) \cap Suyos(u, e, r) = {}
  <2>1. CASE m = n
    BY <1>1, <1>2, <1>3, <1>5, <2>1
  <2>2. CASE r = n
    BY <1>1, <1>2, <1>3, <1>5, <2>2
  <2>3. CASE m # n /\ r # n
    <3>1. m \in A /\ r \in A /\ Suyos(t, d, m) \cap Suyos(t, d, r) = {}
      BY <1>3, <1>5, <2>3 DEF Asignado
    <3> QED
      BY <1>1, <1>3, <2>3, <3>1
  <2> QED
    BY <2>1, <2>2, <2>3
<1> QED
  BY <1>4, <1>5 DEF Asignado

LEMMA AsignadoMenos ==
    ASSUME NEW t, NEW d, NEW A, Asignado(t, d, A), NEW u, NEW B \in SUBSET A,
           \A m \in B : u[m].ind = t[m].ind /\ u[m].tam = t[m].tam
    PROVE  Asignado(u, d, B)
<1>1. ASSUME NEW m \in B
      PROVE  /\ u[m].tam <= MaxTam /\ Entero(u[m], d, Cuantas(u[m].tam))
             /\ Suyos(u, d, m) = Suyos(t, d, m)
  <2> DEFINE h == t[m]
             w == u[m]
             j == Cuantas(h.tam)
  <2>1. h.tam <= MaxTam /\ Entero(h, d, j) /\ w.ind = h.ind /\ w.tam = h.tam
    BY DEF Asignado
  <2>2. Suyos(t, d, m) = BloquesEn(h, d, j) /\ Suyos(u, d, m) = BloquesEn(w, d, j)
        /\ Cuantas(u[m].tam) = j
    BY <2>1 DEF Suyos
  <2> HIDE DEF h, w, j
  <2>3. Entero(w, d, j) /\ BloquesEn(w, d, j) = BloquesEn(h, d, j)
    BY <2>1, SoloInd
  <2> QED
    BY <2>1, <2>2, <2>3 DEF w
<1> QED
  BY <1>1 DEF Asignado

-----------------------------------------------------------------------------
(* What every step must do for the blocks to stay in order.                *)
LEMMA OrdenContesta ==
    ASSUME NEW c \in Clientes, Antes(c), EnOrden(c), hilo[c].paso \notin Quietos,
           NEW i, Responde(c, i), cola' = cola, modo' = 0,
           disco'.libres = disco.libres,
           Asignado(tabla', disco', Ocupados(tabla'))
    PROVE  EnOrden(c)'
<1>1. cola[c] = <<>> /\ Len(<<>>) = 0 /\ 1..0 = {}
  BY Ocupado, EmptySeq DEF Antes
<1>2. hilo'[c] = Ocioso
  BY DEF Responde, Antes, Servidos, Hilos
<1>3. Ocioso.paso = "libre"
  BY DEF Ocioso
<1>4. Enteros(tabla', Ocioso) = Ocupados(tabla') /\ ModoDe("libre") = 0 /\ "libre" \in Quietos
  BY <1>3 DEF Enteros, Ido, ModoDe, Quietos
<1>5. disco'.libres = Cardinality(Datos)
  BY DEF EnOrden, Ordenado
<1>6. Ordenado(tabla', disco', modo', <<>>, Ocioso)
  BY <1>1, <1>3, <1>4, <1>5 DEF Ordenado
<1> QED
  BY <1>1, <1>2, <1>6 DEF EnOrden

LEMMA OrdenCae ==
    ASSUME NEW c \in Clientes, EnOrden(c), NEW causa, Cae(causa)
    PROVE  EnOrden(c)'
<1>1. tabla' = tabla /\ disco' = disco /\ modo' = modo /\ hilo' = hilo /\ cola' = cola
  BY DEF Cae, varsRed
<1> QED
  BY <1>1 DEF EnOrden

(* The thread goes on with the request, with the blocks as they were.      *)
LEMMA OrdenPasa ==
    ASSUME NEW c \in Clientes, Antes(c), EnOrden(c), hilo[c].paso \notin Quietos,
           NEW paso, NEW camino, NEW nodo, NEW viejo, NEW tam, NEW pila,
           Deja(c, paso, camino, nodo, viejo, tam, pila),
           paso \notin Quietos, paso = "escribir" => tam = tabla[nodo].tam,
           paso \notin {"bajarModo", "quitar"} => hilo[c].paso \notin {"bajarModo", "quitar"},
           tabla' = tabla, disco' = disco, cola' = cola, modo' = ModoDe(paso)
    PROVE  EnOrden(c)'
<1>1. PICK h : /\ hilo' = [hilo EXCEPT ![c] = h]
               /\ h.pedido = hilo[c].pedido
               /\ h.paso = paso /\ h.nodo = nodo /\ h.tam = tam
  BY DEF Deja
<1>2. hilo'[c] = h
  BY <1>1 DEF Antes, Servidos, Hilos
<1>3. Enteros(tabla, h) \subseteq Enteros(tabla, hilo[c])
  BY <1>1 DEF Enteros, Ido
<1>4. Ordenado(tabla, disco, modo, cola[c], hilo[c])
  BY DEF EnOrden
<1>5. Asignado(tabla, disco, Enteros(tabla, h))
  BY <1>3, <1>4, AsignadoMenos DEF Ordenado
<1>6. Ordenado(tabla, disco, modo', cola[c], h)
  BY <1>1, <1>4, <1>5 DEF Ordenado
<1> QED
  BY <1>2, <1>6 DEF EnOrden

LEMMA OrdenDice ==
    ASSUME NEW c \in Clientes, EnOrden(c)
    PROVE  /\ Asignado(tabla, disco, Enteros(tabla, hilo[c]))
           /\ disco.libres = Cardinality(Datos)
           /\ modo = ModoDe(hilo[c].paso)
           /\ hilo[c].paso \notin Quietos => Cabe(tabla, hilo[c].pedido)
           /\ hilo[c].paso = "escribir" => hilo[c].tam = tabla[hilo[c].nodo].tam
BY DEF EnOrden, Ordenado

(* A request that did not free blocks is answered, or goes on.             *)
LEMMA ContestaEnOrden ==
    ASSUME NEW c \in Clientes, Antes(c), EnOrden(c),
           hilo[c].paso \notin Quietos \cup {"borrarBloques", "bajarModo", "quitar"},
           NEW i, Responde(c, i), cola' = cola, modo' = modo, tabla' = tabla, disco' = disco
    PROVE  EnOrden(c)'
<1>1. Enteros(tabla, hilo[c]) = Ocupados(tabla) /\ ModoDe(hilo[c].paso) = 0
  BY DEF Enteros, Ido, ModoDe
<1> QED
  BY <1>1, OrdenDice, OrdenContesta

LEMMA TomarEnOrden ==
    ASSUME NEW c \in Clientes, Antes(c), EnOrden(c), Tomar(c)
    PROVE  EnOrden(c)'
<1> DEFINE p == Head(cola[c])
           camino == IF p.op = "truncate" /\ p.n < 0 THEN <<>> ELSE p.ruta
           h == [Ocioso EXCEPT !.pedido = p, !.paso = PrimerPaso(p.op), !.camino = camino]
<1>1. hilo[c].paso = "libre" /\ cola[c] # <<>>
      /\ hilo' = [hilo EXCEPT ![c] = h] /\ cola' = [cola EXCEPT ![c] = Tail(@)]
      /\ disco' = disco /\ tabla' = tabla /\ modo' = modo
  BY DEF Tomar, varsDisco
<1>2. cola[c] \in Seq(Legal)
  BY DEF Antes, Servidos, Red
<1>3. p \in Peticion /\ p = cola[c][1] /\ Len(Tail(cola[c])) = Len(cola[c]) - 1
      /\ 1 \in 1..Len(cola[c]) /\ Tail(cola[c]) \in Seq(Legal)
  BY <1>1, <1>2, HeadTailProperties, LenProperties, EmptySeq DEF Legal
<1>4. h.pedido = p /\ h.paso = PrimerPaso(p.op)
  BY DEF Ocioso
<1>5. Len(cola[c]) = 1
  BY <1>1 DEF Antes, SanoEn, Sano, Turno, Quietos
<1>6. cola'[c] = Tail(cola[c]) /\ Len(cola'[c]) = 0 /\ 1..0 = {}
  BY <1>1, <1>3, <1>5 DEF Antes, Servidos, Red
<1>7. hilo'[c] = h
  BY <1>1 DEF Antes, Servidos, Hilos
<1> HIDE DEF h
<1>8. h.paso \notin {"borrarBloques", "bajarModo", "quitar", "escribir"}
  BY <1>3, <1>4, PeticionCampos DEF PrimerPaso
<1>9. Ordenado(tabla, disco, modo, cola[c], hilo[c])
  BY DEF EnOrden
<1>10. Cabe(tabla, p)
  BY <1>3, <1>9 DEF Ordenado
<1>11. Enteros(tabla, h) = Enteros(tabla, hilo[c]) /\ ModoDe(h.paso) = ModoDe(hilo[c].paso)
  BY <1>1, <1>8 DEF Enteros, Ido, ModoDe
<1>12. Ordenado(tabla, disco, modo, cola'[c], h)
  BY <1>4, <1>6, <1>8, <1>9, <1>10, <1>11 DEF Ordenado
<1> QED
  BY <1>1, <1>7, <1>12 DEF EnOrden

LEMMA BajarEnOrden ==
    ASSUME NEW c \in Clientes, Antes(c), EnOrden(c), Bajar(c)
    PROVE  EnOrden(c)'
<1>1. hilo[c].camino # <<>> /\ disco' = disco /\ tabla' = tabla /\ modo' = modo /\ cola' = cola
  BY DEF Bajar, varsDisco, varsRed
<1>2. hilo[c].paso \notin Quietos /\ hilo[c].paso # "escribir"
  <2>1. Encamina(tabla, hilo[c]) /\ ConEntrada(hilo[c])
    BY HiloTipo DEF Antes, SanoEn, Sano
  <2> QED
    BY <1>1, <2>1 DEF Encamina, Buscando, ConEntrada
<1>3. modo' = ModoDe(hilo[c].paso)
  BY <1>1, OrdenDice
<1>4. Hilos
  BY DEF Antes, Servidos
<1> QED
  BY <1>1, <1>2, <1>3, <1>4, BajarDeja, OrdenPasa

-----------------------------------------------------------------------------
(* Entry n becomes x: what it had was its own, or it had nothing.          *)
LEMMA TablaAsignada ==
    ASSUME Memoria, NEW A, A \subseteq Nodos, Asignado(tabla, disco, A), NEW n \in Nodos, NEW x,
           tabla' = [tabla EXCEPT ![n] = x],
           NEW f, NEW k, NEW l, Respeta(f, disco, k, x, disco', l),
           k = 0 \/ (n \in A /\ f = tabla[n] /\ k = Cuantas(tabla[n].tam)),
           NEW B, B \subseteq A \cup {n},
           n \in B => l = Cuantas(x.tam) /\ x.tam <= MaxTam
    PROVE  Asignado(tabla', disco', B)
<1>1. tabla \in [Nodos -> Entrada] /\ disco.usados \subseteq Datos
  BY DiscoCampos DEF Memoria
<1>2. \A m \in A \ {n} : tabla'[m] = tabla[m]
  BY <1>1
<1>3. \A m \in A \ {n} : Suyos(tabla, disco, m) \cap BloquesEn(f, disco, k) = {}
  <2>1. CASE k = 0
    BY <2>1, EnteroVacio
  <2>2. CASE n \in A /\ f = tabla[n] /\ k = Cuantas(tabla[n].tam)
    <3>1. \A m \in A \ {n} : Suyos(tabla, disco, m) \cap Suyos(tabla, disco, n) = {}
      BY <2>2 DEF Asignado
    <3> QED
      BY <2>2, <3>1 DEF Suyos
  <2> QED
    BY <2>1, <2>2
<1>4. tabla'[n] = x
  BY <1>1
<1> DEFINE u == tabla'
           e == disco'
<1>5. /\ \A m \in A \ {n} : u[m].ind = tabla[m].ind /\ u[m].tam = tabla[m].tam
      /\ n \in B => u[n].ind = x.ind /\ l = Cuantas(u[n].tam) /\ u[n].tam <= MaxTam
  BY <1>2, <1>4
<1>6. Respeta(f, disco, k, x, e, l)
  OBVIOUS
<1> HIDE DEF u, e
<1>7. Asignado(u, e, B)
  BY <1>1, <1>3, <1>5, <1>6, AsignadoTras
<1> QED
  BY <1>7 DEF u, e

LEMMA CrearArchivoEnOrden ==
    ASSUME Corriente, NEW c \in Clientes, Antes(c), EnOrden(c), CrearArchivo(c)
    PROVE  EnOrden(c)'
<1> DEFINE n == Min(EntradasLibres)
           f == Archivo(n, Last(Pedido(c).ruta), Nodo(c))
           y == TomarYAgregar(f, disco)
           r == ConBloque(y, disco)
           A == Enteros(tabla, hilo[c])
<1>1. /\ hilo[c].paso = "madre" /\ Nodo(c) # NoHay /\ EntradasLibres # {}
      /\ \/ r.fin \in Grave /\ Cae(r.fin)
         \/ /\ r.fin \notin Grave /\ Guarda(n, r) /\ Responde(c, 1)
            /\ cola' = cola /\ modo' = modo
  BY DEF CrearArchivo, En
<1>2. CASE r.fin \in Grave /\ Cae(r.fin)
  BY <1>2, OrdenCae
<1>3. CASE r.fin \notin Grave /\ Guarda(n, r) /\ Responde(c, 1) /\ cola' = cola /\ modo' = modo
  <2>1. n \in Nodos
    BY <1>1, MinLibre
  <2>2. f \in Entrada /\ disco \in Disco /\ Memoria
    <3>1. "madre" \notin Quietos \cup EnCarpeta /\ DeQuien("madre") = {"create", "mkdir"}
      BY DEF Quietos, EnCarpeta, DeQuien
    <3>2. hilo[c].pedido \in Legal /\ hilo[c].pedido.op \in {"create", "mkdir"}
          /\ hilo[c].pedido.ruta \in Seq(Nombres)
      <4>1. hilo[c].camino = <<>>
        BY DEF CrearArchivo, En
      <4> QED
        BY <1>1, <3>1, <4>1, NodoEs
    <3>3. Pedido(c).ruta \in Seq(Nombres) /\ Pedido(c).ruta # <<>>
      BY <3>2 DEF Legal, Pedido
    <3>4. Last(Pedido(c).ruta) \in Nombres
      BY <3>3, FrontTipo
    <3>5. Nodo(c) \in Donde
      BY HiloTipo DEF Antes, Nodo
    <3> QED
      BY <2>1, <3>4, <3>5, OcupaTipo DEF Antes, Servidos, Memoria
  <2>3. f.tam = 0
    <3>1. tabla[n] \in Entrada
      BY <2>1, <2>2 DEF Memoria
    <3> QED
      BY <3>1 DEF Archivo, Entrada
  <2>4. Lugares > 0 /\ 0 <= MaxTam
    <3>1. MaxTam \in 0..TB * Lugares /\ Lugares > 0
      BY DEF Corriente
    <3> QED
      BY <3>1
  <2> HIDE DEF f, n
  <2>5. /\ r.f.tam = 0 /\ r.d.libres = disco.libres
        /\ Respeta(f, disco, 0, r.f, r.d, 1)
    BY <1>3, <2>2, <2>3, <2>4, AlCrear
  <2> HIDE DEF r
  <2>6. tabla' = [tabla EXCEPT ![n] = r.f] /\ disco' = r.d
    BY <1>3 DEF Guarda
  <2>7. Ocupados(tabla') \subseteq A \cup {n} /\ A \subseteq Nodos
    BY <1>1, <2>2, <2>6 DEF Ocupados, Enteros, Ido, Memoria
  <2>8. Cuantas(0) = 1
    BY CuantasSon
  <2>9. Asignado(tabla, disco, A)
    BY OrdenDice
  <2>10. hilo[c].paso \notin Quietos /\ modo' = 0 /\ disco'.libres = disco.libres
    BY <1>1, <1>3, <2>5, <2>6, OrdenDice DEF Quietos, ModoDe
  <2> HIDE DEF A
  <2>11. Asignado(tabla', disco', Ocupados(tabla'))
    BY <2>1, <2>2, <2>4, <2>5, <2>6, <2>7, <2>8, <2>9, TablaAsignada
  <2> QED
    BY <1>3, <2>10, <2>11, OrdenContesta
<1> QED
  BY <1>1, <1>2, <1>3

LEMMA CrearEnOrden ==
    ASSUME Corriente, NEW c \in Clientes, Antes(c), EnOrden(c), Crear(c)
    PROVE  EnOrden(c)'
<1>1. {"existe", "madre"} \cap (Quietos \cup {"borrarBloques", "bajarModo", "quitar"}) = {}
  BY DEF Quietos
<1>2. CASE YaExiste(c) \/ SinMadre(c) \/ TablaLlena(c)
  <2>1. /\ hilo[c].paso \in {"existe", "madre"} /\ Responde(c, 1) /\ cola' = cola
        /\ modo' = modo /\ tabla' = tabla /\ disco' = disco
    BY <1>2 DEF YaExiste, SinMadre, TablaLlena, En, varsDisco
  <2> QED
    BY <1>1, <2>1, ContestaEnOrden
<1>3. CASE BuscarMadre(c)
  <2>1. /\ hilo[c].paso = "existe" /\ Busca(c, Front(hilo[c].pedido.ruta), "madre")
        /\ cola' = cola /\ modo' = modo /\ tabla' = tabla /\ disco' = disco
    BY <1>3 DEF BuscarMadre, En, Pedido, varsDisco, varsRed
  <2>2. Deja(c, "madre", Front(hilo[c].pedido.ruta), 0, hilo[c].viejo, hilo[c].tam, hilo[c].pila)
    BY <2>1, BuscaDeja DEF Antes, Servidos
  <2>3. modo' = ModoDe("madre")
    BY <2>1, OrdenDice DEF ModoDe
  <2> QED
    BY <1>1, <2>1, <2>2, <2>3, OrdenPasa
<1>4. CASE CrearArchivo(c)
  BY <1>4, CrearArchivoEnOrden
<1>5. CASE CrearDirectorio(c)
  <2> DEFINE n == Min(EntradasLibres)
             f == Directorio(n, Last(Pedido(c).ruta), Nodo(c))
  <2>1. /\ hilo[c].paso = "madre" /\ EntradasLibres # {}
        /\ tabla' = [tabla EXCEPT ![n] = f] /\ Responde(c, 1) /\ cola' = cola
        /\ modo' = modo /\ disco' = disco
    BY <1>5 DEF CrearDirectorio, En
  <2>2. n \in Nodos
    BY <2>1, MinLibre
  <2>3. f.estado = "directorio"
    BY <2>2, NombreOcupa DEF Antes
  <2> HIDE DEF f
  <2>4. \A m \in Nodos : tabla'[m] = IF m = n THEN f ELSE tabla[m]
    BY <2>1 DEF Antes, Servidos, Memoria
  <2> HIDE DEF n
  <2>5. Ocupados(tabla') \subseteq Enteros(tabla, hilo[c])
        /\ \A m \in Ocupados(tabla') : tabla'[m] = tabla[m]
    BY <2>1, <2>3, <2>4 DEF Ocupados, Enteros, Ido
  <2>6. Asignado(tabla', disco, Ocupados(tabla'))
    BY <2>5, OrdenDice, AsignadoMenos
  <2>7. hilo[c].paso \notin Quietos /\ modo' = 0
    BY <1>1, <2>1, OrdenDice DEF ModoDe
  <2> QED
    BY <2>1, <2>6, <2>7, OrdenContesta
<1> QED
  BY <1>2, <1>3, <1>4, <1>5 DEF Crear

LEMMA ConsultarEnOrden ==
    ASSUME NEW c \in Clientes, Antes(c), EnOrden(c), Consultar(c)
    PROVE  EnOrden(c)'
<1>1. {"getattr", "readdir", "listar", "read"}
      \cap (Quietos \cup {"borrarBloques", "bajarModo", "quitar"}) = {}
  BY DEF Quietos
<1>2. CASE Atributos(c) \/ Listar(c) \/ Leer(c)
  <2>1. /\ hilo[c].paso \in {"getattr", "readdir", "listar", "read"} /\ cola' = cola
        /\ modo' = modo /\ tabla' = tabla /\ disco' = disco
        /\ \E i : Responde(c, i)
    BY <1>2 DEF Atributos, Listar, Leer, En, varsDisco
  <2> QED
    BY <1>1, <2>1, ContestaEnOrden
<1>3. CASE SinDirectorio(c)
  <2>1. /\ hilo[c].paso = "readdir" /\ Sigue(c, "listar") /\ cola' = cola
        /\ modo' = modo /\ tabla' = tabla /\ disco' = disco
    BY <1>3 DEF SinDirectorio, En, varsDisco
  <2>2. Deja(c, "listar", hilo[c].camino, hilo[c].nodo, hilo[c].viejo, hilo[c].tam, hilo[c].pila)
    BY <2>1, SigueDeja DEF Antes, Servidos
  <2>3. modo' = ModoDe("listar")
    BY <2>1, OrdenDice DEF ModoDe
  <2> QED
    BY <1>1, <2>1, <2>2, <2>3, OrdenPasa
<1> QED
  BY <1>2, <1>3 DEF Consultar

-----------------------------------------------------------------------------
(* A file of the table that no unlink is taking away.                      *)
LEMMA ArchivoEs ==
    ASSUME Corriente, Memoria, NEW A, A \subseteq Nodos, Asignado(tabla, disco, A), NEW n \in A,
           disco.libres = Cardinality(Datos)
    PROVE  /\ tabla[n] \in Entrada /\ disco \in Disco
           /\ tabla[n].tam \in Nat /\ tabla[n].tam <= MaxTam
           /\ Cuantas(tabla[n].tam) \in Nat \ {0} /\ Cuantas(tabla[n].tam) <= Lugares
           /\ Entero(tabla[n], disco, Cuantas(tabla[n].tam))
           /\ disco.libres > 0
<1> DEFINE f == tabla[n]
           k == Cuantas(f.tam)
<1>1. f \in Entrada /\ disco \in Disco
  BY DEF Memoria
<1>2. f.tam \in Nat /\ f.tam <= MaxTam /\ Entero(f, disco, k)
  BY <1>1, EntradaCampos DEF Asignado
<1>3. k \in Nat \ {0}
  BY <1>2, CuantasSon
<1>4. k <= Lugares
  <2> DEFINE m == TB * Lugares
  <2>1. MaxTam \in 0..m /\ Lugares \in Nat \ {0} /\ TB \in Nat
    BY LugaresSon, SacBloquesAssumption DEF Corriente
  <2>2. m \in Nat
    BY <2>1
  <2> HIDE DEF m, f
  <2>3. f.tam <= m
    BY <1>2, <2>1, <2>2
  <2> QED
    BY <1>2, <2>1, <2>3, CuantasHasta DEF m
<1> HIDE DEF k, f
<1>5. disco.libres > 0
  <2>1. Numero(f, disco, 0) \in disco.usados /\ disco.usados \subseteq Datos
    BY <1>1, <1>2, <1>3, DiscoCampos DEF Entero
  <2>2. Datos # {} /\ IsFiniteSet(Datos)
    BY <2>1, SacBloquesAssumption
  <2>3. Cardinality(Datos) # 0 /\ Cardinality(Datos) \in Nat
    BY <2>2, FS_EmptySet, CardDatos
  <2> QED
    BY <2>3
<1> QED
  BY <1>1, <1>2, <1>3, <1>4, <1>5 DEF f, k

(* The file a request to write, to truncate or to unlink it is about.      *)
LEMMA ArchivoPedido ==
    ASSUME NEW c \in Clientes, Antes(c), EnOrden(c), hilo[c].camino = <<>>,
           hilo[c].paso \in {"leerTam", "escribir", "truncate", "borrarBloques", "bajarModo",
                             "quitar"},
           hilo[c].paso = "truncate" => hilo[c].pedido.n >= 0
    PROVE  LET p == hilo[c].pedido
               n == Nodo(c)
           IN  /\ n = Baja(tabla, 0, p.ruta) /\ n \in Nodos /\ n # NoHay
               /\ tabla[n].estado = "ocupado"
               /\ p \in Peticion /\ p.op \in DeQuien(hilo[c].paso) /\ Cabe(tabla, p)
<1>1. hilo[c].paso \notin Quietos \cup EnCarpeta
  BY DEF Quietos, EnCarpeta
<1> DEFINE p == hilo[c].pedido
           n == Nodo(c)
<1>2. /\ n = Baja(tabla, 0, Objetivo(hilo[c].paso, p))
      /\ Prometido(tabla, p) /\ p \in Legal /\ p.op \in DeQuien(hilo[c].paso)
  BY <1>1, NodoEs
<1>3. n = Baja(tabla, 0, p.ruta)
  BY <1>2 DEF Objetivo
<1>4. p.op \in {"unlink", "truncate", "write"}
  BY <1>2 DEF DeQuien
<1>5. n \in Nodos /\ tabla[n].estado = "ocupado"
  BY <1>2, <1>3, <1>4 DEF Prometido
<1>6. Cabe(tabla, p)
  BY <1>1, OrdenDice
<1>7. NoHay \notin Nodos
  BY DEF NoHay, Nodos
<1> HIDE DEF n, p
<1>8. p \in Peticion
  BY <1>2 DEF Legal
<1>9. n # NoHay
  BY <1>5, <1>7
<1> QED
  BY <1>2, <1>3, <1>5, <1>6, <1>8, <1>9 DEF n, p

(* What o_write does to a file, found as the kernel left it.               *)
LEMMA EscribirHace ==
    ASSUME Corriente, NEW c \in Clientes, Antes(c), EnOrden(c), Escribir(c), ~Cae(caida')
    PROVE  LET n == Nodo(c)
               p == hilo[c].pedido
               r == Escribe(tabla[n], disco, tabla[n].tam, p.off, p.n)
           IN  /\ n \in Enteros(tabla, hilo[c]) /\ Enteros(tabla, hilo[c]) = Ocupados(tabla)
               /\ p.off \in Nat /\ p.n \in Nat \ {0} /\ p.off <= tabla[n].tam
               /\ p.off + p.n <= MaxTam
               /\ Escrito(tabla[n], disco, p.off, p.n, r)
               /\ Guarda(n, r) /\ Responde(c, 1) /\ cola' = cola /\ modo' = modo
<1> DEFINE n == Nodo(c)
           p == hilo[c].pedido
           r == Escribe(tabla[n], disco, tabla[n].tam, p.off, p.n)
           A == Enteros(tabla, hilo[c])
<1>1. hilo[c].paso = "escribir" /\ hilo[c].camino = <<>>
  BY DEF Escribir, En
<1>2. /\ n \in Nodos /\ n = Baja(tabla, 0, p.ruta) /\ tabla[n].estado = "ocupado"
      /\ p \in Peticion /\ p.op = "write" /\ Cabe(tabla, p)
  <2>1. DeQuien("escribir") = {"write"}
    BY DEF DeQuien
  <2> QED
    BY <1>1, <2>1, ArchivoPedido
<1>3. A = Ocupados(tabla) /\ n \in A /\ A \subseteq Nodos
  BY <1>1, <1>2 DEF Enteros, Ido, Ocupados
<1>4. /\ p.off \in Nat /\ p.n \in Nat \ {0} /\ (p.off % TB) + p.n <= TB
      /\ p.off <= tabla[n].tam /\ p.off + p.n <= MaxTam
  <2>1. p.off \in Nat /\ p.n \in Nat \ {0} /\ (p.off % TB) + p.n <= TB
    BY <1>2, PeticionCampos
  <2> QED
    BY <1>2, <2>1 DEF Cabe
<1>5. hilo[c].tam = tabla[n].tam
  BY <1>1, OrdenDice DEF Nodo
<1>6. \/ r.fin \in Grave /\ Cae(r.fin)
      \/ r.fin \notin Grave /\ Guarda(n, r) /\ Responde(c, 1) /\ cola' = cola /\ modo' = modo
  BY <1>5 DEF Escribir, Pedido
<1>7. Cae(r.fin) => Cae(caida')
  BY DEF Cae
<1>8. r.fin \notin Grave /\ Guarda(n, r) /\ Responde(c, 1) /\ cola' = cola /\ modo' = modo
  BY <1>6, <1>7
<1>9. Asignado(tabla, disco, A) /\ disco.libres = Cardinality(Datos)
  BY OrdenDice
<1>10. /\ tabla[n] \in Entrada /\ disco \in Disco /\ Cuantas(tabla[n].tam) <= Lugares
       /\ Entero(tabla[n], disco, Cuantas(tabla[n].tam)) /\ disco.libres > 0
  BY <1>3, <1>9, ArchivoEs DEF Antes, Servidos
<1>11. p.off + p.n <= TB * Lugares
  <2> DEFINE m == TB * Lugares
  <2>1. MaxTam \in 0..m /\ Lugares \in Nat /\ TB \in Nat
    BY LugaresSon, SacBloquesAssumption DEF Corriente
  <2>2. m \in Nat
    BY <2>1
  <2> HIDE DEF m, p
  <2>3. p.off + p.n <= m
    BY <1>4, <2>1, <2>2
  <2> QED
    BY <2>3 DEF m
<1> DEFINE f == tabla[n]
           off == p.off
           q == p.n
<1>12. /\ f \in Entrada /\ off \in Nat /\ q \in Nat \ {0} /\ off <= f.tam
       /\ (off % TB) + q <= TB /\ off + q <= TB * Lugares
       /\ Cuantas(f.tam) <= Lugares /\ Entero(f, disco, Cuantas(f.tam))
       /\ Escribe(f, disco, f.tam, off, q).fin \notin Grave
  BY <1>4, <1>8, <1>10, <1>11
<1> HIDE DEF f, off, q
<1>13. Escrito(f, disco, off, q, Escribe(f, disco, f.tam, off, q))
  BY <1>10, <1>12, AlEscribir
<1> QED
  BY <1>3, <1>4, <1>8, <1>13 DEF f, off, q

LEMMA EscribirEnOrden ==
    ASSUME Corriente, NEW c \in Clientes, Antes(c), EnOrden(c), Escribir(c)
    PROVE  EnOrden(c)'
<1>1. CASE Cae(caida')
  BY <1>1, OrdenCae
<1>2. CASE ~Cae(caida')
  <2> DEFINE n == Nodo(c)
             p == hilo[c].pedido
             r == Escribe(tabla[n], disco, tabla[n].tam, p.off, p.n)
             A == Enteros(tabla, hilo[c])
  <2>1. /\ n \in A /\ A = Ocupados(tabla)
        /\ p.off \in Nat /\ p.n \in Nat \ {0} /\ p.off + p.n <= MaxTam
        /\ Escrito(tabla[n], disco, p.off, p.n, r)
        /\ Guarda(n, r) /\ Responde(c, 1) /\ cola' = cola /\ modo' = modo
    BY <1>2, EscribirHace
  <2>2. hilo[c].paso = "escribir"
    BY DEF Escribir, En
  <2>3. Memoria /\ n \in Nodos /\ A \subseteq Nodos
    BY <2>1 DEF Antes, Servidos, Ocupados
  <2>4. /\ tabla[n].tam <= MaxTam /\ Asignado(tabla, disco, A)
        /\ tabla[n] \in Entrada /\ disco \in Disco
    BY <2>1, <2>3, OrdenDice DEF Asignado, Memoria
  <2>5. MismoNombre(tabla[n], r.f)
    <3>1. tabla[n].tam \in Nat /\ p.n \in Nat
      BY <2>1, <2>4, EntradaCampos
    <3> QED
      BY <2>1, <2>4, <3>1, NombreEscribe
  <2> HIDE DEF A, r, p, n
  <2>6. /\ r.d.libres = disco.libres /\ r.f.tam <= MaxTam
        /\ Respeta(tabla[n], disco, Cuantas(tabla[n].tam), r.f, r.d, Cuantas(r.f.tam))
    BY <2>1, <2>4 DEF Escrito
  <2>7. tabla' = [tabla EXCEPT ![n] = r.f] /\ disco' = r.d
    BY <2>1 DEF Guarda
  <2>8. Ocupados(tabla') = A
    BY <2>1, <2>3, <2>5, <2>7 DEF Ocupados, MismoNombre, Memoria
  <2>9. Asignado(tabla', disco', Ocupados(tabla'))
    BY ZenonT(60), <2>1, <2>3, <2>4, <2>6, <2>7, <2>8, TablaAsignada
  <2>10. hilo[c].paso \notin Quietos /\ modo' = 0 /\ disco'.libres = disco.libres
    BY <2>1, <2>2, <2>6, <2>7, OrdenDice DEF Quietos, ModoDe
  <2> QED
    BY <2>1, <2>9, <2>10, OrdenContesta
<1> QED
  BY <1>1, <1>2

(* What o_truncate does to a file, found as the kernel left it.            *)
LEMMA TruncarHace ==
    ASSUME Corriente, NEW c \in Clientes, Antes(c), EnOrden(c), Truncar(c), ~Cae(caida')
    PROVE  LET n == Nodo(c)
               f == tabla[n]
           IN  /\ n \in Enteros(tabla, hilo[c]) /\ Enteros(tabla, hilo[c]) = Ocupados(tabla)
               /\ Responde(c, 1) /\ cola' = cola /\ modo' = 0
               /\ \E g, e : /\ tabla' = [tabla EXCEPT ![n] = g] /\ disco' = e
                            /\ g.estado = f.estado /\ g.tam <= MaxTam
                            /\ e.libres = disco.libres
                            /\ Respeta(f, disco, Cuantas(f.tam), g, e, Cuantas(g.tam))
<1> DEFINE n == Nodo(c)
           p == hilo[c].pedido
           f == tabla[n]
           tam == p.n
           crece == tam > f.tam
           hasta == tam \div TB
           r == IF crece THEN DarleEspacio(f, disco, tam - f.tam)
                ELSE EliminarNodos(f, disco, 0, hasta)
           s == IF r.fin = "ok" THEN [r EXCEPT !.f.tam = tam] ELSE r
           A == Enteros(tabla, hilo[c])
<1>1. hilo[c].paso = "truncate" /\ hilo[c].camino = <<>> /\ p.n >= 0
  BY DEF Truncar, En, Pedido
<1>2. /\ n \in Nodos /\ n = Baja(tabla, 0, p.ruta) /\ f.estado = "ocupado"
      /\ p \in Peticion /\ p.op = "truncate" /\ Cabe(tabla, p)
  <2>1. DeQuien("truncate") = {"truncate"}
    BY DEF DeQuien
  <2> QED
    BY <1>1, <2>1, ArchivoPedido
<1>3. A = Ocupados(tabla) /\ n \in A /\ A \subseteq Nodos
  BY <1>1, <1>2 DEF Enteros, Ido, Ocupados
<1>4. /\ tam \in Nat /\ tam <= MaxTam
      /\ ~(f.tam > 0 /\ f.tam % TB = 0 /\ tam >= f.tam)
  <2>1. p.n \in Int
    BY <1>2, PeticionCampos
  <2> QED
    BY <1>1, <1>2, <2>1 DEF Cabe
<1>5. Asignado(tabla, disco, A) /\ disco.libres = Cardinality(Datos) /\ modo = 0
  BY <1>1, OrdenDice DEF ModoDe
<1>6. /\ f \in Entrada /\ disco \in Disco /\ Cuantas(f.tam) <= Lugares /\ f.tam \in Nat
      /\ Entero(f, disco, Cuantas(f.tam)) /\ Cuantas(f.tam) \in Nat
  BY <1>3, <1>5, ArchivoEs DEF Antes, Servidos
<1>7. \A h : ModoTras(h) = 0
  BY <1>5 DEF ModoTras
<1>8. \/ r.fin \in Grave /\ Cae(r.fin)
      \/ /\ r.fin \notin Grave /\ Guarda(n, s) /\ Responde(c, 1) /\ cola' = cola
         /\ modo' = IF crece THEN modo ELSE 0
  <2> DEFINE x == IF crece THEN DarleEspacio(f, disco, tam - f.tam)
                  ELSE EliminarNodos(f, disco, ModoTras(hasta), hasta)
             y == IF x.fin = "ok" THEN [x EXCEPT !.f.tam = tam] ELSE x
  <2>1. \/ x.fin \in Grave /\ Cae(x.fin)
        \/ /\ x.fin \notin Grave /\ Guarda(n, y) /\ Responde(c, 1) /\ cola' = cola
           /\ modo' = IF crece THEN modo ELSE ModoTras(hasta)
    BY ZenonT(60) DEF Truncar, Pedido
  <2>2. x = r
    <3> HIDE DEF crece, hasta, tam, f
    <3> QED
      BY <1>7
  <2>3. ModoTras(hasta) = 0
    BY <1>7
  <2> HIDE DEF x, r, hasta, crece, n, f, tam
  <2>4. y = s
    BY <2>2
  <2> HIDE DEF y, s
  <2> QED
    BY SMTT(60), <2>1, <2>2, <2>3, <2>4
<1>9. Cae(r.fin) => Cae(caida')
  <2> HIDE DEF r
  <2> QED
    BY DEF Cae
<1>10. r.fin \notin Grave /\ Guarda(n, s) /\ Responde(c, 1) /\ cola' = cola /\ modo' = 0
  <2> HIDE DEF r, s, n, crece
  <2> QED
    BY <1>5, <1>8, <1>9
<1>11. r = [f |-> r.f, d |-> r.d, fin |-> r.fin]
  <2> HIDE DEF f, tam, hasta
  <2>1. CASE crece
    <3> HIDE DEF crece
    <3> QED
      BY <2>1 DEF DarleEspacio, Fin
  <2>2. CASE ~crece
    <3> HIDE DEF crece
    <3> QED
      BY <2>2 DEF EliminarNodos
  <2> HIDE DEF r
  <2> QED
    BY <2>1, <2>2
<1>12. tam <= TB * Lugares
  <2> DEFINE m == TB * Lugares
  <2>1. MaxTam \in 0..m /\ Lugares \in Nat /\ TB \in Nat
    BY LugaresSon, SacBloquesAssumption DEF Corriente
  <2>2. m \in Nat
    BY <2>1
  <2> HIDE DEF m, tam
  <2>3. tam <= m
    BY <1>4, <2>1, <2>2
  <2> QED
    BY <2>3 DEF m
<1> HIDE DEF f, tam
<1>13. CASE crece
  <2> DEFINE size == tam - f.tam
             y == DarleEspacio(f, disco, size)
  <2>1. size \in Nat \ {0} /\ f.tam + size = tam /\ ~(f.tam > 0 /\ f.tam % TB = 0)
    BY <1>4, <1>6, <1>13
  <2>2. r = y
    BY <1>13
  <2>3. Lugares > 0
    BY DEF Corriente
  <2>4. MismoNombre(f, y.f) /\ y.f \in Entrada
    BY <1>6, <2>1, NombreDarleEspacio, DarleEspacioTipo DEF Resultado
  <2> HIDE DEF size, r
  <2>5. /\ y.fin \in {"ok", "sinEspacio"} /\ y.d.libres = disco.libres
        /\ y.fin = "ok" => Respeta(f, disco, Cuantas(f.tam), y.f, y.d, Cuantas(f.tam + size))
        /\ y.fin # "ok" => y.f = f /\ y.d = disco
    <3>1. y.fin \notin Grave
      BY <1>10, <2>2
    <3>2. f.tam + size <= TB * Lugares
      BY <1>12, <2>1
    <3> QED
      BY <1>6, <2>1, <2>3, <3>1, <3>2, AlAgrandar
  <2> HIDE DEF y
  <2>6. CASE r.fin = "ok"
    <3>1. s.f = [y.f EXCEPT !.tam = tam] /\ s.d = y.d
      BY <1>11, <2>2, <2>6
    <3> DEFINE g == [y.f EXCEPT !.tam = tam]
    <3>2. g.ind = y.f.ind /\ g.tam = tam /\ g.estado = y.f.estado
      BY <2>4, ConTam
    <3> HIDE DEF g
    <3>3. Respeta(f, disco, Cuantas(f.tam), g, y.d, Cuantas(tam))
      BY <2>1, <2>2, <2>5, <2>6, <3>2, SoloInd
    <3>4. g.estado = f.estado
      BY <2>4, <3>2 DEF MismoNombre
    <3>5. tabla' = [tabla EXCEPT ![n] = g] /\ disco' = y.d
      BY <1>10, <3>1 DEF Guarda, g
    <3> HIDE DEF n, p, A, s, crece, hasta
    <3>6. \E h, e : /\ tabla' = [tabla EXCEPT ![n] = h] /\ disco' = e
                    /\ h.estado = f.estado /\ h.tam <= MaxTam
                    /\ e.libres = disco.libres
                    /\ Respeta(f, disco, Cuantas(f.tam), h, e, Cuantas(h.tam))
      BY <1>4, <2>5, <3>2, <3>3, <3>4, <3>5
    <3> QED
      BY <1>3, <1>10, <3>6 DEF n, f, A
  <2>7. CASE r.fin # "ok"
    <3>1. s.f = f /\ s.d = disco
      BY <2>2, <2>5, <2>7
    <3>2. Respeta(f, disco, Cuantas(f.tam), f, disco, Cuantas(f.tam))
      BY <1>6, RespetaIgual
    <3>3. tabla' = [tabla EXCEPT ![n] = f] /\ disco' = disco
      BY <1>10, <3>1 DEF Guarda
    <3>4. f.tam <= MaxTam
      BY <1>3, <1>5 DEF Asignado, f
    <3> HIDE DEF n, p, A, s, crece, hasta
    <3>5. \E h, e : /\ tabla' = [tabla EXCEPT ![n] = h] /\ disco' = e
                    /\ h.estado = f.estado /\ h.tam <= MaxTam
                    /\ e.libres = disco.libres
                    /\ Respeta(f, disco, Cuantas(f.tam), h, e, Cuantas(h.tam))
      BY <3>2, <3>3, <3>4
    <3> QED
      BY <1>3, <1>10, <3>5 DEF n, f, A
  <2> QED
    BY <2>6, <2>7
<1>14. CASE ~crece
  <2> DEFINE y == EliminarNodos(f, disco, 0, tam \div TB)
  <2>1. tam <= f.tam /\ ~(f.tam > 0 /\ f.tam % TB = 0 /\ tam = f.tam)
    BY <1>4, <1>6, <1>14
  <2>2. r = y
    BY <1>14
  <2>3. Cuantas(f.tam) <= PB * P
    <3> DEFINE m == PB * P
    <3>1. Lugares \in Nat /\ Lugares < m /\ m \in Nat
      BY LugaresSon, SacBloquesAssumption
    <3> HIDE DEF m
    <3>2. Cuantas(f.tam) <= m
      BY <1>6, <3>1
    <3> QED
      BY <3>2 DEF m
  <2>4. MismoNombre(f, y.f) /\ y.f \in Entrada
    <3>1. tam \div TB \in Nat
      BY <1>4, DivTipo, SacBloquesAssumption
    <3> QED
      BY <1>6, <3>1, NombreEliminarNodos, EliminarNodosTipo DEF Resultado
  <2>5. /\ Respeta(f, disco, Cuantas(f.tam), y.f, y.d, Cuantas(tam))
        /\ y.d.libres = disco.libres
    <3> HIDE DEF r
    <3> QED
      BY <1>4, <1>5, <1>6, <2>1, <2>3, AlTruncar
  <2>6. y.fin \in Grave \cup {"ok"}
    BY DEF EliminarNodos, Grave
  <2> HIDE DEF y, r
  <2>7. r.fin = "ok"
    BY <1>10, <2>2, <2>6
  <2>8. s.f = [y.f EXCEPT !.tam = tam] /\ s.d = y.d
    BY <1>11, <2>2, <2>7
  <2> DEFINE g == [y.f EXCEPT !.tam = tam]
  <2>9. g.ind = y.f.ind /\ g.tam = tam /\ g.estado = y.f.estado
    BY <2>4, ConTam
  <2> HIDE DEF g
  <2>10. Respeta(f, disco, Cuantas(f.tam), g, y.d, Cuantas(tam))
    BY <2>5, <2>9, SoloInd
  <2>11. g.estado = f.estado
    BY <2>4, <2>9 DEF MismoNombre
  <2>12. tabla' = [tabla EXCEPT ![n] = g] /\ disco' = y.d
    BY <1>10, <2>8 DEF Guarda, g
  <2> HIDE DEF n, p, A, s, crece, hasta
  <2>13. \E h, e : /\ tabla' = [tabla EXCEPT ![n] = h] /\ disco' = e
                   /\ h.estado = f.estado /\ h.tam <= MaxTam
                   /\ e.libres = disco.libres
                   /\ Respeta(f, disco, Cuantas(f.tam), h, e, Cuantas(h.tam))
    BY <1>4, <2>5, <2>9, <2>10, <2>11, <2>12
  <2> QED
    BY <1>3, <1>10, <2>13 DEF n, f, A
<1> QED
  BY SMTT(60), <1>13, <1>14

LEMMA TruncarEnOrden ==
    ASSUME Corriente, NEW c \in Clientes, Antes(c), EnOrden(c), Truncar(c)
    PROVE  EnOrden(c)'
<1>1. CASE Cae(caida')
  BY <1>1, OrdenCae
<1>2. CASE ~Cae(caida')
  <2> DEFINE n == Nodo(c)
             f == tabla[n]
             A == Enteros(tabla, hilo[c])
  <2>1. /\ n \in A /\ A = Ocupados(tabla)
        /\ Responde(c, 1) /\ cola' = cola /\ modo' = 0
        /\ \E g, e : /\ tabla' = [tabla EXCEPT ![n] = g] /\ disco' = e
                     /\ g.estado = f.estado /\ g.tam <= MaxTam
                     /\ e.libres = disco.libres
                     /\ Respeta(f, disco, Cuantas(f.tam), g, e, Cuantas(g.tam))
    BY <1>2, TruncarHace
  <2>2. PICK g : /\ tabla' = [tabla EXCEPT ![n] = g]
                 /\ g.estado = f.estado /\ g.tam <= MaxTam
                 /\ disco'.libres = disco.libres
                 /\ Respeta(f, disco, Cuantas(f.tam), g, disco', Cuantas(g.tam))
    BY <2>1
  <2>3. Memoria /\ n \in Nodos /\ A \subseteq Nodos /\ Asignado(tabla, disco, A)
    BY <2>1, OrdenDice DEF Antes, Servidos, Ocupados
  <2> HIDE DEF A, n
  <2>4. Ocupados(tabla') = A
    BY <2>1, <2>2, <2>3 DEF Ocupados, Memoria
  <2>5. Asignado(tabla', disco', Ocupados(tabla'))
    BY <2>1, <2>2, <2>3, <2>4, TablaAsignada
  <2>6. hilo[c].paso \notin Quietos
    BY DEF Truncar, En, Quietos
  <2> QED
    BY <2>1, <2>2, <2>5, <2>6, OrdenContesta
<1> QED
  BY <1>1, <1>2

LEMMA CambiarEnOrden ==
    ASSUME Corriente, NEW c \in Clientes, Antes(c), EnOrden(c), Cambiar(c)
    PROVE  EnOrden(c)'
<1>1. CASE LeerTam(c)
  <2>1. /\ hilo[c].paso = "leerTam" /\ cola' = cola
        /\ modo' = modo /\ tabla' = tabla /\ disco' = disco
    BY <1>1 DEF LeerTam, En, varsDisco, varsRed
  <2>2. Deja(c, "escribir", hilo[c].camino, hilo[c].nodo, hilo[c].viejo,
             tabla[hilo[c].nodo].tam, hilo[c].pila)
    BY <1>1, LeerTamDeja DEF Antes, Servidos
  <2>3. modo' = ModoDe("escribir") /\ hilo[c].paso \notin Quietos /\ "escribir" \notin Quietos
    BY <2>1, OrdenDice DEF ModoDe, Quietos
  <2> QED
    BY <2>1, <2>2, <2>3, OrdenPasa
<1>2. CASE EscribirSinArchivo(c)
  BY <1>2, OrdenCae DEF EscribirSinArchivo
<1>3. CASE Escribir(c)
  BY <1>3, EscribirEnOrden
<1>4. CASE NoTrunca(c)
  <2>1. /\ hilo[c].paso = "truncate" /\ Responde(c, 1) /\ cola' = cola
        /\ modo' = modo /\ tabla' = tabla /\ disco' = disco
    BY <1>4 DEF NoTrunca, En, varsDisco
  <2> QED
    BY <2>1, ContestaEnOrden DEF Quietos
<1>5. CASE Truncar(c)
  BY <1>5, TruncarEnOrden
<1> QED
  BY <1>1, <1>2, <1>3, <1>4, <1>5 DEF Cambiar

-----------------------------------------------------------------------------
(* An unlink.  Its blocks are freed with _del_mode up; until its entry     *)
(* goes the file is not counted.                                           *)
LEMMA BorrarBloquesEnOrden ==
    ASSUME Corriente, NEW c \in Clientes, Antes(c), EnOrden(c), BorrarBloques(c)
    PROVE  EnOrden(c)'
<1> DEFINE n == Nodo(c)
           f == tabla[n]
           r == EliminarNodos(f, disco, modo, 0)
           A == Enteros(tabla, hilo[c])
           p == hilo[c].pedido
<1>1. /\ hilo[c].paso = "borrarBloques" /\ hilo[c].camino = <<>>
      /\ \/ Cae(r.fin)
         \/ /\ Guarda(n, r) /\ Sigue(c, "bajarModo") /\ modo' = modo
            /\ cola' = cola
  BY DEF BorrarBloques, En, varsRed
<1>2. CASE Cae(r.fin)
  BY <1>2, OrdenCae
<1>3. CASE Guarda(n, r) /\ Sigue(c, "bajarModo") /\ modo' = modo /\ cola' = cola
  <2>1. n \in Nodos /\ n = Baja(tabla, 0, p.ruta) /\ f.estado = "ocupado" /\ Cabe(tabla, p)
        /\ p.op = "unlink" /\ p \in Peticion
    <3>1. DeQuien("borrarBloques") = {"unlink"}
      BY DEF DeQuien
    <3> QED
      BY <1>1, <3>1, ArchivoPedido
  <2>2. n \in A /\ A = Ocupados(tabla) /\ A \subseteq Nodos /\ Memoria
    BY <1>1, <2>1 DEF Enteros, Ido, Ocupados, Antes, Servidos
  <2>3. Asignado(tabla, disco, A) /\ disco.libres = Cardinality(Datos) /\ modo = 1
    BY <1>1, OrdenDice DEF ModoDe
  <2>4. /\ f \in Entrada /\ disco \in Disco /\ Cuantas(f.tam) <= Lugares
        /\ Entero(f, disco, Cuantas(f.tam)) /\ Cuantas(f.tam) \in Nat
    BY <2>2, <2>3, ArchivoEs
  <2>5. Cuantas(f.tam) <= PB * P
    <3> DEFINE m == PB * P
    <3>1. Lugares \in Nat /\ Lugares < m /\ m \in Nat
      BY LugaresSon, SacBloquesAssumption
    <3> HIDE DEF m, f
    <3>2. Cuantas(f.tam) <= m
      BY <2>4, <3>1
    <3> QED
      BY <3>2 DEF m
  <2> HIDE DEF f
  <2>6. r = EliminarNodos(f, disco, 1, 0)
    BY <2>3
  <2>7. MismoNombre(f, r.f)
    BY <2>4, <2>6, NombreEliminarNodos
  <2> HIDE DEF r
  <2>8. Respeta(f, disco, Cuantas(f.tam), r.f, r.d, 0) /\ r.d.libres = disco.libres
    BY <2>3, <2>4, <2>5, <2>6, AlDesligar
  <2>9. tabla' = [tabla EXCEPT ![n] = r.f] /\ disco' = r.d
    BY <1>3 DEF Guarda
  <2>10. Mismos(tabla, tabla')
    BY <2>7, <2>9, TablaConNombre DEF Antes, f
  <2>11. Deja(c, "bajarModo", hilo[c].camino, hilo[c].nodo, hilo[c].viejo, hilo[c].tam,
              hilo[c].pila)
    BY <1>3, SigueDeja DEF Antes, Servidos
  <2>12. PICK h : hilo' = [hilo EXCEPT ![c] = h] /\ h.pedido = p /\ h.paso = "bajarModo"
    BY <2>11 DEF Deja
  <2>13. hilo'[c] = h
    BY <2>12 DEF Antes, Servidos, Hilos
  <2>14. Baja(tabla', 0, p.ruta) = n
    <3>1. p.ruta \in Seq(Nombres) /\ 0 \in Donde
      BY <2>1, PeticionCampos DEF Donde
    <3> QED
      BY <2>1, <2>10, <3>1, BajaMismos
  <2>15. Enteros(tabla', h) \subseteq A /\ n \notin Enteros(tabla', h)
    <3>1. Ido(tabla', h) = {n}
      BY <2>12, <2>14 DEF Ido
    <3>2. Ocupados(tabla') = A
      BY <2>2, <2>10 DEF Ocupados, Mismos
    <3> QED
      BY <3>1, <3>2 DEF Enteros
  <2> DEFINE B == Enteros(tabla', h)
  <2> HIDE DEF A, n, B
  <2>16. B \subseteq A /\ n \notin B
    BY <2>15 DEF B
  <2>17. Asignado(tabla', disco', B)
    BY <2>1, <2>2, <2>3, <2>8, <2>9, <2>16, TablaAsignada DEF f
  <2>18. cola'[c] = <<>> /\ Len(<<>>) = 0 /\ 1..0 = {}
    <3>1. hilo[c].paso \notin Quietos
      BY <1>1 DEF Quietos
    <3> QED
      BY <1>3, <3>1, Ocupado, EmptySeq DEF Antes
  <2>19. disco'.libres = Cardinality(Datos) /\ modo' = ModoDe("bajarModo")
    BY <1>3, <2>3, <2>8, <2>9 DEF ModoDe
  <2>20. Cabe(tabla', p)
    BY <2>1 DEF Cabe
  <2>21. Ordenado(tabla', disco', modo', <<>>, h)
    BY <2>12, <2>17, <2>18, <2>19, <2>20 DEF Ordenado, B
  <2> QED
    BY <2>13, <2>18, <2>21 DEF EnOrden
<1> QED
  BY <1>1, <1>2, <1>3

LEMMA QuitarEnOrden ==
    ASSUME NEW c \in Clientes, Antes(c), EnOrden(c), Quitar(c)
    PROVE  EnOrden(c)'
<1> DEFINE n == Nodo(c)
           p == hilo[c].pedido
<1>1. /\ hilo[c].paso = "quitar" /\ hilo[c].camino = <<>>
      /\ Responde(c, 1) /\ cola' = cola /\ modo' = modo /\ disco' = disco
      /\ tabla' = IF TieneHijos(n) THEN tabla ELSE [tabla EXCEPT ![n].estado = "borrado"]
  BY DEF Quitar, En
<1>2. n \in Nodos /\ n = Baja(tabla, 0, p.ruta) /\ tabla[n].estado = "ocupado"
  BY <1>1, ArchivoPedido
<1>3. ~TieneHijos(n)
  <2> SUFFICES ASSUME TieneHijos(n) PROVE FALSE
    OBVIOUS
  <2>1. PICK m \in Nodos : tabla[m].estado # "borrado" /\ tabla[m].padre = n
    BY DEF TieneHijos
  <2>2. n \in Directorios(tabla)
    BY <2>1 DEF Antes, Arbolado, Colgados, Vivos
  <2> QED
    BY <1>2, <2>2 DEF Directorios, Nodos
<1>4. tabla[n] \in Entrada
  BY <1>2 DEF Antes, Servidos, Memoria
<1> DEFINE x == [tabla[n] EXCEPT !.estado = "borrado"]
<1>5. x.estado = "borrado"
  BY <1>4 DEF Entrada
<1>6. \A m \in Nodos : tabla'[m] = IF m = n THEN x ELSE tabla[m]
  BY <1>1, <1>3 DEF Antes, Servidos, Memoria
<1> HIDE DEF x
<1>7. Ido(tabla, hilo[c]) = {n}
  BY <1>1, <1>2 DEF Ido
<1> HIDE DEF n
<1>8. Ocupados(tabla') \subseteq Enteros(tabla, hilo[c])
      /\ \A m \in Ocupados(tabla') : tabla'[m] = tabla[m]
  BY <1>5, <1>6, <1>7 DEF Ocupados, Enteros
<1>9. Asignado(tabla', disco, Ocupados(tabla'))
  BY <1>8, OrdenDice, AsignadoMenos
<1>10. hilo[c].paso \notin Quietos /\ modo' = 0
  BY <1>1, OrdenDice DEF Quietos, ModoDe
<1> QED
  BY <1>1, <1>9, <1>10, OrdenContesta

LEMMA DesligarEnOrden ==
    ASSUME Corriente, NEW c \in Clientes, Antes(c), EnOrden(c), Desligar(c)
    PROVE  EnOrden(c)'
<1>1. {"subirModo", "borrarBloques", "bajarModo", "quitar"} \cap Quietos = {}
  BY DEF Quietos
<1>2. CASE SubirModo(c)
  <2>1. /\ hilo[c].paso = "subirModo" /\ Sigue(c, "borrarBloques") /\ cola' = cola
        /\ modo' = 1 /\ tabla' = tabla /\ disco' = disco
    BY <1>2 DEF SubirModo, En, varsDisco, varsRed
  <2>2. Deja(c, "borrarBloques", hilo[c].camino, hilo[c].nodo, hilo[c].viejo, hilo[c].tam,
             hilo[c].pila)
    BY <2>1, SigueDeja DEF Antes, Servidos
  <2>3. modo' = ModoDe("borrarBloques")
    BY <2>1 DEF ModoDe
  <2> QED
    BY <1>1, <2>1, <2>2, <2>3, OrdenPasa
<1>3. CASE BorrarBloques(c)
  BY <1>3, BorrarBloquesEnOrden
<1>4. CASE BorrarFuera(c)
  <2>1. hilo[c].paso = "borrarBloques" /\ hilo[c].camino = <<>> /\ Nodo(c) = NoHay
    BY <1>4 DEF BorrarFuera, En
  <2> QED
    BY <2>1, ArchivoPedido
<1>5. CASE BajarModo(c)
  <2>1. /\ hilo[c].paso = "bajarModo" /\ Busca(c, hilo[c].pedido.ruta, "quitar")
        /\ cola' = cola /\ modo' = 0 /\ tabla' = tabla /\ disco' = disco
    BY <1>5 DEF BajarModo, En, Pedido, varsDisco, varsRed
  <2>2. Deja(c, "quitar", hilo[c].pedido.ruta, 0, hilo[c].viejo, hilo[c].tam, hilo[c].pila)
    BY <2>1, BuscaDeja DEF Antes, Servidos
  <2>3. modo' = ModoDe("quitar")
    BY <2>1 DEF ModoDe
  <2> QED
    BY <1>1, <2>1, <2>2, <2>3, OrdenPasa
<1>6. CASE NadaQueQuitar(c)
  <2>1. hilo[c].paso = "quitar" /\ hilo[c].camino = <<>> /\ Nodo(c) = NoHay
    BY <1>6 DEF NadaQueQuitar, En
  <2> QED
    BY <2>1, ArchivoPedido
<1>7. CASE Quitar(c)
  BY <1>7, QuitarEnOrden
<1> QED
  BY <1>2, <1>3, <1>4, <1>5, <1>6, <1>7 DEF Desligar

LEMMA MoverEnOrden ==
    ASSUME NEW c \in Clientes, Antes(c), EnOrden(c), Mover(c)
    PROVE  EnOrden(c)'
<1> DEFINE v == hilo[c].viejo
           f == [[tabla[v] EXCEPT !.nombre = Last(Pedido(c).ruta2)] EXCEPT !.padre = Nodo(c)]
<1>1. /\ hilo[c].paso = "mover" /\ v # NoHay
      /\ Responde(c, 1) /\ cola' = cola /\ modo' = modo /\ disco' = disco
  BY DEF Mover, En
<1>2. tabla' = [tabla EXCEPT ![v] = f]
  BY DEF Mover, Antes, Servidos, Memoria
<1>3. \A m \in Nodos : tabla'[m] = IF m = v THEN f ELSE tabla[m]
  BY <1>2 DEF Antes, Servidos, Memoria
<1>4. v \in Nodos => f.ind = tabla[v].ind /\ f.tam = tabla[v].tam
                     /\ f.estado = tabla[v].estado
  <2> SUFFICES ASSUME v \in Nodos
               PROVE  f.ind = tabla[v].ind /\ f.tam = tabla[v].tam
                      /\ f.estado = tabla[v].estado
    OBVIOUS
  <2>1. tabla[v] \in Entrada
    BY DEF Antes, Servidos, Memoria
  <2> QED
    BY <2>1 DEF Entrada
<1>5. Enteros(tabla, hilo[c]) = Ocupados(tabla) /\ modo' = 0 /\ hilo[c].paso \notin Quietos
  BY <1>1, OrdenDice DEF Enteros, Ido, ModoDe, Quietos
<1> HIDE DEF f, v
<1>6. Ocupados(tabla') \subseteq Ocupados(tabla)
      /\ \A m \in Ocupados(tabla') : tabla'[m].ind = tabla[m].ind /\ tabla'[m].tam = tabla[m].tam
  BY <1>3, <1>4 DEF Ocupados
<1>7. Asignado(tabla', disco, Ocupados(tabla'))
  BY <1>5, <1>6, OrdenDice, AsignadoMenos
<1> QED
  BY <1>1, <1>5, <1>7, OrdenContesta

LEMMA RenombrarEnOrden ==
    ASSUME NEW c \in Clientes, Antes(c), EnOrden(c), Renombrar(c)
    PROVE  EnOrden(c)'
<1>1. {"rename", "viejo", "mover"} \cap (Quietos \cup {"borrarBloques", "bajarModo", "quitar"}) = {}
  BY DEF Quietos
<1>2. CASE SinViejo(c)
  <2>1. /\ hilo[c].paso = "rename" /\ Responde(c, 1) /\ cola' = cola
        /\ modo' = modo /\ tabla' = tabla /\ disco' = disco
    BY <1>2 DEF SinViejo, En, varsDisco
  <2> QED
    BY <1>1, <2>1, ContestaEnOrden
<1>3. CASE BuscarViejo(c)
  <2>1. /\ hilo[c].paso = "rename" /\ Busca(c, hilo[c].pedido.ruta, "viejo")
        /\ cola' = cola /\ modo' = modo /\ tabla' = tabla /\ disco' = disco
    BY <1>3 DEF BuscarViejo, En, Pedido, varsDisco, varsRed
  <2>2. Deja(c, "viejo", hilo[c].pedido.ruta, 0, hilo[c].viejo, hilo[c].tam, hilo[c].pila)
    BY <2>1, BuscaDeja DEF Antes, Servidos
  <2>3. modo' = ModoDe("viejo")
    BY <2>1, OrdenDice DEF ModoDe
  <2> QED
    BY <1>1, <2>1, <2>2, <2>3, OrdenPasa
<1>4. CASE BuscarDestino(c)
  <2>1. /\ hilo[c].paso = "viejo" /\ cola' = cola /\ modo' = modo /\ tabla' = tabla
        /\ disco' = disco
    BY <1>4 DEF BuscarDestino, En, varsDisco, varsRed
  <2>2. Deja(c, "mover", Front(hilo[c].pedido.ruta2), 0, hilo[c].nodo, hilo[c].tam,
             hilo[c].pila)
    BY <1>4, BuscarDestinoDeja DEF Antes, Servidos
  <2>3. modo' = ModoDe("mover")
    BY <2>1, OrdenDice DEF ModoDe
  <2> QED
    BY <1>1, <2>1, <2>2, <2>3, OrdenPasa
<1>5. CASE Mover(c)
  BY <1>5, MoverEnOrden
<1>6. CASE MoverFuera(c)
  <2>1. CASE Cae("fuera")
    BY <2>1, OrdenCae
  <2>2. CASE ~Cae("fuera")
    <3>1. /\ hilo[c].paso = "mover" /\ Responde(c, 1) /\ cola' = cola
          /\ modo' = modo /\ tabla' = tabla /\ disco' = disco
      BY <1>6, <2>2 DEF MoverFuera, En, varsDisco
    <3> QED
      BY <1>1, <3>1, ContestaEnOrden
  <2> QED
    BY <2>1, <2>2
<1> QED
  BY <1>2, <1>3, <1>4, <1>5, <1>6 DEF Renombrar

(* No directory is being emptied: none was asked to be removed.            *)
LEMMA SinBorrarCarpeta ==
    ASSUME NEW c \in Clientes, Antes(c), EnOrden(c), BorrarCarpeta(c)
    PROVE  FALSE
<1>1. hilo[c].paso \in {"rmdir", "mirar", "borrarArchivo", "revisar"}
  BY DEF BorrarCarpeta, SinCarpeta, Vaciar, Saltear, MirarArchivo, BorrarArchivo,
         BorrarPrimero, Revisar, MirarDirectorio, CerrarDirectorio, En
<1>2. DeQuien(hilo[c].paso) = {"rmdir"} /\ hilo[c].paso \notin Quietos
  BY <1>1 DEF DeQuien, Quietos
<1>3. hilo[c].pedido.op = "rmdir"
  BY <1>2, HiloTipo DEF Antes
<1>4. Cabe(tabla, hilo[c].pedido)
  BY <1>2, OrdenDice
<1> QED
  BY <1>3, <1>4 DEF Cabe

LEMMA ServidorEnOrden ==
    ASSUME Corriente, NEW c \in Clientes, Antes(c), EnOrden(c), Servidor(c)
    PROVE  EnOrden(c)'
BY TomarEnOrden, BajarEnOrden, CrearEnOrden, ConsultarEnOrden, CambiarEnOrden,
   DesligarEnOrden, RenombrarEnOrden, SinBorrarCarpeta DEF Servidor

(* The kernel asks for what fits: it looked.                               *)
LEMMA PuedeCabe ==
    ASSUME Corriente, Memoria, NEW p \in Peticion, p.op # "rmdir", Puede(p), Prometido(tabla, p)
    PROVE  Cabe(tabla, p)
<1> DEFINE n == Baja(tabla, 0, p.ruta)
<1>1. Resuelve(p.ruta) = n
  BY ResuelveEsBaja
<1>2. ~Rara(p, n) /\ Raras = {}
  BY <1>1 DEF Puede, Corriente
<1>3. p.op \in {"write", "truncate"} => tabla[n].tam \in Nat
  <2> HAVE p.op \in {"write", "truncate"}
  <2>1. n \in Nodos
    BY DEF Prometido
  <2> QED
    BY <2>1, EntradaCampos DEF Memoria
<1>4. ASSUME p.op = "write" PROVE p.off <= tabla[n].tam /\ p.off + p.n <= MaxTam
  <2>1. p.off + p.n <= MaxTam
    BY <1>4 DEF Puede
  <2>2. ~(p.off > tabla[n].tam)
    BY <1>2, <1>4 DEF Rara
  <2>3. p.off \in Nat
    BY <1>4, PeticionCampos
  <2> HIDE DEF n
  <2> QED
    BY <1>3, <1>4, <2>1, <2>2, <2>3
<1>5. ASSUME p.op = "truncate"
      PROVE  p.n <= MaxTam /\ ~(tabla[n].tam > 0 /\ tabla[n].tam % TB = 0 /\ p.n >= tabla[n].tam)
  <2>1. p.n <= MaxTam
    BY <1>5 DEF Puede
  <2>2. ~(tabla[n].tam > 0 /\ tabla[n].tam % TB = 0
          /\ (p.n = tabla[n].tam \/ p.n > tabla[n].tam))
    BY <1>2, <1>5 DEF Rara
  <2>3. p.n \in Int
    BY <1>5, PeticionCampos
  <2> DEFINE a == tabla[n].tam
             b == a % TB
             k == p.n
  <2>4. a \in Nat /\ k \in Int /\ ~(a > 0 /\ b = 0 /\ (k = a \/ k > a))
    BY <1>3, <1>5, <2>2, <2>3
  <2> HIDE DEF a, b, k
  <2>5. ~(a > 0 /\ b = 0 /\ k >= a)
    BY <2>4
  <2> QED
    BY <2>1, <2>5 DEF a, b, k
<1> QED
  BY <1>4, <1>5 DEF Cabe

LEMMA ClienteEnOrden ==
    ASSUME Corriente, TiposSac, NEW c \in Clientes, Antes(c), EnOrden(c), Cliente(c)
    PROVE  EnOrden(c)'
<1> DEFINE h == hilo[c]
<1>1. Turno(cliente[c], cola[c], eco[c], h)
  BY DEF Antes, SanoEn, Sano
<1>2. Ordenado(tabla, disco, modo, cola[c], h)
  BY DEF EnOrden
<1>3. CASE Pide(c)
  <2>1. PICK p \in Pedidos[c] : Puede(p) /\ cola' = [cola EXCEPT ![c] = Append(@, p)]
    BY <1>3 DEF Pide
  <2>2. p \in Peticion /\ p.op # "rmdir" /\ "reemplaza" \notin Raras
    BY <2>1, PedidosAssumption DEF Corriente
  <2>3. p \in Legal
    BY <2>1, <2>2, PuedeLegal
  <2>4. Cabe(tabla, p)
    BY <2>1, <2>2, <2>3, PuedePrometido, PuedeCabe DEF Antes, Servidos
  <2>5. cliente[c] = "libre" /\ tabla' = tabla /\ disco' = disco /\ modo' = modo /\ hilo' = hilo
    BY <1>3 DEF Pide, varsDisco
  <2>6. cola[c] = <<>>
    BY <1>1, <2>5 DEF Turno
  <2> DEFINE q == Append(<<>>, p)
  <2>7. cola'[c] = q
    BY <2>1, <2>6 DEF Antes, Servidos, Red
  <2>8. \A i \in 1..Len(q) : Cabe(tabla, q[i])
    <3>1. Len(q) = 1 /\ q[1] = p
      BY <2>3, AppendProperties, EmptySeq
    <3> QED
      BY <2>4, <3>1
  <2> HIDE DEF q
  <2>9. Ordenado(tabla, disco, modo, q, h)
    BY <1>2, <2>8 DEF Ordenado
  <2> QED
    BY <2>5, <2>7, <2>9 DEF EnOrden
<1>4. CASE Lee(c) \/ Desmonta(c)
  <2>1. tabla' = tabla /\ disco' = disco /\ modo' = modo /\ hilo' = hilo /\ cola' = cola
    BY <1>4 DEF Lee, Desmonta, vars, varsDisco
  <2> QED
    BY <2>1 DEF EnOrden
<1>5. CASE Cierra(c)
  <2>1. /\ h.paso = "libre" /\ Sigue(c, "fin") /\ cola' = cola
        /\ tabla' = tabla /\ disco' = disco /\ modo' = modo
    BY <1>5 DEF Cierra, Sigue, varsDisco, varsRed
  <2>2. Deja(c, "fin", h.camino, h.nodo, h.viejo, h.tam, h.pila)
    BY <2>1, SigueDeja DEF Antes, Servidos
  <2>3. PICK g : hilo' = [hilo EXCEPT ![c] = g] /\ g.paso = "fin"
    BY <2>2 DEF Deja
  <2>4. hilo'[c] = g
    BY <2>3 DEF Antes, Servidos, Hilos
  <2>5. Enteros(tabla, g) = Enteros(tabla, h) /\ ModoDe("fin") = ModoDe("libre")
    BY <2>1, <2>3 DEF Enteros, Ido, ModoDe
  <2>6. "fin" \in Quietos
    BY DEF Quietos
  <2>7. Ordenado(tabla, disco, modo, cola[c], g)
    BY <1>2, <2>1, <2>3, <2>5, <2>6 DEF Ordenado
  <2> QED
    BY <2>1, <2>4, <2>7 DEF EnOrden
<1> QED
  BY <1>3, <1>4, <1>5 DEF Cliente

LEMMA OrdenadosPaso ==
    ASSUME Corriente, TiposSac, Nombrados, Ordenados, [NextSistema]_varsSistema
    PROVE  Ordenados'
<1>1. CASE NextSistema
  <2>1. PICK c \in Clientes : Cliente(c) \/ (Servidor(c) /\ cliente' = cliente)
    BY <1>1 DEF NextSistema
  <2>2. Antes(c) /\ EnOrden(c)
    BY DEF Antes, TiposSac, Nombrados, Ordenados
  <2>3. EnOrden(c)'
    BY <2>1, <2>2, ServidorEnOrden, ClienteEnOrden
  <2>4. \A d \in Clientes : d = c
    BY DEF Corriente
  <2> QED
    BY <2>3, <2>4 DEF Ordenados
<1>2. CASE UNCHANGED varsSistema
  <2>1. tabla' = tabla /\ disco' = disco /\ modo' = modo /\ hilo' = hilo /\ cola' = cola
    BY <1>2 DEF varsSistema, vars, varsDisco, varsRed
  <2> QED
    BY <2>1 DEF Ordenados, EnOrden
<1> QED
  BY <1>1, <1>2

LEMMA OrdenadosInit == InitSistema => Ordenados
<1> SUFFICES ASSUME InitSistema, NEW c \in Clientes PROVE EnOrden(c)
  BY DEF Ordenados
<1>1. /\ hilo[c] = Ocioso /\ cola[c] = <<>> /\ modo = 0
      /\ disco.libres = Cardinality(Datos) /\ \A n \in Nodos : tabla[n] = Vacia
  BY DEF InitSistema, Init
<1>2. Ocioso.paso = "libre" /\ Vacia.estado = "borrado"
  BY DEF Ocioso, Vacia
<1>3. Enteros(tabla, Ocioso) = {}
  BY <1>1, <1>2 DEF Enteros, Ocupados
<1>4. Len(<<>>) = 0 /\ 1..0 = {} /\ ModoDe("libre") = 0 /\ "libre" \in Quietos
  BY EmptySeq DEF ModoDe, Quietos
<1>5. Asignado(tabla, disco, {})
  BY DEF Asignado
<1> HIDE DEF Ocioso
<1>6. Ordenado(tabla, disco, modo, <<>>, Ocioso)
  BY <1>1, <1>2, <1>3, <1>4, <1>5 DEF Ordenado
<1> QED
  BY <1>1, <1>6 DEF EnOrden

LEMMA CorrienteUno == Corriente => UnCliente
BY DEF Corriente, UnCliente

LEMMA OrdenadosSiempre == Corriente /\ SpecSistema => []Ordenados
<1> SUFFICES ASSUME Corriente PROVE SpecSistema => []Ordenados
  OBVIOUS
<1>1. InitSistema => Ordenados
  BY OrdenadosInit
<1>2. TiposSac /\ Nombrados /\ Ordenados /\ [NextSistema]_varsSistema => Ordenados'
  BY OrdenadosPaso
<1>3. UnCliente
  BY CorrienteUno
<1> QED
  BY <1>1, <1>2, <1>3, TiposInvariante, NombradosSiempre, PTL DEF SpecSistema

-----------------------------------------------------------------------------
(* The theorems.                                                           *)
LEMMA PosicionesSon ==
    ASSUME Memoria, NEW n \in Nodos
    PROVE  /\ Posiciones(n) = 0..Cuantas(tabla[n].tam) - 1
           /\ Cuantas(tabla[n].tam) \in Nat
<1> DEFINE t == tabla[n].tam
<1>1. t \in Nat
  BY EntradaCampos DEF Memoria
<1>2. Ultima(t) \in Int
  BY <1>1, UltimaCota
<1>3. Max({0, Ultima(t)}) \in Int
  BY <1>2, MaxDeDos
<1>4. Cuantas(t) \in Nat
  BY <1>1, CuantasSon
<1> DEFINE m == Max({0, Ultima(t)})
<1>5. Cuantas(t) = m + 1 /\ Posiciones(n) = 0..m /\ m \in Int
  BY <1>3 DEF Cuantas, Posiciones
<1> HIDE DEF m, t
<1>6. Posiciones(n) = 0..Cuantas(t) - 1
  BY <1>5
<1> QED
  BY <1>4, <1>6 DEF t

(* A use of a block is of position q of a file, or of its pointer block.   *)
EsUso(u, n, q) ==
    /\ q \in 0..Cuantas(tabla[n].tam) - 1
    /\ \/ u = <<n, "dato", q>> /\ Bloque(u) = Numero(tabla[n], disco, q)
       \/ u = <<n, "puntero", q \div P>> /\ Bloque(u) = tabla[n].ind[q \div P]

LEMMA UsoEs ==
    ASSUME Memoria, NEW u \in Usos
    PROVE  \E n \in Ocupados(tabla) : \E q : EsUso(u, n, q)
<1>1. PICK n \in Archivos : u \in {<<n, "dato", q>> : q \in Posiciones(n)}
                              \cup {<<n, "puntero", q \div P>> : q \in Posiciones(n)}
  BY DEF Usos
<1>2. n \in Ocupados(tabla) /\ n \in Nodos
  BY DEF Archivos, Ocupados
<1>3. PICK q \in Posiciones(n) : u = <<n, "dato", q>> \/ u = <<n, "puntero", q \div P>>
  BY <1>1
<1>4. q \in 0..Cuantas(tabla[n].tam) - 1
  BY <1>2, PosicionesSon
<1>5. /\ u = <<n, "dato", q>> => Bloque(u) = Numero(tabla[n], disco, q)
      /\ u = <<n, "puntero", q \div P>> => Bloque(u) = tabla[n].ind[q \div P]
  BY DEF Bloque
<1>6. EsUso(u, n, q)
  BY <1>3, <1>4, <1>5 DEF EsUso
<1> QED
  BY <1>2, <1>6

LEMMA UsoSuyo ==
    ASSUME NEW n, NEW u, NEW q, EsUso(u, n, q)
    PROVE  Bloque(u) \in Suyos(tabla, disco, n)
BY DEF EsUso, Suyos, BloquesEn

LEMMA UsosDeUno ==
    ASSUME NEW n, Entero(tabla[n], disco, Cuantas(tabla[n].tam)),
           NEW u, NEW q, EsUso(u, n, q), NEW v, NEW s, EsUso(v, n, s), u # v
    PROVE  Bloque(u) # Bloque(v)
<1> DEFINE f == tabla[n]
           k == Cuantas(f.tam)
<1>1. q \in 0..k - 1 /\ s \in 0..k - 1
  BY DEF EsUso
<1>2. /\ Numero(f, disco, q) # f.ind[s \div P] /\ Numero(f, disco, s) # f.ind[q \div P]
      /\ Numero(f, disco, q) = Numero(f, disco, s) => q = s
      /\ f.ind[q \div P] = f.ind[s \div P] => q \div P = s \div P
  BY <1>1 DEF Entero
<1> QED
  BY <1>2 DEF EsUso

(* With nobody unlinking, the blocks of every file are its own.            *)
LEMMA QuietoAsignado ==
    ASSUME Corriente, TiposSac, Ordenados, Quieto
    PROVE  Asignado(tabla, disco, Ocupados(tabla))
<1>1. PICK c \in Clientes : TRUE
  BY DEF Corriente
<1>2. Asignado(tabla, disco, Enteros(tabla, hilo[c]))
  BY <1>1, OrdenDice DEF Ordenados
<1>3. Ido(tabla, hilo[c]) = {}
  BY <1>1 DEF Quieto, Ido
<1> QED
  BY <1>2, <1>3 DEF Enteros

LEMMA OrdenadosCubierto ==
    ASSUME Corriente, TiposSac, Ordenados
    PROVE  Cubierto
<1> SUFFICES ASSUME Quieto, NEW u \in Usos PROVE Bloque(u) \in disco.usados
  BY DEF Cubierto
<1>1. Asignado(tabla, disco, Ocupados(tabla)) /\ Memoria
  BY QuietoAsignado DEF TiposSac, Servidos
<1>2. PICK n \in Ocupados(tabla) : \E q : EsUso(u, n, q)
  BY <1>1, UsoEs
<1>3. Bloque(u) \in Suyos(tabla, disco, n)
  BY <1>2, UsoSuyo
<1>4. Entero(tabla[n], disco, Cuantas(tabla[n].tam)) /\ Cuantas(tabla[n].tam) \in Nat
  BY <1>1, PosicionesSon DEF Asignado, Ocupados
<1>5. Suyos(tabla, disco, n) \subseteq disco.usados
  BY <1>4, BloquesTomados DEF Suyos
<1> QED
  BY <1>3, <1>5

LEMMA OrdenadosSinCompartir ==
    ASSUME Corriente, TiposSac, Ordenados
    PROVE  SinCompartir
<1> SUFFICES ASSUME Quieto, NEW u \in Usos, NEW v \in Usos, u # v
             PROVE  Bloque(u) # Bloque(v)
  BY DEF SinCompartir
<1>1. Asignado(tabla, disco, Ocupados(tabla)) /\ Memoria
  BY QuietoAsignado DEF TiposSac, Servidos
<1>2. PICK n \in Ocupados(tabla) : \E q : EsUso(u, n, q)
  BY <1>1, UsoEs
<1>3. PICK m \in Ocupados(tabla) : \E q : EsUso(v, m, q)
  BY <1>1, UsoEs
<1>4. CASE n = m
  <2>1. Entero(tabla[n], disco, Cuantas(tabla[n].tam))
    BY <1>1 DEF Asignado
  <2> QED
    BY <1>2, <1>3, <1>4, <2>1, UsosDeUno
<1>5. CASE n # m
  <2>1. Suyos(tabla, disco, n) \cap Suyos(tabla, disco, m) = {}
    BY <1>1, <1>5 DEF Asignado
  <2>2. Bloque(u) \in Suyos(tabla, disco, n) /\ Bloque(v) \in Suyos(tabla, disco, m)
    BY <1>2, <1>3, UsoSuyo
  <2> QED
    BY <2>1, <2>2
<1> QED
  BY <1>4, <1>5

(* For one client and the calls of Corriente, whatever the files, their    *)
(* sizes and their order: each position of a file has a block taken.       *)
THEOREM CubiertoSiempre == Corriente /\ SpecSistema => []Cubierto
<1> SUFFICES ASSUME Corriente PROVE SpecSistema => []Cubierto
  OBVIOUS
<1>1. TiposSac /\ Ordenados => Cubierto
  BY OrdenadosCubierto
<1> QED
  BY <1>1, TiposInvariante, OrdenadosSiempre, PTL

(* And no block is used twice.                                             *)
THEOREM SinCompartirSiempre == Corriente /\ SpecSistema => []SinCompartir
<1> SUFFICES ASSUME Corriente PROVE SpecSistema => []SinCompartir
  OBVIOUS
<1>1. TiposSac /\ Ordenados => SinCompartir
  BY OrdenadosSinCompartir
<1> QED
  BY <1>1, TiposInvariante, OrdenadosSiempre, PTL

-----------------------------------------------------------------------------
(* A request to write is answered by o_write alone.                        *)
LEMMA SoloEscribir ==
    ASSUME Corriente, TiposSac, Nombrados, [NextSistema]_varsSistema,
           NEW c \in Clientes, hilo[c].paso = "escribir", hilo'[c].paso = "libre"
    PROVE  Escribir(c) /\ ~Cae(caida')
<1>1. hilo' # hilo
  OBVIOUS
<1>2. NextSistema
  BY <1>1 DEF varsSistema, vars
<1>3. Cliente(c) \/ Servidor(c)
  <2>1. PICK d \in Clientes : Cliente(d) \/ Servidor(d)
    BY <1>2 DEF NextSistema
  <2>2. d = c
    BY DEF Corriente
  <2> QED
    BY <2>1, <2>2
<1>4. ~Cliente(c)
  BY <1>1 DEF Cliente, Pide, Lee, Desmonta, Cierra, vars
<1>5. ~Tomar(c)
  BY DEF Tomar
<1>6. ~Bajar(c)
  <2>1. hilo[c].camino = <<>>
    BY HiloTipo DEF TiposSac, ConEntrada
  <2> QED
    BY <2>1 DEF Bajar
<1>7. ~Crear(c) /\ ~Consultar(c)
  BY DEF Crear, YaExiste, BuscarMadre, SinMadre, TablaLlena, CrearArchivo, CrearDirectorio,
         Consultar, Atributos, SinDirectorio, Listar, Leer, En
<1>8. ~Desligar(c) /\ ~Renombrar(c)
  BY DEF Desligar, SubirModo, BorrarBloques, BorrarFuera, BajarModo, NadaQueQuitar, Quitar,
         Renombrar, SinViejo, BuscarViejo, BuscarDestino, Mover, MoverFuera, En
<1>9. ~BorrarCarpeta(c)
  BY DEF BorrarCarpeta, SinCarpeta, Vaciar, Saltear, MirarArchivo, BorrarArchivo,
         BorrarPrimero, Revisar, MirarDirectorio, CerrarDirectorio, En
<1>10. Cambiar(c) => Escribir(c)
  BY DEF Cambiar, LeerTam, EscribirSinArchivo, NoTrunca, Truncar, En
<1>11. ~Cae(caida')
  BY <1>1 DEF Cae
<1> QED
  BY <1>3, <1>4, <1>5, <1>6, <1>7, <1>8, <1>9, <1>10, <1>11 DEF Servidor

LEMMA EscribeAlli ==
    ASSUME Corriente, TiposSac, Nombrados, Ordenados,
           NEW c \in Clientes, Escribir(c), ~Cae(caida')
    PROVE  LET n == hilo[c].nodo
               q == hilo[c].pedido.off \div TB
           IN  /\ disco'.cont[Numero(tabla'[n], disco', q)] = Bytes(q)
               /\ \A u \in Usos : u[2] = "dato" /\ u # <<n, "dato", q>> =>
                    disco'.cont[Bloque(u)] = disco.cont[Bloque(u)]
<1> DEFINE n == Nodo(c)
           p == hilo[c].pedido
           r == Escribe(tabla[n], disco, tabla[n].tam, p.off, p.n)
           q == p.off \div TB
           f == tabla[n]
           k == Cuantas(f.tam)
           A == Ocupados(tabla)
<1>1. Antes(c) /\ EnOrden(c) /\ Memoria
  BY DEF Antes, TiposSac, Servidos, Nombrados, Ordenados
<1>2. /\ n \in A /\ Enteros(tabla, hilo[c]) = A
      /\ Escrito(f, disco, p.off, p.n, r) /\ Guarda(n, r)
  BY <1>1, EscribirHace
<1>3. tabla'[n] = r.f /\ disco' = r.d
  BY <1>1, <1>2 DEF Guarda, Memoria, Ocupados
<1> HIDE DEF r
<1>4. Asignado(tabla, disco, A)
  <2> HIDE DEF A, n
  <2> QED
    BY SMTT(60), <1>1, <1>2, OrdenDice
<1>5. /\ Respeta(f, disco, k, r.f, r.d, Cuantas(r.f.tam))
      /\ r.d.cont[Numero(r.f, r.d, q)] = Bytes(q)
      /\ \A s \in 0..k - 1 : s # q =>
            r.d.cont[Numero(f, disco, s)] = disco.cont[Numero(f, disco, s)]
  <2> HIDE DEF f, A, n
  <2> QED
    BY <1>2 DEF Escrito
<1>6. Suyos(tabla, disco, n) = BloquesEn(f, disco, k)
  BY DEF Suyos
<1> HIDE DEF q, k, f, n, A
<1>7. ASSUME NEW u \in Usos, u[2] = "dato", u # <<n, "dato", q>>
      PROVE  disco'.cont[Bloque(u)] = disco.cont[Bloque(u)]
  <2>1. PICK m \in A : \E s : EsUso(u, m, s)
    BY <1>1, UsoEs DEF A
  <2>2. PICK s : EsUso(u, m, s)
    BY <2>1
  <2>3. /\ u = <<m, "dato", s>> /\ Bloque(u) = Numero(tabla[m], disco, s)
        /\ s \in 0..Cuantas(tabla[m].tam) - 1
    BY <1>7, <2>2 DEF EsUso
  <2>4. CASE m = n
    <3>1. s # q
      BY <1>7, <2>3, <2>4
    <3>2. s \in 0..k - 1 /\ Bloque(u) = Numero(f, disco, s)
      BY <2>3, <2>4 DEF f, k
    <3> QED
      BY <1>3, <1>5, <3>1, <3>2
  <2>5. CASE m # n
    <3>1. Bloque(u) \in Suyos(tabla, disco, m)
      BY <2>2, UsoSuyo
    <3>2. Suyos(tabla, disco, m) \cap Suyos(tabla, disco, n) = {}
      BY <1>2, <1>4, <2>5 DEF Asignado
    <3>3. Suyos(tabla, disco, m) \subseteq disco.usados
      <4>1. Entero(tabla[m], disco, Cuantas(tabla[m].tam)) /\ Cuantas(tabla[m].tam) \in Nat
        BY <1>1, <1>4, PosicionesSon DEF Asignado, A, Ocupados
      <4> QED
        BY <4>1, BloquesTomados DEF Suyos
    <3>4. Bloque(u) \in disco.usados \ BloquesEn(f, disco, k)
      BY <1>6, <3>1, <3>2, <3>3
    <3> QED
      BY <1>3, <1>5, <3>4 DEF Respeta
  <2> QED
    BY <2>4, <2>5
<1>8. disco'.cont[Numero(tabla'[n], disco', q)] = Bytes(q)
  BY <1>3, <1>5
<1> QED
  BY <1>7, <1>8 DEF n, q, Nodo

(* What is written is in the block of its position, and the data of every  *)
(* other position of every file is what it was.                            *)
THEOREM EscrituraEnSuLugar == Corriente /\ SpecSistema => EscribeEnSuLugar
<1> DEFINE EnLugar ==
             \A c \in Clientes :
                LET n == hilo[c].nodo
                    q == hilo[c].pedido.off \div TB
                    bien == hilo[c].pedido.off <= tabla[n].tam
                IN  hilo[c].paso = "escribir" /\ hilo'[c].paso = "libre" /\ bien =>
                    /\ disco'.cont[Numero(tabla'[n], disco', q)] = Bytes(q)
                    /\ \A u \in Usos : u[2] = "dato" /\ u # <<n, "dato", q>> =>
                            disco'.cont[Bloque(u)] = disco.cont[Bloque(u)]
<1> SUFFICES ASSUME Corriente PROVE SpecSistema => EscribeEnSuLugar
  OBVIOUS
<1>1. TiposSac /\ Nombrados /\ Ordenados /\ [NextSistema]_varsSistema => EnLugar
  BY SoloEscribir, EscribeAlli
<1>2. UnCliente
  BY CorrienteUno
<1> HIDE DEF EnLugar
<1>3. TiposSac /\ Nombrados /\ Ordenados /\ [NextSistema]_varsSistema => [EnLugar]_varsSistema
  BY <1>1
<1>4. SpecSistema => [][EnLugar]_varsSistema
  BY <1>2, <1>3, TiposInvariante, NombradosSiempre, OrdenadosSiempre, PTL DEF SpecSistema
<1> QED
  BY <1>4, PTL DEF EscribeEnSuLugar, EnLugar
=============================================================================
