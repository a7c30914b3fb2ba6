----------------------------- MODULE SacNombres -----------------------------
(***************************************************************************)
(* The names of the file server, proved for one client with any disk and   *)
(* any requests: the table of nodes is a tree, and what a request does to  *)
(* it is what SacArbol says.                                               *)
(***************************************************************************)
EXTENDS SacTipos

-----------------------------------------------------------------------------
(* The table as a tree.  What is live hangs from the root or a live        *)
(* directory, no two entries of a directory have one name, and each is at  *)
(* the end of a path: that of its directory, and its name.                 *)
Vivos(t) == {n \in Nodos : t[n].estado # "borrado"}
Directorios(t) == {0} \cup {n \in Nodos : t[n].estado = "directorio"}

Colgados(t) ==
    \A n \in Vivos(t) : t[n].padre \in Directorios(t) /\ t[n].nombre \in Nombres

Distintos(t) ==
    \A m, n \in Vivos(t) :
        t[m].padre = t[n].padre /\ t[m].nombre = t[n].nombre => m = n

RutaDe(C, n) == IF n = 0 THEN <<>> ELSE C[n]

Caminos(t, C) ==
    /\ C \in [Vivos(t) -> Seq(Nombres)]
    /\ \A n \in Vivos(t) : C[n] = Append(RutaDe(C, t[n].padre), t[n].nombre)

Arbolado(t) == Colgados(t) /\ Distintos(t) /\ \E C : Caminos(t, C)

-----------------------------------------------------------------------------
(* Sequences: the last element and the rest.                               *)
LEMMA ConUltimo ==
    ASSUME NEW S, NEW q \in Seq(S), NEW x \in S
    PROVE  /\ Append(q, x) \in Seq(S) /\ Append(q, x) # <<>>
           /\ Len(Append(q, x)) = Len(q) + 1
           /\ Front(Append(q, x)) = q /\ Last(Append(q, x)) = x
<1> DEFINE r == Append(q, x)
<1>1. /\ r \in Seq(S) /\ Len(r) = Len(q) + 1
      /\ \A i \in 1..Len(q) : r[i] = q[i]
      /\ r[Len(q) + 1] = x
  BY AppendProperties
<1>2. Len(q) \in Nat
  BY LenProperties
<1> HIDE DEF r
<1>3. r # <<>>
  BY <1>1, <1>2
<1>4. /\ Front(r) \in Seq(S) /\ Len(Front(r)) = Len(r) - 1
      /\ \A i \in 1..Len(r) - 1 : Front(r)[i] = r[i]
  BY <1>1, <1>3, FrontTipo
<1>5. Len(Front(r)) = Len(q) /\ \A i \in 1..Len(q) : Front(r)[i] = q[i]
  BY <1>1, <1>2, <1>4
<1>6. Front(r) = q
  BY <1>4, <1>5, SeqEqual
<1>7. Last(r) = x
  BY <1>1 DEF Last
<1> QED
  BY <1>1, <1>3, <1>6, <1>7 DEF r

LEMMA SinUltimo ==
    ASSUME NEW S, NEW r \in Seq(S), r # <<>>
    PROVE  r = Append(Front(r), Last(r)) /\ Len(Front(r)) \in Nat /\ Len(r) = Len(Front(r)) + 1
<1> DEFINE q == Front(r)
           x == Last(r)
<1>1. q \in Seq(S) /\ x \in S /\ Len(q) = Len(r) - 1 /\ \A i \in 1..Len(r) - 1 : q[i] = r[i]
  BY FrontTipo
<1>2. Len(r) \in Nat /\ Len(q) \in Nat /\ x = r[Len(r)]
  BY <1>1, LenProperties DEF Last
<1> HIDE DEF q, x
<1>3. /\ Append(q, x) \in Seq(S) /\ Len(Append(q, x)) = Len(q) + 1
      /\ \A i \in 1..Len(q) : Append(q, x)[i] = q[i]
      /\ Append(q, x)[Len(q) + 1] = x
  BY <1>1, AppendProperties
<1>4. Len(Append(q, x)) = Len(r)
  BY <1>1, <1>2, <1>3
<1>5. \A i \in 1..Len(r) : Append(q, x)[i] = r[i]
  <2> TAKE i \in 1..Len(r)
  <2>1. CASE i = Len(r)
    <3>1. i = Len(q) + 1
      BY <1>1, <1>2, <2>1
    <3> QED
      BY <1>2, <1>3, <2>1, <3>1
  <2>2. CASE i # Len(r)
    <3>1. i \in 1..Len(q) /\ i \in 1..Len(r) - 1
      BY <1>1, <1>2, <2>2
    <3> QED
      BY <1>1, <1>3, <3>1
  <2> QED
    BY <2>1, <2>2
<1>6. Append(q, x) = r
  BY <1>3, <1>4, <1>5, SeqEqual
<1> QED
  BY <1>1, <1>2, <1>6 DEF q, x

-----------------------------------------------------------------------------
(* The child of a name, and looking up one name more or one less.          *)
LEMMA HijoEnEs ==
    ASSUME NEW t, NEW p, NEW x, HijoEn(t, p, x) \in Nodos
    PROVE  EsHijoEn(t, HijoEn(t, p, x), p, x)
<1> DEFINE S == {m \in Nodos : EsHijoEn(t, m, p, x)}
<1>1. NoHay \notin Nodos
  BY DEF NoHay, Nodos
<1>2. S # {}
  BY <1>1 DEF HijoEn
<1>3. S \subseteq Nat
  BY DEF Nodos
<1>4. Min(S) \in S
  BY <1>2, <1>3, MinDeNaturales
<1>5. HijoEn(t, p, x) = Min(S)
  BY <1>2 DEF HijoEn
<1> QED
  BY <1>4, <1>5

LEMMA HijoEnUnico ==
    ASSUME NEW t, NEW p, NEW x, NEW n \in Nodos, Distintos(t), EsHijoEn(t, n, p, x)
    PROVE  HijoEn(t, p, x) = n
<1> DEFINE S == {m \in Nodos : EsHijoEn(t, m, p, x)}
<1>1. S # {} /\ S \subseteq Nat
  BY DEF Nodos
<1>2. HijoEn(t, p, x) \in Nodos
  <2>1. Min(S) \in S
    BY <1>1, MinDeNaturales
  <2> QED
    BY <1>1, <2>1 DEF HijoEn
<1>3. EsHijoEn(t, HijoEn(t, p, x), p, x)
  BY <1>2, HijoEnEs
<1> HIDE DEF S
<1> QED
  BY <1>2, <1>3 DEF Distintos, Vivos, EsHijoEn

LEMMA BajaUno ==
    ASSUME NEW t, NEW n \in Donde, NEW q \in Seq(Nombres), NEW x \in Nombres
    PROVE  Baja(t, n, Append(q, x)) = HijoEn(t, Baja(t, n, q), x)
<1> DEFINE r == Append(q, x)
           y == Bajadas(t, n, q)
           z == Bajadas(t, n, r)
           S == {k \in 0..Len(q) : z[k] = y[k]}
<1>1. Len(q) \in Nat
  BY LenProperties
<1>2. /\ r \in Seq(Nombres) /\ Len(r) = Len(q) + 1
      /\ \A i \in 1..Len(q) : r[i] = q[i]
      /\ r[Len(q) + 1] = x
  BY AppendProperties
<1>3. y[0] = n /\ \A i \in 1..Len(q) : y[i] = HijoEn(t, y[i - 1], q[i])
  <2>1. Descenso(y, t, n, q)
    BY BajadasDef
  <2> HIDE DEF y
  <2> QED
    BY <2>1 DEF Descenso
<1>4. z[0] = n /\ \A i \in 1..Len(r) : z[i] = HijoEn(t, z[i - 1], r[i])
  <2>1. Descenso(z, t, n, r)
    BY <1>2, BajadasDef
  <2> HIDE DEF z, r
  <2> QED
    BY <2>1 DEF Descenso
<1>5. Baja(t, n, q) = y[Len(q)] /\ Baja(t, n, r) = z[Len(r)]
  BY DEF Baja
<1> HIDE DEF r, y, z
<1>6. 0 \in S
  BY <1>1, <1>3, <1>4
<1>7. \A k \in 0..Len(q) - 1 : k \in S => k + 1 \in S
  <2> SUFFICES ASSUME NEW k \in 0..Len(q) - 1, k \in S PROVE k + 1 \in S
    OBVIOUS
  <2>1. k + 1 \in 1..Len(q) /\ k + 1 \in 1..Len(r) /\ (k + 1) - 1 = k
    BY <1>1, <1>2
  <2>2. y[k + 1] = HijoEn(t, y[k], q[k + 1])
    BY <1>3, <2>1
  <2>3. z[k + 1] = HijoEn(t, z[k], r[k + 1])
    BY <1>4, <2>1
  <2>4. k + 1 \in 0..Len(q)
    BY <1>1, <2>1
  <2> QED
    BY <1>2, <2>1, <2>2, <2>3, <2>4
<1>8. 0..Len(q) \subseteq S
  BY <1>1, <1>6, <1>7, InduccionHasta
<1>9. z[Len(q)] = y[Len(q)]
  BY <1>1, <1>8
<1>10. Len(r) \in 1..Len(r) /\ Len(r) - 1 = Len(q)
  BY <1>1, <1>2
<1>11. z[Len(r)] = HijoEn(t, z[Len(q)], x)
  BY <1>2, <1>4, <1>10
<1> QED
  BY <1>5, <1>9, <1>11 DEF r

LEMMA BajaSigue ==
    ASSUME NEW t, NEW n \in Donde, NEW r \in Seq(Nombres), r # <<>>
    PROVE  Baja(t, n, r) = Baja(t, HijoEn(t, n, Head(r)), Tail(r))
<1> DEFINE m == HijoEn(t, n, Head(r))
           y == Bajadas(t, m, Tail(r))
           z == Bajadas(t, n, r)
           S == {k \in 0..Len(Tail(r)) : z[k + 1] = y[k]}
<1>1. /\ Tail(r) \in Seq(Nombres) /\ Len(Tail(r)) = Len(r) - 1
      /\ \A i \in 1..Len(Tail(r)) : Tail(r)[i] = r[i + 1]
      /\ Head(r) = r[1]
  BY HeadTailProperties
<1>2. Len(r) \in Nat \ {0} /\ Len(Tail(r)) \in Nat
  BY <1>1, LenProperties, EmptySeq
<1>3. m \in Donde
  BY HijoEnTipo DEF Donde
<1>4. y[0] = m /\ \A i \in 1..Len(Tail(r)) : y[i] = HijoEn(t, y[i - 1], Tail(r)[i])
  <2>1. Descenso(y, t, m, Tail(r))
    BY <1>1, <1>3, BajadasDef
  <2> HIDE DEF y, m
  <2> QED
    BY <2>1 DEF Descenso
<1>5. z[0] = n /\ \A i \in 1..Len(r) : z[i] = HijoEn(t, z[i - 1], r[i])
  <2>1. Descenso(z, t, n, r)
    BY BajadasDef
  <2> HIDE DEF z
  <2> QED
    BY <2>1 DEF Descenso
<1>6. Baja(t, n, r) = z[Len(r)] /\ Baja(t, m, Tail(r)) = y[Len(Tail(r))]
  BY DEF Baja
<1>7. z[1] = m
  <2>1. 1 \in 1..Len(r) /\ 1 - 1 = 0
    BY <1>2
  <2> QED
    BY <1>1, <1>5, <2>1
<1> HIDE DEF m, y, z
<1>8. 0 \in S
  BY <1>2, <1>4, <1>7
<1>9. \A k \in 0..Len(Tail(r)) - 1 : k \in S => k + 1 \in S
  <2> SUFFICES ASSUME NEW k \in 0..Len(Tail(r)) - 1, k \in S PROVE k + 1 \in S
    OBVIOUS
  <2>1. /\ k + 1 \in 1..Len(Tail(r)) /\ (k + 1) + 1 \in 1..Len(r)
        /\ (k + 1) - 1 = k /\ ((k + 1) + 1) - 1 = k + 1
    BY <1>1, <1>2
  <2>2. y[k + 1] = HijoEn(t, y[k], Tail(r)[k + 1])
    BY <1>4, <2>1
  <2>3. z[(k + 1) + 1] = HijoEn(t, z[k + 1], r[(k + 1) + 1])
    BY <1>5, <2>1
  <2>4. k + 1 \in 0..Len(Tail(r)) /\ Tail(r)[k + 1] = r[(k + 1) + 1]
    BY <1>1, <1>2, <2>1
  <2> QED
    BY <2>2, <2>3, <2>4
<1>10. 0..Len(Tail(r)) \subseteq S
  BY <1>2, <1>8, <1>9, InduccionHasta
<1>11. Len(Tail(r)) \in S /\ Len(Tail(r)) + 1 = Len(r)
  BY <1>1, <1>2, <1>10
<1> QED
  BY <1>6, <1>11 DEF m

-----------------------------------------------------------------------------
(* Tables that say the same of names.                                      *)
Mismos(t, u) ==
    \A n \in Nodos : /\ u[n].estado = t[n].estado
                     /\ u[n].nombre = t[n].nombre
                     /\ u[n].padre = t[n].padre

LEMMA HijoEnMismos ==
    ASSUME NEW t, NEW u, Mismos(t, u)
    PROVE  \A p, x : HijoEn(u, p, x) = HijoEn(t, p, x)
<1> SUFFICES ASSUME NEW p, NEW x PROVE HijoEn(u, p, x) = HijoEn(t, p, x)
  OBVIOUS
<1>1. {n \in Nodos : EsHijoEn(u, n, p, x)} = {n \in Nodos : EsHijoEn(t, n, p, x)}
  BY DEF Mismos, EsHijoEn
<1> QED
  BY <1>1 DEF HijoEn

LEMMA BajaMismos ==
    ASSUME NEW t, NEW u, Mismos(t, u), NEW n \in Donde, NEW r \in Seq(Nombres)
    PROVE  Baja(u, n, r) = Baja(t, n, r)
<1> DEFINE y == Bajadas(t, n, r)
           z == Bajadas(u, n, r)
           S == {k \in 0..Len(r) : z[k] = y[k]}
<1>1. Len(r) \in Nat
  BY LenProperties
<1>2. Descenso(y, t, n, r) /\ Descenso(z, u, n, r)
  BY BajadasDef
<1>3. Baja(u, n, r) = z[Len(r)] /\ Baja(t, n, r) = y[Len(r)]
  BY DEF Baja
<1> HIDE DEF y, z
<1>4. 0 \in S
  BY <1>1, <1>2 DEF Descenso
<1>5. \A k \in 0..Len(r) - 1 : k \in S => k + 1 \in S
  <2> SUFFICES ASSUME NEW k \in 0..Len(r) - 1, k \in S PROVE k + 1 \in S
    OBVIOUS
  <2>1. k + 1 \in 1..Len(r) /\ (k + 1) - 1 = k
    BY <1>1
  <2>2. y[k + 1] = HijoEn(t, y[k], r[k + 1]) /\ z[k + 1] = HijoEn(u, z[k], r[k + 1])
    BY <1>2, <2>1 DEF Descenso
  <2>3. k + 1 \in 0..Len(r)
    BY <1>1
  <2> QED
    BY <2>2, <2>3, HijoEnMismos
<1>6. 0..Len(r) \subseteq S
  BY <1>1, <1>4, <1>5, InduccionHasta
<1> QED
  BY <1>1, <1>3, <1>6

LEMMA VivosMismos ==
    ASSUME NEW t, NEW u, Mismos(t, u)
    PROVE  Vivos(u) = Vivos(t) /\ Directorios(u) = Directorios(t)
BY DEF Mismos, Vivos, Directorios

LEMMA ArboladoMismos ==
    ASSUME NEW t, NEW u, Mismos(t, u), Arbolado(t)
    PROVE  Arbolado(u)
<1>1. \A n \in Vivos(t) : n \in Nodos
  BY DEF Vivos
<1>2. Colgados(u)
  BY <1>1, VivosMismos DEF Mismos, Colgados, Arbolado
<1>3. Distintos(u)
  BY <1>1, VivosMismos DEF Mismos, Distintos, Arbolado
<1>4. PICK C : Caminos(t, C)
  BY DEF Arbolado
<1>5. Caminos(u, C)
  BY <1>1, <1>4, VivosMismos DEF Mismos, Caminos
<1> QED
  BY <1>2, <1>3, <1>5 DEF Arbolado

-----------------------------------------------------------------------------
(* In a tree the path of each live entry leads to it, and no other path    *)
(* does.                                                                   *)
LEMMA CaminoCampos ==
    ASSUME NEW t, Colgados(t), NEW C, Caminos(t, C), NEW n \in Vivos(t)
    PROVE  /\ C[n] = Append(RutaDe(C, t[n].padre), t[n].nombre)
           /\ t[n].nombre \in Nombres
           /\ t[n].padre = 0 \/ t[n].padre \in Vivos(t)
           /\ RutaDe(C, t[n].padre) \in Seq(Nombres)
           /\ n \in Nodos
<1>1. t[n].nombre \in Nombres /\ t[n].padre \in Directorios(t)
  BY DEF Colgados
<1>2. t[n].padre = 0 \/ t[n].padre \in Vivos(t)
  BY <1>1 DEF Directorios, Vivos
<1>3. RutaDe(C, t[n].padre) \in Seq(Nombres)
  <2>1. CASE t[n].padre = 0
    BY <2>1, EmptySeq DEF RutaDe
  <2>2. CASE t[n].padre # 0
    BY <1>2, <2>2 DEF RutaDe, Caminos
  <2> QED
    BY <2>1, <2>2
<1> QED
  BY <1>1, <1>2, <1>3 DEF Caminos, Vivos

LEMMA CaminoLleva ==
    ASSUME NEW t, Colgados(t), Distintos(t), NEW C, Caminos(t, C)
    PROVE  \A n \in Vivos(t) : Baja(t, 0, C[n]) = n
<1> DEFINE S == {k \in Nat : \A n \in Vivos(t) : Len(C[n]) <= k => Baja(t, 0, C[n]) = n}
<1>1. \A n \in Vivos(t) : Len(C[n]) = Len(RutaDe(C, t[n].padre)) + 1
                          /\ Len(RutaDe(C, t[n].padre)) \in Nat /\ C[n] \in Seq(Nombres)
  <2> TAKE n \in Vivos(t)
  <2>1. /\ C[n] = Append(RutaDe(C, t[n].padre), t[n].nombre)
        /\ RutaDe(C, t[n].padre) \in Seq(Nombres) /\ t[n].nombre \in Nombres
    BY CaminoCampos
  <2> QED
    BY <2>1, ConUltimo, LenProperties
<1>2. 0 \in S
  BY <1>1
<1>3. \A k \in S \cap Nat : k + 1 \in S
  <2> SUFFICES ASSUME NEW k \in Nat, k \in S, NEW n \in Vivos(t), Len(C[n]) <= k + 1
               PROVE  Baja(t, 0, C[n]) = n
    OBVIOUS
  <2> DEFINE p == t[n].padre
             x == t[n].nombre
             q == RutaDe(C, p)
  <2>1. /\ C[n] = Append(q, x) /\ x \in Nombres /\ q \in Seq(Nombres) /\ n \in Nodos
        /\ p = 0 \/ p \in Vivos(t)
    BY CaminoCampos
  <2>2. Len(q) <= k
    BY <1>1
  <2>3. Baja(t, 0, q) = p
    <3>1. CASE p = 0
      BY <3>1, BajaVacia DEF RutaDe, Donde
    <3>2. CASE p # 0
      <4>1. p \in Vivos(t) /\ q = C[p]
        BY <2>1, <3>2 DEF RutaDe
      <4> HIDE DEF p, q
      <4> QED
        BY <2>2, <4>1
    <3> QED
      BY <3>1, <3>2
  <2>4. EsHijoEn(t, n, p, x)
    BY DEF EsHijoEn, Vivos
  <2> HIDE DEF p, x, q
  <2>5. HijoEn(t, p, x) = n
    BY <2>1, <2>4, HijoEnUnico
  <2>6. Baja(t, 0, Append(q, x)) = HijoEn(t, Baja(t, 0, q), x)
    BY <2>1, BajaUno DEF Donde
  <2> QED
    BY <2>1, <2>3, <2>5, <2>6
<1>4. Nat \subseteq S
  BY <1>2, <1>3, Induccion
<1> SUFFICES ASSUME NEW n \in Vivos(t) PROVE Baja(t, 0, C[n]) = n
  OBVIOUS
<1>5. Len(C[n]) \in Nat /\ Len(C[n]) <= Len(C[n])
  BY <1>1
<1>6. Len(C[n]) \in S
  BY <1>4, <1>5
<1> QED
  BY <1>5, <1>6

LEMMA CaminoUnico ==
    ASSUME NEW t, Colgados(t), NEW C, Caminos(t, C)
    PROVE  \A r \in Seq(Nombres) :
             /\ Baja(t, 0, r) \in Vivos(t) \cup {0, NoHay}
             /\ Baja(t, 0, r) # NoHay => r = RutaDe(C, Baja(t, 0, r))
<1> DEFINE Bien(r) == /\ Baja(t, 0, r) \in Vivos(t) \cup {0, NoHay}
                      /\ Baja(t, 0, r) # NoHay => r = RutaDe(C, Baja(t, 0, r))
           S == {k \in Nat : \A r \in Seq(Nombres) : Len(r) = k => Bien(r)}
<1>1. 0 \in S
  <2>1. \A r \in Seq(Nombres) : Len(r) = 0 => r = <<>>
    BY EmptySeq
  <2>2. Bien(<<>>)
    BY BajaVacia DEF Donde, RutaDe
  <2> QED
    BY <2>1, <2>2
<1>2. \A k \in S \cap Nat : k + 1 \in S
  <2> SUFFICES ASSUME NEW k \in Nat, k \in S, NEW r \in Seq(Nombres), Len(r) = k + 1
               PROVE  Bien(r)
    OBVIOUS
  <2> DEFINE q == Front(r)
             x == Last(r)
             p == Baja(t, 0, q)
             n == HijoEn(t, p, x)
  <2>1. r # <<>>
    BY EmptySeq
  <2>2. q \in Seq(Nombres) /\ x \in Nombres /\ r = Append(q, x) /\ Len(q) = k
    BY <2>1, FrontTipo, SinUltimo
  <2> HIDE DEF q, x
  <2>3. Baja(t, 0, r) = n
    BY <2>2, BajaUno DEF Donde
  <2>4. Bien(q)
    BY <2>2
  <2>5. CASE n = NoHay
    BY <2>3, <2>5
  <2>6. CASE n # NoHay
    <3>1. n \in Nodos
      BY <2>6, HijoEnTipo
    <3>2. EsHijoEn(t, n, p, x)
      BY <3>1, HijoEnEs
    <3>3. n \in Vivos(t) /\ t[n].padre = p /\ t[n].nombre = x
      BY <3>1, <3>2 DEF EsHijoEn, Vivos
    <3>4. p # NoHay
      <4>1. p \in Directorios(t)
        BY <3>3 DEF Colgados
      <4> QED
        BY <4>1 DEF Directorios, NoHay, Nodos
    <3>5. q = RutaDe(C, p)
      BY <2>4, <3>4
    <3>6. C[n] = Append(RutaDe(C, t[n].padre), t[n].nombre) /\ n # 0
      BY <3>3, CaminoCampos DEF Nodos
    <3>7. r = RutaDe(C, n)
      BY <2>2, <3>3, <3>5, <3>6 DEF RutaDe
    <3> HIDE DEF n
    <3> QED
      BY <2>3, <3>3, <3>7
  <2> QED
    BY <2>5, <2>6
<1>3. Nat \subseteq S
  BY <1>1, <1>2, Induccion
<1> SUFFICES ASSUME NEW r \in Seq(Nombres) PROVE Bien(r)
  OBVIOUS
<1>4. Len(r) \in Nat
  BY LenProperties
<1> HIDE DEF Bien
<1> QED
  BY <1>3, <1>4

LEMMA CaminoCorto ==
    ASSUME NEW t, Colgados(t), NEW C, Caminos(t, C)
    PROVE  \A n \in Vivos(t) : Len(C[n]) \in 1..Entradas
<1> DEFINE Junta(k, n) == \E T \in SUBSET Vivos(t) :
                             /\ IsFiniteSet(T) /\ Cardinality(T) = k
                             /\ \A m \in T : Len(C[m]) <= k
           S == {k \in Nat : \A n \in Vivos(t) : Len(C[n]) = k => Junta(k, n)}
<1>1. \A n \in Vivos(t) :
        /\ Len(C[n]) = Len(RutaDe(C, t[n].padre)) + 1
        /\ Len(RutaDe(C, t[n].padre)) \in Nat
        /\ t[n].padre = 0 \/ t[n].padre \in Vivos(t)
  <2> TAKE n \in Vivos(t)
  <2>1. /\ C[n] = Append(RutaDe(C, t[n].padre), t[n].nombre)
        /\ RutaDe(C, t[n].padre) \in Seq(Nombres) /\ t[n].nombre \in Nombres
        /\ t[n].padre = 0 \/ t[n].padre \in Vivos(t)
    BY CaminoCampos
  <2> QED
    BY <2>1, ConUltimo, LenProperties
<1>2. 0 \in S
  BY <1>1
<1>3. \A k \in S \cap Nat : k + 1 \in S
  <2> SUFFICES ASSUME NEW k \in Nat, k \in S
               PROVE  \A n \in Vivos(t) : Len(C[n]) = k + 1 => Junta(k + 1, n)
    <3> HIDE DEF Junta
    <3> QED
      OBVIOUS
  <2> TAKE n \in Vivos(t)
  <2> HAVE Len(C[n]) = k + 1
  <2>1. \E T \in SUBSET Vivos(t) : /\ IsFiniteSet(T) /\ Cardinality(T) = k
                                   /\ \A m \in T : Len(C[m]) <= k
    <3>1. CASE t[n].padre = 0
      <4>1. RutaDe(C, t[n].padre) = <<>> /\ Len(<<>>) = 0
        BY <3>1, EmptySeq DEF RutaDe
      <4>2. k = 0
        BY <1>1, <4>1
      <4>3. /\ {} \in SUBSET Vivos(t) /\ IsFiniteSet({}) /\ Cardinality({}) = 0
            /\ \A m \in {} : Len(C[m]) <= 0
        BY FS_EmptySet
      <4> QED
        BY <4>2, <4>3
    <3>2. CASE t[n].padre # 0
      <4>1. t[n].padre \in Vivos(t) /\ RutaDe(C, t[n].padre) = C[t[n].padre]
        BY <1>1, <3>2 DEF RutaDe
      <4>2. Len(C[t[n].padre]) = k
        BY <1>1, <4>1
      <4>3. Junta(k, t[n].padre)
        BY <4>1, <4>2
      <4> QED
        BY <4>3
    <3> QED
      BY <3>1, <3>2
  <2>2. PICK T \in SUBSET Vivos(t) : /\ IsFiniteSet(T) /\ Cardinality(T) = k
                                     /\ \A m \in T : Len(C[m]) <= k
    BY <2>1
  <2>3. n \notin T
    BY <2>2
  <2>4. IsFiniteSet(T \cup {n}) /\ Cardinality(T \cup {n}) = k + 1
    BY <2>2, <2>3, FS_AddElement
  <2>5. \A m \in T \cup {n} : Len(C[m]) <= k + 1
    <3> TAKE m \in T \cup {n}
    <3>1. CASE m = n
      BY <3>1
    <3>2. CASE m \in T
      <4>1. Len(C[m]) <= k /\ Len(C[m]) \in Nat
        BY <1>1, <2>2, <3>2
      <4> QED
        BY <4>1
    <3> QED
      BY <3>1, <3>2
  <2> QED
    BY <2>4, <2>5
<1>4. Nat \subseteq S
  BY <1>2, <1>3, Induccion
<1>5. IsFiniteSet(Nodos) /\ Cardinality(Nodos) = Entradas
  BY FS_Interval, SacAssumption DEF Nodos
<1> TAKE n \in Vivos(t)
<1>6. Len(C[n]) \in Nat \ {0} /\ Len(C[n]) \in S
  BY <1>1, <1>4
<1>7. PICK T \in SUBSET Vivos(t) : IsFiniteSet(T) /\ Cardinality(T) = Len(C[n])
  BY <1>6
<1>8. T \subseteq Nodos
  BY DEF Vivos
<1>9. Cardinality(T) <= Entradas
  BY <1>5, <1>8, FS_Subset
<1> QED
  BY <1>6, <1>7, <1>9, SacAssumption

-----------------------------------------------------------------------------
(* The tree of paths that a table stands for.                              *)
VisiblesDe(t) == {r \in RutasPosibles : Baja(t, 0, r) # NoHay}
ArbolDe(t) == [r \in VisiblesDe(t) |-> t[Baja(t, 0, r)].estado]

LEMMA RutasTipo ==
    /\ \A r \in RutasPosibles : r \in Seq(Nombres) /\ r # <<>>
    /\ \A r \in Seq(Nombres) : Len(r) \in 1..Entradas => r \in RutasPosibles
<1>1. Cardinality(Nodos) = Entradas
  BY FS_Interval, SacAssumption DEF Nodos
<1>2. ASSUME NEW r \in RutasPosibles PROVE r \in Seq(Nombres) /\ r # <<>>
  <2>1. PICK k \in 1..Entradas : r \in [1..k -> Nombres]
    BY <1>1 DEF RutasPosibles
  <2>2. k \in Nat \ {0}
    BY SacAssumption
  <2>3. r \in Seq(Nombres)
    BY <2>1, <2>2
  <2>4. DOMAIN r = 1..k /\ DOMAIN <<>> = {} /\ 1 \in 1..k
    BY <2>1, <2>2
  <2> QED
    BY <2>3, <2>4
<1>3. ASSUME NEW r \in Seq(Nombres), Len(r) \in 1..Entradas PROVE r \in RutasPosibles
  <2>1. r \in [1..Len(r) -> Nombres]
    BY LenProperties
  <2> QED
    BY <1>1, <1>3, <2>1 DEF RutasPosibles
<1> QED
  BY <1>2, <1>3

LEMMA VisiblesSon ==
    ASSUME NEW t, Colgados(t), Distintos(t), NEW C, Caminos(t, C)
    PROVE  /\ VisiblesDe(t) = {C[n] : n \in Vivos(t)}
           /\ \A n \in Vivos(t) : ArbolDe(t)[C[n]] = t[n].estado
           /\ \A m, n \in Vivos(t) : C[m] = C[n] => m = n
           /\ DOMAIN ArbolDe(t) = VisiblesDe(t)
<1>1. \A n \in Vivos(t) : Baja(t, 0, C[n]) = n
  BY CaminoLleva
<1>2. ASSUME NEW n \in Vivos(t) PROVE C[n] \in VisiblesDe(t)
  <2>1. C[n] \in Seq(Nombres) /\ Len(C[n]) \in 1..Entradas
    BY CaminoCorto DEF Caminos
  <2>2. C[n] \in RutasPosibles
    BY <2>1, RutasTipo
  <2>3. n # NoHay
    BY DEF Vivos, NoHay, Nodos
  <2> QED
    BY <1>1, <2>2, <2>3 DEF VisiblesDe
<1>3. ASSUME NEW r \in VisiblesDe(t) PROVE \E n \in Vivos(t) : r = C[n]
  <2>1. r \in Seq(Nombres) /\ r # <<>> /\ Baja(t, 0, r) # NoHay
    BY RutasTipo DEF VisiblesDe
  <2>2. Baja(t, 0, r) \in Vivos(t) \cup {0, NoHay} /\ r = RutaDe(C, Baja(t, 0, r))
    BY <2>1, CaminoUnico
  <2> QED
    BY <2>1, <2>2 DEF RutaDe
<1>4. VisiblesDe(t) = {C[n] : n \in Vivos(t)}
  BY <1>2, <1>3
<1>5. \A n \in Vivos(t) : ArbolDe(t)[C[n]] = t[n].estado
  BY <1>1, <1>2 DEF ArbolDe
<1> QED
  BY <1>1, <1>4, <1>5 DEF ArbolDe

(* What a path leads to, by its name.                                      *)
LEMMA RutaVisible ==
    ASSUME NEW t, Colgados(t), Distintos(t), NEW C, Caminos(t, C), NEW r \in Seq(Nombres)
    PROVE  /\ Baja(t, 0, r) = NoHay => r \notin VisiblesDe(t)
           /\ Baja(t, 0, r) \in Nodos =>
                /\ r \in VisiblesDe(t) /\ Baja(t, 0, r) \in Vivos(t)
                /\ r = C[Baja(t, 0, r)]
           /\ Baja(t, 0, r) = 0 => r = <<>>
           /\ Baja(t, 0, r) \in Donde
<1>1. /\ Baja(t, 0, r) \in Vivos(t) \cup {0, NoHay}
      /\ Baja(t, 0, r) # NoHay => r = RutaDe(C, Baja(t, 0, r))
  BY CaminoUnico
<1>2. NoHay \notin Nodos /\ 0 \notin Nodos /\ NoHay # 0 /\ Vivos(t) \subseteq Nodos
  BY DEF NoHay, Nodos, Vivos
<1>3. VisiblesDe(t) = {C[n] : n \in Vivos(t)}
  BY VisiblesSon
<1>4. Baja(t, 0, r) = NoHay => r \notin VisiblesDe(t)
  BY DEF VisiblesDe
<1>5. Baja(t, 0, r) \in Nodos =>
        /\ r \in VisiblesDe(t) /\ Baja(t, 0, r) \in Vivos(t) /\ r = C[Baja(t, 0, r)]
  BY <1>1, <1>2, <1>3 DEF RutaDe
<1>6. Baja(t, 0, r) = 0 => r = <<>>
  BY <1>1, <1>2 DEF RutaDe
<1> QED
  BY <1>1, <1>2, <1>4, <1>5, <1>6 DEF Donde

-----------------------------------------------------------------------------
(* Paths under a path.                                                     *)
LEMMA PrefijoEs ==
    ASSUME NEW S, NEW r \in Seq(S), NEW s \in Seq(S)
    PROVE  IsPrefix(r, s) <=> Len(r) <= Len(s) /\ \A i \in 1..Len(r) : r[i] = s[i]
<1>1. Len(r) \in Nat /\ Len(s) \in Nat
  BY LenProperties
<1>2. SubSeq(r, 1, Len(r)) = r
  BY SubSeqFull
<1> SUFFICES ASSUME Len(r) <= Len(s)
             PROVE  SubSeq(r, 1, Len(r)) = SubSeq(s, 1, Len(r))
                      <=> \A i \in 1..Len(r) : r[i] = s[i]
  BY DEF IsPrefix
<1> DEFINE q == SubSeq(s, 1, Len(r))
<1>3. \A i \in 1..Len(r) : s[i] \in S
  <2> TAKE i \in 1..Len(r)
  <2>1. i \in 1..Len(s)
    BY <1>1
  <2> QED
    BY <2>1, ElementOfSeq
<1>4. /\ q \in Seq(S) /\ Len(q) = IF 1 <= Len(r) THEN Len(r) - 1 + 1 ELSE 0
      /\ \A i \in 1..Len(r) - 1 + 1 : q[i] = s[1 + i - 1]
  BY <1>1, <1>3, SubSeqProperties
<1>5. Len(r) - 1 + 1 = Len(r) /\ \A i \in Int : 1 + i - 1 = i
  BY <1>1
<1> HIDE DEF q
<1>6. Len(q) = Len(r) /\ \A i \in 1..Len(r) : q[i] = s[i]
  BY <1>1, <1>4, <1>5
<1>7. (\A i \in 1..Len(r) : r[i] = s[i]) => r = q
  BY <1>4, <1>6, SeqEqual
<1> QED
  BY <1>2, <1>6, <1>7 DEF q

LEMMA PrefijoConUltimo ==
    ASSUME NEW S, NEW r \in Seq(S), NEW q \in Seq(S), NEW x \in S
    PROVE  IsPrefix(r, Append(q, x)) <=> IsPrefix(r, q) \/ r = Append(q, x)
<1> DEFINE s == Append(q, x)
<1>1. /\ s \in Seq(S) /\ Len(s) = Len(q) + 1
      /\ \A i \in 1..Len(q) : s[i] = q[i]
  BY AppendProperties
<1>2. Len(r) \in Nat /\ Len(q) \in Nat
  BY LenProperties
<1> HIDE DEF s
<1>3. IsPrefix(r, s) <=> Len(r) <= Len(s) /\ \A i \in 1..Len(r) : r[i] = s[i]
  BY <1>1, PrefijoEs
<1>4. IsPrefix(r, q) <=> Len(r) <= Len(q) /\ \A i \in 1..Len(r) : r[i] = q[i]
  BY PrefijoEs
<1>5. ASSUME IsPrefix(r, s), Len(r) # Len(s) PROVE IsPrefix(r, q)
  <2>1. Len(r) <= Len(q)
    BY <1>1, <1>2, <1>3, <1>5
  <2>2. \A i \in 1..Len(r) : i \in 1..Len(q)
    BY <1>2, <2>1
  <2> QED
    BY <1>1, <1>3, <1>4, <1>5, <2>1, <2>2
<1>6. ASSUME IsPrefix(r, s), Len(r) = Len(s) PROVE r = s
  BY <1>1, <1>3, <1>6, SeqEqual
<1>7. ASSUME IsPrefix(r, q) PROVE IsPrefix(r, s)
  <2>1. Len(r) <= Len(q)
    BY <1>4, <1>7
  <2>2. \A i \in 1..Len(r) : i \in 1..Len(q)
    BY <1>2, <2>1
  <2> QED
    BY <1>1, <1>2, <1>3, <1>4, <1>7, <2>1, <2>2
<1>8. IsPrefix(s, s)
  <2>1. Len(s) \in Nat
    BY <1>1, <1>2
  <2> QED
    BY <1>1, <2>1, PrefijoEs
<1> QED
  BY <1>5, <1>6, <1>7, <1>8 DEF s

(* Bajo(s, r, w): s with w in the place of its beginning r.                *)
Bajo(s, r, w) == Arbol!Bajo(s, r, w)

EsBajo(y, s, r, w) ==
    /\ Len(y) = Len(w) + (Len(s) - Len(r))
    /\ \A i \in 1..Len(w) : y[i] = w[i]
    /\ \A i \in 1..Len(s) - Len(r) : y[Len(w) + i] = s[Len(r) + i]

LEMMA BajoCampos ==
    ASSUME NEW S, NEW s \in Seq(S), NEW r \in Seq(S), NEW w \in Seq(S), Len(r) <= Len(s)
    PROVE  Bajo(s, r, w) \in Seq(S) /\ EsBajo(Bajo(s, r, w), s, r, w)
<1> DEFINE a == Len(r)
           b == Len(s)
           k == Len(w)
           u == SubSeq(s, a + 1, b)
<1>1. a \in Nat /\ b \in Nat /\ k \in Nat /\ a <= b
  BY LenProperties
<1>2. \A i \in a + 1..b : s[i] \in S
  <2> TAKE i \in a + 1..b
  <2>1. i \in 1..b
    BY <1>1
  <2> QED
    BY <2>1, ElementOfSeq
<1>3. Bajo(s, r, w) = w \o u
  BY DEF Bajo, Arbol!Bajo
<1>4. w \in Seq(S)
  OBVIOUS
<1> HIDE DEF a, b, k
<1>5. /\ u \in Seq(S) /\ Len(u) = IF a + 1 <= b THEN b - (a + 1) + 1 ELSE 0
      /\ \A i \in 1..b - (a + 1) + 1 : u[i] = s[a + 1 + i - 1]
  BY <1>1, <1>2, SubSeqProperties
<1>6. b - (a + 1) + 1 = b - a /\ \A i \in Int : a + 1 + i - 1 = a + i
  BY <1>1
<1> HIDE DEF u
<1>7. Len(u) = b - a /\ \A i \in 1..b - a : u[i] = s[a + i]
  BY <1>1, <1>5, <1>6
<1>8. /\ w \o u \in Seq(S) /\ Len(w \o u) = k + Len(u)
      /\ \A i \in 1..k + Len(u) : (w \o u)[i] = IF i <= k THEN w[i] ELSE u[i - k]
  BY SMTT(60), <1>4, <1>5, ConcatProperties DEF k
<1>9. \A i \in 1..k : (w \o u)[i] = w[i]
  BY <1>1, <1>7, <1>8
<1>10. ASSUME NEW i \in 1..b - a PROVE (w \o u)[k + i] = s[a + i]
  <2>1. k + i \in 1..k + Len(u) /\ ~(k + i <= k) /\ (k + i) - k = i
    BY <1>1, <1>7
  <2> QED
    BY <1>7, <1>8, <2>1
<1>11. Len(w \o u) = k + (b - a)
  BY <1>7, <1>8
<1>12. EsBajo(w \o u, s, r, w)
  BY <1>9, <1>10, <1>11 DEF a, b, k, EsBajo
<1> QED
  BY <1>3, <1>8, <1>12

LEMMA BajoMismo ==
    ASSUME NEW S, NEW r \in Seq(S), NEW w \in Seq(S)
    PROVE  Bajo(r, r, w) = w
<1>1. Len(r) \in Nat /\ Len(w) \in Nat
  BY LenProperties
<1>2. Bajo(r, r, w) \in Seq(S) /\ EsBajo(Bajo(r, r, w), r, r, w)
  BY <1>1, BajoCampos
<1>3. Len(Bajo(r, r, w)) = Len(w) /\ \A i \in 1..Len(w) : Bajo(r, r, w)[i] = w[i]
  BY <1>1, <1>2 DEF EsBajo
<1> QED
  BY <1>2, <1>3, SeqEqual

LEMMA BajoConUltimo ==
    ASSUME NEW S, NEW q \in Seq(S), NEW x \in S, NEW r \in Seq(S), NEW w \in Seq(S),
           Len(r) <= Len(q)
    PROVE  Bajo(Append(q, x), r, w) = Append(Bajo(q, r, w), x)
<1> DEFINE s == Append(q, x)
           y == Bajo(s, r, w)
           z == Bajo(q, r, w)
<1>1. Len(r) \in Nat /\ Len(w) \in Nat /\ Len(q) \in Nat
  BY LenProperties
<1>2. /\ s \in Seq(S) /\ Len(s) = Len(q) + 1
      /\ \A i \in 1..Len(q) : s[i] = q[i]
      /\ s[Len(q) + 1] = x
  BY AppendProperties
<1>3. Len(r) <= Len(s)
  BY <1>1, <1>2
<1>4. y \in Seq(S) /\ EsBajo(y, s, r, w)
  BY <1>2, <1>3, BajoCampos
<1>5. z \in Seq(S) /\ EsBajo(z, q, r, w)
  BY BajoCampos
<1> HIDE DEF s, y, z
<1>6. /\ Append(z, x) \in Seq(S) /\ Len(Append(z, x)) = Len(z) + 1
      /\ \A i \in 1..Len(z) : Append(z, x)[i] = z[i]
      /\ Append(z, x)[Len(z) + 1] = x
  BY <1>5, AppendProperties
<1>7. Len(y) = Len(z) + 1
  BY <1>1, <1>2, <1>4, <1>5 DEF EsBajo
<1>8. ASSUME NEW i \in 1..Len(y) PROVE y[i] = Append(z, x)[i]
  <2>1. Len(z) \in Nat
    BY <1>1, <1>5 DEF EsBajo
  <2>2. CASE i <= Len(w)
    <3>1. i \in 1..Len(w) /\ i \in 1..Len(z)
      BY <1>1, <1>5, <2>2 DEF EsBajo
    <3> QED
      BY <1>4, <1>5, <1>6, <3>1 DEF EsBajo
  <2>3. CASE i > Len(w) /\ i <= Len(z)
    <3> DEFINE j == i - Len(w)
    <3>1. /\ j \in 1..Len(s) - Len(r) /\ j \in 1..Len(q) - Len(r) /\ i = Len(w) + j
          /\ Len(r) + j \in 1..Len(q) /\ i \in 1..Len(z)
      BY <1>1, <1>2, <1>5, <2>3 DEF EsBajo
    <3> HIDE DEF j
    <3>2. y[i] = s[Len(r) + j] /\ z[i] = q[Len(r) + j]
      BY <1>4, <1>5, <3>1 DEF EsBajo
    <3> QED
      BY <1>2, <1>6, <3>1, <3>2
  <2>4. CASE i > Len(z)
    <3> DEFINE j == Len(s) - Len(r)
    <3>1. Len(z) = Len(w) + (Len(q) - Len(r))
      BY <1>5 DEF EsBajo
    <3>2. i = Len(z) + 1
      BY <1>7, <2>1, <2>4
    <3>3. j \in 1..j /\ i = Len(w) + j /\ Len(r) + j = Len(q) + 1
      BY <1>1, <1>2, <3>1, <3>2
    <3>4. y[Len(w) + j] = s[Len(r) + j]
      BY <1>4, <3>3 DEF EsBajo
    <3> HIDE DEF j
    <3> QED
      BY <1>2, <1>6, <3>2, <3>3, <3>4
  <2>5. i <= Len(w) \/ (i > Len(w) /\ i <= Len(z)) \/ i > Len(z)
    <3>1. i \in Nat
      OBVIOUS
    <3> QED
      BY <1>1, <2>1, <3>1
  <2> QED
    BY <2>2, <2>3, <2>4, <2>5, Zenon
<1>9. y = Append(z, x)
  BY <1>4, <1>6, <1>7, <1>8, SeqEqual
<1> QED
  BY <1>9 DEF s, y, z

-----------------------------------------------------------------------------
(* What a change of one entry does to the tree.                            *)
EsDir(a, r) == r = <<>> \/ (r \in DOMAIN a /\ a[r] = "directorio")

Iguales(t, u, n) ==
    /\ u[n].estado = t[n].estado
    /\ u[n].nombre = t[n].nombre
    /\ u[n].padre = t[n].padre

SoloCambia(t, u, n) == \A m \in Nodos \ {n} : Iguales(t, u, m)

LEMMA VivoSinCambio ==
    ASSUME NEW t, NEW u, NEW n, SoloCambia(t, u, n), NEW m \in Nodos \ {n}
    PROVE  /\ m \in Vivos(u) <=> m \in Vivos(t)
           /\ m \in Directorios(u) <=> m \in Directorios(t)
           /\ Iguales(t, u, m)
BY DEF SoloCambia, Iguales, Vivos, Directorios

LEMMA ArbolDeMismos ==
    ASSUME NEW t, NEW u, Mismos(t, u), Arbolado(t)
    PROVE  ArbolDe(u) = ArbolDe(t)
<1>1. PICK C : Caminos(t, C)
  BY DEF Arbolado
<1>2. \A r \in RutasPosibles : Baja(u, 0, r) = Baja(t, 0, r)
  BY BajaMismos, RutasTipo DEF Donde
<1>3. VisiblesDe(u) = VisiblesDe(t)
  BY <1>2 DEF VisiblesDe
<1>4. \A r \in VisiblesDe(t) : u[Baja(u, 0, r)].estado = t[Baja(t, 0, r)].estado
  <2> TAKE r \in VisiblesDe(t)
  <2>1. r \in Seq(Nombres) /\ r # <<>> /\ r \in RutasPosibles /\ Baja(t, 0, r) # NoHay
    BY RutasTipo DEF VisiblesDe
  <2>2. Baja(t, 0, r) \in Nodos
    BY <1>1, <2>1, RutaVisible DEF Arbolado, Donde
  <2> QED
    BY <1>2, <2>1, <2>2 DEF Mismos
<1> QED
  BY <1>3, <1>4 DEF ArbolDe

LEMMA EsDirDe ==
    ASSUME NEW t, Arbolado(t), NEW r \in Seq(Nombres), Baja(t, 0, r) \in Directorios(t)
    PROVE  EsDir(ArbolDe(t), r)
<1>1. PICK C : Caminos(t, C)
  BY DEF Arbolado
<1>2. Colgados(t) /\ Distintos(t)
  BY DEF Arbolado
<1>3. CASE Baja(t, 0, r) = 0
  BY <1>1, <1>2, <1>3, RutaVisible DEF EsDir
<1>4. CASE Baja(t, 0, r) \in Nodos /\ t[Baja(t, 0, r)].estado = "directorio"
  <2>1. r \in VisiblesDe(t)
    BY <1>1, <1>2, <1>4, RutaVisible
  <2> QED
    BY <1>4, <2>1 DEF EsDir, ArbolDe
<1> QED
  BY <1>3, <1>4 DEF Directorios

(* An entry n that was free is given a free name in a directory.           *)
Nace(t, u, n, r) ==
    /\ n \in Nodos /\ t[n].estado = "borrado" /\ u[n].estado \in {"ocupado", "directorio"}
    /\ SoloCambia(t, u, n)
    /\ r \in Seq(Nombres) /\ r # <<>>
    /\ Baja(t, 0, Front(r)) \in Directorios(t) /\ Baja(t, 0, r) = NoHay
    /\ u[n].nombre = Last(r) /\ u[n].padre = Baja(t, 0, Front(r))

Creado(a, b, r, tipo) ==
    /\ r \in RutasPosibles /\ r \notin DOMAIN a
    /\ EsDir(a, Front(r))
    /\ b = [s \in DOMAIN a \cup {r} |-> IF s = r THEN tipo ELSE a[s]]

LEMMA AlNacer ==
    ASSUME NEW t, NEW u, NEW n, NEW r, Arbolado(t), Nace(t, u, n, r)
    PROVE  Arbolado(u) /\ Creado(ArbolDe(t), ArbolDe(u), r, u[n].estado)
<1>1. PICK C : Caminos(t, C)
  BY DEF Arbolado
<1>2. Colgados(t) /\ Distintos(t)
  BY DEF Arbolado
<1> DEFINE q == Front(r)
           x == Last(r)
           p == Baja(t, 0, q)
           D == [m \in Vivos(u) |-> IF m = n THEN r ELSE C[m]]
<1>3. /\ n \in Nodos /\ t[n].estado = "borrado" /\ u[n].estado \in {"ocupado", "directorio"}
      /\ SoloCambia(t, u, n)
      /\ r \in Seq(Nombres) /\ r # <<>> /\ Baja(t, 0, r) = NoHay
      /\ p \in Directorios(t) /\ u[n].nombre = x /\ u[n].padre = p
  BY DEF Nace
<1>4. q \in Seq(Nombres) /\ x \in Nombres /\ r = Append(q, x)
  BY <1>3, FrontTipo, SinUltimo
<1>5. n \notin Vivos(t) /\ n \notin Directorios(t) /\ n # 0
  BY <1>3 DEF Vivos, Directorios, Nodos
<1>6. Vivos(u) = Vivos(t) \cup {n} /\ Directorios(t) \subseteq Directorios(u)
  <2>1. \A m \in Vivos(t) \cup Vivos(u) : m = n \/ m \in Nodos \ {n}
    BY DEF Vivos
  <2>2. n \in Vivos(u)
    BY <1>3 DEF Vivos
  <2>3. \A m \in Directorios(t) : m = 0 \/ m \in Nodos \ {n}
    BY <1>5 DEF Directorios
  <2>4. 0 \in Directorios(u)
    BY DEF Directorios
  <2> QED
    BY <1>3, <1>5, <2>1, <2>2, <2>3, <2>4, VivoSinCambio
<1>7. \A m \in Vivos(t) : m # n /\ m \in Nodos /\ Iguales(t, u, m)
  BY <1>3, <1>5 DEF Vivos, SoloCambia
<1>8. q = RutaDe(C, p)
  <2>1. p # NoHay
    BY <1>3 DEF Directorios, NoHay, Nodos
  <2> HIDE DEF q
  <2> QED
    BY <1>1, <1>2, <1>4, <2>1, CaminoUnico
<1> HIDE DEF p, q, x
<1>9. Colgados(u)
  <2>1. ASSUME NEW m \in Vivos(u) PROVE u[m].padre \in Directorios(u) /\ u[m].nombre \in Nombres
    <3>1. CASE m = n
      BY <1>3, <1>4, <1>6, <3>1
    <3>2. CASE m \in Vivos(t)
      BY <1>2, <1>6, <1>7, <3>2 DEF Colgados, Iguales
    <3> QED
      BY <1>6, <3>1, <3>2
  <2> QED
    BY <2>1 DEF Colgados
<1>10. Distintos(u)
  <2>1. ASSUME NEW m \in Vivos(t), t[m].padre = p, t[m].nombre = x PROVE FALSE
    <3>1. C[m] = Append(RutaDe(C, t[m].padre), t[m].nombre)
      BY <1>1, <1>2, CaminoCampos
    <3>2. C[m] = r
      BY <1>4, <1>8, <2>1, <3>1
    <3>3. Baja(t, 0, C[m]) = m
      BY <1>1, <1>2, CaminoLleva
    <3> QED
      BY <1>3, <3>2, <3>3 DEF Vivos, NoHay, Nodos
  <2>2. ASSUME NEW m \in Vivos(u), NEW k \in Vivos(u), u[m].padre = u[k].padre,
               u[m].nombre = u[k].nombre, m # k
        PROVE  FALSE
    <3>1. CASE m = n
      <4>1. k \in Vivos(t)
        BY <1>6, <2>2, <3>1
      <4> QED
        BY <1>3, <1>7, <2>1, <2>2, <3>1, <4>1 DEF Iguales
    <3>2. CASE k = n
      <4>1. m \in Vivos(t)
        BY <1>6, <2>2, <3>2
      <4> QED
        BY <1>3, <1>7, <2>1, <2>2, <3>2, <4>1 DEF Iguales
    <3>3. CASE m # n /\ k # n
      <4>1. m \in Vivos(t) /\ k \in Vivos(t)
        BY <1>6, <3>3
      <4> QED
        BY <1>2, <1>7, <2>2, <4>1 DEF Distintos, Iguales
    <3> QED
      BY <3>1, <3>2, <3>3
  <2> QED
    BY <2>2 DEF Distintos
<1>11. Caminos(u, D)
  <2>1. \A m \in Vivos(t) : C[m] \in Seq(Nombres)
    BY <1>1 DEF Caminos
  <2>2. D \in [Vivos(u) -> Seq(Nombres)]
    BY <1>3, <1>6, <2>1
  <2>3. D[n] = r /\ \A m \in Vivos(t) : D[m] = C[m]
    BY <1>6, <1>7
  <2>4. p = 0 \/ p \in Vivos(t)
    BY <1>3 DEF Directorios, Vivos
  <2> HIDE DEF D
  <2>5. \A k : k = 0 \/ k \in Vivos(t) => RutaDe(D, k) = RutaDe(C, k)
    BY <2>3 DEF RutaDe
  <2>6. ASSUME NEW m \in Vivos(u) PROVE D[m] = Append(RutaDe(D, u[m].padre), u[m].nombre)
    <3>1. CASE m = n
      BY <1>3, <1>4, <1>8, <2>3, <2>4, <2>5, <3>1
    <3>2. CASE m \in Vivos(t)
      <4>1. /\ C[m] = Append(RutaDe(C, t[m].padre), t[m].nombre)
            /\ t[m].padre = 0 \/ t[m].padre \in Vivos(t)
        BY <1>1, <1>2, <3>2, CaminoCampos
      <4> QED
        BY <1>7, <2>3, <2>5, <3>2, <4>1 DEF Iguales
    <3> QED
      BY <1>6, <3>1, <3>2
  <2> QED
    BY <2>2, <2>6 DEF Caminos
<1>12. D[n] = r /\ \A m \in Vivos(t) : D[m] = C[m]
  BY <1>6, <1>7
<1> HIDE DEF D
<1>13. Arbolado(u)
  BY <1>9, <1>10, <1>11 DEF Arbolado
<1>14. /\ VisiblesDe(t) = {C[m] : m \in Vivos(t)} /\ VisiblesDe(u) = {D[m] : m \in Vivos(u)}
       /\ DOMAIN ArbolDe(t) = VisiblesDe(t) /\ DOMAIN ArbolDe(u) = VisiblesDe(u)
       /\ \A m \in Vivos(t) : ArbolDe(t)[C[m]] = t[m].estado
       /\ \A m \in Vivos(u) : ArbolDe(u)[D[m]] = u[m].estado
  BY <1>1, <1>2, <1>9, <1>10, <1>11, VisiblesSon
<1>15. r \notin VisiblesDe(t)
  BY <1>3 DEF VisiblesDe
<1>16. VisiblesDe(u) = VisiblesDe(t) \cup {r}
  BY <1>6, <1>12, <1>14
<1>17. \A s \in VisiblesDe(t) : ArbolDe(u)[s] = ArbolDe(t)[s]
  <2> TAKE s \in VisiblesDe(t)
  <2>1. PICK m \in Vivos(t) : s = C[m]
    BY <1>14
  <2> QED
    BY <1>6, <1>7, <1>12, <1>14, <2>1 DEF Iguales
<1>18. ArbolDe(u)[r] = u[n].estado
  BY <1>6, <1>12, <1>14
<1>19. ArbolDe(u) = [s \in VisiblesDe(u) |-> ArbolDe(u)[s]]
  BY DEF ArbolDe
<1>20. ArbolDe(u) = [s \in DOMAIN ArbolDe(t) \cup {r} |->
                       IF s = r THEN u[n].estado ELSE ArbolDe(t)[s]]
  BY <1>14, <1>15, <1>16, <1>17, <1>18, <1>19
<1>21. r \in RutasPosibles
  BY <1>16 DEF VisiblesDe
<1>22. EsDir(ArbolDe(t), Front(r))
  BY <1>3, <1>4, EsDirDe DEF p, q
<1> QED
  BY <1>13, <1>14, <1>15, <1>20, <1>21, <1>22 DEF Creado

(* A live entry n with nothing in it is removed.                           *)
Muere(t, u, n) ==
    /\ n \in Vivos(t) /\ u[n].estado = "borrado"
    /\ \A m \in Vivos(t) : t[m].padre # n
    /\ SoloCambia(t, u, n)

Quitado(a, b, r) ==
    /\ r \in RutasPosibles /\ r \in DOMAIN a
    /\ \A s \in DOMAIN a : ~IsStrictPrefix(r, s)
    /\ b = Restrict(a, DOMAIN a \ {r})

LEMMA SinDescendientes ==
    ASSUME NEW t, Colgados(t), Distintos(t), NEW C, Caminos(t, C), NEW n \in Vivos(t),
           \A m \in Vivos(t) : t[m].padre # n
    PROVE  \A m \in Vivos(t) : ~IsStrictPrefix(C[n], C[m])
<1> DEFINE S == {k \in Nat : \A m \in Vivos(t) : Len(C[m]) = k => ~IsStrictPrefix(C[n], C[m])}
<1>1. \A m \in Vivos(t) : C[m] \in Seq(Nombres) /\ Len(C[m]) \in 1..Entradas
  BY CaminoCorto DEF Caminos
<1>2. 0 \in S
  BY <1>1
<1>3. \A k \in S \cap Nat : k + 1 \in S
  <2> SUFFICES ASSUME NEW k \in Nat, k \in S, NEW m \in Vivos(t), Len(C[m]) = k + 1,
                      IsStrictPrefix(C[n], C[m])
               PROVE  FALSE
    OBVIOUS
  <2> DEFINE p == t[m].padre
             x == t[m].nombre
             q == RutaDe(C, p)
  <2>1. /\ C[m] = Append(q, x) /\ x \in Nombres /\ q \in Seq(Nombres)
        /\ p = 0 \/ p \in Vivos(t)
    BY CaminoCampos
  <2>2. p # n
    OBVIOUS
  <2> HIDE DEF p, x, q
  <2>3. Len(q) = k
    <3>1. Len(q) + 1 = k + 1 /\ Len(q) \in Nat
      BY <2>1, ConUltimo, LenProperties
    <3> QED
      BY <3>1
  <2>4. IsPrefix(C[n], q)
    <3>1. IsPrefix(C[n], C[m]) /\ C[n] # C[m]
      BY DEF IsStrictPrefix
    <3>2. C[n] \in Seq(Nombres)
      BY <1>1
    <3> QED
      BY <2>1, <3>1, <3>2, PrefijoConUltimo
  <2>5. CASE p = 0
    <3>1. q = <<>> /\ Len(<<>>) = 0
      BY <2>5, EmptySeq DEF RutaDe, q
    <3>2. Len(C[n]) <= 0
      BY <2>4, <3>1 DEF IsPrefix
    <3> QED
      BY <1>1, <3>2
  <2>6. CASE p \in Vivos(t) /\ p # 0
    <3>1. q = C[p]
      BY <2>6 DEF RutaDe, q
    <3>2. C[n] # C[p]
      BY <2>2, <2>6, VisiblesSon
    <3>3. IsStrictPrefix(C[n], C[p])
      BY <2>4, <3>1, <3>2 DEF IsStrictPrefix
    <3> QED
      BY <2>3, <2>6, <3>1, <3>3
  <2> QED
    BY <2>1, <2>5, <2>6
<1>4. Nat \subseteq S
  BY <1>2, <1>3, Induccion
<1> TAKE m \in Vivos(t)
<1>5. Len(C[m]) \in S
  BY <1>1, <1>4
<1> QED
  BY <1>5

LEMMA AlMorir ==
    ASSUME NEW t, NEW u, NEW n, Arbolado(t), Muere(t, u, n)
    PROVE  Arbolado(u) /\ \E r : Quitado(ArbolDe(t), ArbolDe(u), r)
<1>1. PICK C : Caminos(t, C)
  BY DEF Arbolado
<1>2. Colgados(t) /\ Distintos(t)
  BY DEF Arbolado
<1> DEFINE D == [m \in Vivos(u) |-> C[m]]
           r == C[n]
<1>3. /\ n \in Vivos(t) /\ u[n].estado = "borrado" /\ n \in Nodos
      /\ \A m \in Vivos(t) : t[m].padre # n
      /\ SoloCambia(t, u, n)
  BY DEF Muere, Vivos
<1>4. Vivos(u) = Vivos(t) \ {n}
  <2>1. \A m \in Vivos(t) \cup Vivos(u) : m = n \/ m \in Nodos \ {n}
    BY DEF Vivos
  <2>2. n \notin Vivos(u)
    BY <1>3 DEF Vivos
  <2> QED
    BY <1>3, <2>1, <2>2, VivoSinCambio
<1>5. \A m \in Vivos(u) : m # n /\ m \in Nodos /\ m \in Vivos(t) /\ Iguales(t, u, m)
  BY <1>3, <1>4 DEF Vivos, SoloCambia
<1>6. Colgados(u)
  <2>1. ASSUME NEW m \in Vivos(u) PROVE u[m].padre \in Directorios(u) /\ u[m].nombre \in Nombres
    <3>1. /\ t[m].padre \in Directorios(t) /\ t[m].padre # n /\ t[m].nombre \in Nombres
          /\ u[m].padre = t[m].padre /\ u[m].nombre = t[m].nombre
      BY <1>2, <1>3, <1>5 DEF Colgados, Iguales
    <3>2. t[m].padre = 0 \/ t[m].padre \in Nodos \ {n}
      BY <3>1 DEF Directorios
    <3>3. t[m].padre \in Directorios(u)
      <4>1. CASE t[m].padre = 0
        BY <4>1 DEF Directorios
      <4>2. CASE t[m].padre \in Nodos \ {n}
        BY <1>3, <3>1, <4>2, VivoSinCambio
      <4> QED
        BY <3>2, <4>1, <4>2
    <3> QED
      BY <3>1, <3>3
  <2> QED
    BY <2>1 DEF Colgados
<1>7. Distintos(u)
  BY <1>2, <1>5 DEF Distintos, Iguales
<1>8. Caminos(u, D)
  <2>1. D \in [Vivos(u) -> Seq(Nombres)]
    BY <1>1, <1>5 DEF Caminos
  <2>2. ASSUME NEW m \in Vivos(u) PROVE D[m] = Append(RutaDe(D, u[m].padre), u[m].nombre)
    <3>1. /\ C[m] = Append(RutaDe(C, t[m].padre), t[m].nombre)
          /\ t[m].padre = 0 \/ t[m].padre \in Vivos(t)
          /\ t[m].padre # n
      BY <1>1, <1>2, <1>3, <1>5, CaminoCampos
    <3>2. RutaDe(D, t[m].padre) = RutaDe(C, t[m].padre)
      BY <1>4, <3>1 DEF RutaDe
    <3> QED
      BY <1>5, <3>1, <3>2 DEF Iguales
  <2> QED
    BY <2>1, <2>2 DEF Caminos
<1>9. \A m \in Vivos(u) : D[m] = C[m]
  OBVIOUS
<1>10. r \in VisiblesDe(t) /\ \A m \in Vivos(u) : C[m] # r
  BY <1>1, <1>2, <1>3, <1>5, VisiblesSon
<1> HIDE DEF D
<1>11. Arbolado(u)
  BY <1>6, <1>7, <1>8 DEF Arbolado
<1>12. /\ VisiblesDe(t) = {C[m] : m \in Vivos(t)} /\ VisiblesDe(u) = {D[m] : m \in Vivos(u)}
       /\ DOMAIN ArbolDe(t) = VisiblesDe(t) /\ DOMAIN ArbolDe(u) = VisiblesDe(u)
       /\ \A m \in Vivos(t) : ArbolDe(t)[C[m]] = t[m].estado
       /\ \A m \in Vivos(u) : ArbolDe(u)[D[m]] = u[m].estado
  BY <1>1, <1>2, <1>6, <1>7, <1>8, VisiblesSon
<1>13. VisiblesDe(u) = VisiblesDe(t) \ {r}
  BY <1>4, <1>9, <1>10, <1>12
<1>14. \A s \in VisiblesDe(u) : ArbolDe(u)[s] = ArbolDe(t)[s]
  <2> TAKE s \in VisiblesDe(u)
  <2>1. PICK m \in Vivos(u) : s = C[m]
    BY <1>9, <1>12
  <2> QED
    BY <1>5, <1>9, <1>12, <2>1 DEF Iguales
<1>15. ArbolDe(u) = [s \in VisiblesDe(u) |-> ArbolDe(u)[s]]
  BY DEF ArbolDe
<1>16. ArbolDe(u) = Restrict(ArbolDe(t), DOMAIN ArbolDe(t) \ {r})
  BY <1>12, <1>13, <1>14, <1>15 DEF Restrict
<1>17. r \in RutasPosibles
  BY <1>10 DEF VisiblesDe
<1>18. \A s \in DOMAIN ArbolDe(t) : ~IsStrictPrefix(r, s)
  <2>1. \A m \in Vivos(t) : ~IsStrictPrefix(C[n], C[m])
    BY <1>1, <1>2, <1>3, SinDescendientes
  <2> QED
    BY <1>12, <2>1
<1>19. Quitado(ArbolDe(t), ArbolDe(u), r)
  BY <1>10, <1>12, <1>16, <1>17, <1>18 DEF Quitado
<1> QED
  BY <1>11, <1>19

(* A live entry v is called w, a free name of a directory that is not      *)
(* under it.                                                               *)
Muda(t, u, v, w) ==
    /\ v \in Vivos(t) /\ u[v].estado = t[v].estado
    /\ SoloCambia(t, u, v)
    /\ w \in Seq(Nombres) /\ w # <<>>
    /\ Baja(t, 0, Front(w)) \in Directorios(t) /\ Baja(t, 0, w) = NoHay
    /\ u[v].nombre = Last(w) /\ u[v].padre = Baja(t, 0, Front(w))

VanDe(a, r) == {s \in DOMAIN a : IsPrefix(r, s)}

Mudado(a, b, r, w) ==
    /\ r \in RutasPosibles /\ w \in RutasPosibles
    /\ r \in DOMAIN a /\ w \notin DOMAIN a
    /\ EsDir(a, Front(w))
    /\ ~IsPrefix(r, w)
    /\ LET van == VanDe(a, r)
           quedan == DOMAIN a \ van
       IN  b = [x \in quedan \cup {Bajo(s, r, w) : s \in van} |->
                  IF x \in quedan THEN a[x] ELSE a[CHOOSE s \in van : Bajo(s, r, w) = x]]

(* The paths of the tree once v is called w.                               *)
CaminosTras(t, C, v, w) ==
    [m \in Vivos(t) |-> IF IsPrefix(C[v], C[m]) THEN Bajo(C[m], C[v], w) ELSE C[m]]

LEMMA BajoCamino ==
    ASSUME NEW t, Colgados(t), Distintos(t), NEW C, Caminos(t, C), NEW v \in Vivos(t),
           NEW w \in Seq(Nombres), NEW m \in Vivos(t), m # v
    PROVE  LET q == RutaDe(C, t[m].padre)
               D == CaminosTras(t, C, v, w)
           IN  D[m] = Append(RutaDe(D, t[m].padre), t[m].nombre)
<1> DEFINE p == t[m].padre
           x == t[m].nombre
           q == RutaDe(C, p)
           r == C[v]
           D == CaminosTras(t, C, v, w)
<1>1. C[m] = Append(q, x) /\ x \in Nombres /\ q \in Seq(Nombres) /\ (p = 0 \/ p \in Vivos(t))
  BY CaminoCampos
<1>2. r \in Seq(Nombres) /\ Len(r) \in 1..Entradas /\ r # C[m]
  BY CaminoCorto, VisiblesSon DEF Caminos
<1>3. D[m] = IF IsPrefix(r, C[m]) THEN Bajo(C[m], r, w) ELSE C[m]
  BY DEF CaminosTras
<1>4. p # 0 => D[p] = IF IsPrefix(r, C[p]) THEN Bajo(C[p], r, w) ELSE C[p]
  BY <1>1 DEF CaminosTras
<1> HIDE DEF p, x, r, D
<1>5. IsPrefix(r, C[m]) <=> IsPrefix(r, q)
  <2> HIDE DEF q
  <2> QED
    BY <1>1, <1>2, PrefijoConUltimo
<1>6. RutaDe(D, p) = IF IsPrefix(r, q) THEN Bajo(q, r, w) ELSE q
  <2>1. CASE p = 0
    <3>1. q = <<>> /\ RutaDe(D, p) = <<>> /\ Len(<<>>) = 0
      BY <2>1, EmptySeq DEF RutaDe
    <3>2. ~IsPrefix(r, q)
      BY <1>2, <3>1 DEF IsPrefix
    <3> QED
      BY <3>1, <3>2
  <2>2. CASE p # 0
    BY <1>4, <2>2 DEF RutaDe
  <2> QED
    BY <2>1, <2>2
<1> HIDE DEF q
<1>7. CASE IsPrefix(r, q)
  <2>1. Len(r) <= Len(q)
    BY <1>7 DEF IsPrefix
  <2>2. Bajo(Append(q, x), r, w) = Append(Bajo(q, r, w), x)
    BY <1>1, <1>2, <2>1, BajoConUltimo
  <2>3. D[m] = Append(RutaDe(D, p), x)
    BY <1>1, <1>3, <1>5, <1>6, <1>7, <2>2
  <2> QED
    BY <2>3 DEF p, x, D
<1>8. CASE ~IsPrefix(r, q)
  <2>1. D[m] = Append(RutaDe(D, p), x)
    BY <1>1, <1>3, <1>5, <1>6, <1>8
  <2> QED
    BY <2>1 DEF p, x, D
<1> QED
  BY <1>7, <1>8

LEMMA PrefijoMismo ==
    ASSUME NEW S, NEW r \in Seq(S)
    PROVE  IsPrefix(r, r)
<1>1. Len(r) \in Nat
  BY LenProperties
<1> QED
  BY <1>1, PrefijoEs

LEMMA AlMudar ==
    ASSUME NEW t, NEW u, NEW v, NEW w, NEW C, Arbolado(t), Caminos(t, C), Muda(t, u, v, w),
           ~IsPrefix(C[v], w)
    PROVE  Arbolado(u) /\ Mudado(ArbolDe(t), ArbolDe(u), C[v], w)
<1>1. Colgados(t) /\ Distintos(t)
  BY DEF Arbolado
<1> DEFINE q == Front(w)
           x == Last(w)
           p == Baja(t, 0, q)
           r == C[v]
           D == CaminosTras(t, C, v, w)
<1>2. /\ v \in Vivos(t) /\ u[v].estado = t[v].estado /\ v \in Nodos
      /\ SoloCambia(t, u, v)
      /\ w \in Seq(Nombres) /\ w # <<>> /\ Baja(t, 0, w) = NoHay
      /\ p \in Directorios(t) /\ u[v].nombre = x /\ u[v].padre = p
  BY DEF Muda, Vivos
<1>3. q \in Seq(Nombres) /\ x \in Nombres /\ w = Append(q, x)
  BY <1>2, FrontTipo, SinUltimo
<1>4. Vivos(u) = Vivos(t) /\ Directorios(u) = Directorios(t)
  <2>1. \A m \in Nodos : u[m].estado = t[m].estado
    BY <1>2 DEF SoloCambia, Iguales
  <2> QED
    BY <2>1 DEF Vivos, Directorios
<1>5. \A m \in Vivos(t) : m # v => Iguales(t, u, m)
  BY <1>2 DEF Vivos, SoloCambia
<1>6. q = RutaDe(C, p) /\ (p = 0 \/ p \in Vivos(t))
  <2>1. p # NoHay
    BY <1>2 DEF Directorios, NoHay, Nodos
  <2>2. p = 0 \/ p \in Vivos(t)
    BY <1>2 DEF Directorios, Vivos
  <2> HIDE DEF q
  <2> QED
    BY <1>1, <1>3, <2>1, <2>2, CaminoUnico
<1>7. \A m \in Vivos(t) : C[m] \in Seq(Nombres) /\ Len(C[m]) \in 1..Entradas
  BY <1>1, CaminoCorto DEF Caminos
<1>8. r \in Seq(Nombres) /\ Len(r) \in 1..Entradas
  BY <1>2, <1>7
<1>9. \A m \in Vivos(t) : IsPrefix(r, C[m]) => Len(r) <= Len(C[m])
  BY DEF IsPrefix
<1>10. ~IsPrefix(r, q)
  BY ZenonT(60), <1>3, <1>8, PrefijoConUltimo
<1> HIDE DEF p, q, x
<1>11. Colgados(u)
  <2>1. ASSUME NEW m \in Vivos(u) PROVE u[m].padre \in Directorios(u) /\ u[m].nombre \in Nombres
    <3>1. CASE m = v
      BY <1>2, <1>3, <1>4, <3>1
    <3>2. CASE m # v
      BY <1>1, <1>4, <1>5, <3>2 DEF Colgados, Iguales
    <3> QED
      BY <3>1, <3>2
  <2> QED
    BY <2>1 DEF Colgados
<1>12. Distintos(u)
  <2>1. ASSUME NEW m \in Vivos(t), t[m].padre = p, t[m].nombre = x PROVE FALSE
    <3>1. C[m] = Append(RutaDe(C, t[m].padre), t[m].nombre)
      BY <1>1, CaminoCampos
    <3>2. C[m] = w
      BY <1>3, <1>6, <2>1, <3>1
    <3>3. Baja(t, 0, C[m]) = m
      BY <1>1, CaminoLleva
    <3> QED
      BY <1>2, <3>2, <3>3 DEF Vivos, NoHay, Nodos
  <2>2. ASSUME NEW m \in Vivos(u), NEW k \in Vivos(u), u[m].padre = u[k].padre,
               u[m].nombre = u[k].nombre, m # k
        PROVE  FALSE
    <3>1. CASE m = v
      BY <1>2, <1>4, <1>5, <2>1, <2>2, <3>1 DEF Iguales
    <3>2. CASE k = v
      BY <1>2, <1>4, <1>5, <2>1, <2>2, <3>2 DEF Iguales
    <3>3. CASE m # v /\ k # v
      BY <1>1, <1>4, <1>5, <2>2, <3>3 DEF Distintos, Iguales
    <3> QED
      BY <3>1, <3>2, <3>3
  <2> QED
    BY <2>2 DEF Distintos
<1>13. \A m \in Vivos(t) : D[m] = IF IsPrefix(r, C[m]) THEN Bajo(C[m], r, w) ELSE C[m]
  BY DEF CaminosTras
<1>14. D \in [Vivos(t) -> Seq(Nombres)]
  <2>1. \A m \in Vivos(t) : D[m] \in Seq(Nombres)
    BY <1>2, <1>7, <1>8, <1>9, <1>13, BajoCampos
  <2> QED
    BY <2>1 DEF CaminosTras
<1>15. D[v] = w
  BY <1>2, <1>8, <1>13, PrefijoMismo, BajoMismo
<1>16. RutaDe(D, p) = q
  BY <1>6, <1>10, <1>13 DEF RutaDe
<1>17. Caminos(u, D)
  <2>1. ASSUME NEW m \in Vivos(t) PROVE D[m] = Append(RutaDe(D, u[m].padre), u[m].nombre)
    <3>1. CASE m = v
      BY <1>2, <1>3, <1>15, <1>16, <3>1
    <3>2. CASE m # v
      <4>1. D[m] = Append(RutaDe(D, t[m].padre), t[m].nombre)
        BY <1>1, <1>2, <3>2, BajoCamino
      <4> QED
        BY <1>5, <3>2, <4>1 DEF Iguales
    <3> QED
      BY <3>1, <3>2
  <2> QED
    BY <1>4, <1>14, <2>1 DEF Caminos
<1> HIDE DEF D, r
<1>18. Arbolado(u)
  BY <1>11, <1>12, <1>17 DEF Arbolado
<1>19. /\ VisiblesDe(t) = {C[m] : m \in Vivos(t)}
       /\ DOMAIN ArbolDe(t) = VisiblesDe(t)
       /\ \A m \in Vivos(t) : ArbolDe(t)[C[m]] = t[m].estado
       /\ \A m, k \in Vivos(t) : C[m] = C[k] => m = k
  BY <1>1, VisiblesSon
<1>20. /\ VisiblesDe(u) = {D[m] : m \in Vivos(t)}
       /\ DOMAIN ArbolDe(u) = VisiblesDe(u)
       /\ \A m \in Vivos(t) : ArbolDe(u)[D[m]] = u[m].estado
       /\ \A m, k \in Vivos(t) : D[m] = D[k] => m = k
  BY <1>4, <1>11, <1>12, <1>17, VisiblesSon
<1> DEFINE a == ArbolDe(t)
           van == VanDe(a, r)
           quedan == DOMAIN a \ van
           b == [y \in quedan \cup {Bajo(s, r, w) : s \in van} |->
                   IF y \in quedan THEN a[y] ELSE a[CHOOSE s \in van : Bajo(s, r, w) = y]]
<1>21. /\ van = {C[m] : m \in {k \in Vivos(t) : IsPrefix(r, C[k])}}
       /\ quedan = {C[m] : m \in {k \in Vivos(t) : ~IsPrefix(r, C[k])}}
  <2>1. van = {s \in VisiblesDe(t) : IsPrefix(r, s)}
    BY <1>19 DEF VanDe
  <2>2. quedan = {s \in VisiblesDe(t) : ~IsPrefix(r, s)}
    BY <1>19, <2>1
  <2> HIDE DEF van, quedan
  <2> QED
    BY <1>19, <2>1, <2>2
<1>22. DOMAIN b = VisiblesDe(u)
  <2>1. DOMAIN b = quedan \cup {Bajo(s, r, w) : s \in van}
    OBVIOUS
  <2> HIDE DEF van, quedan, b, a
  <2>2. ASSUME NEW m \in Vivos(t) PROVE D[m] \in quedan \cup {Bajo(s, r, w) : s \in van}
    BY <1>13, <1>21
  <2>3. ASSUME NEW s \in quedan PROVE s \in {D[m] : m \in Vivos(t)}
    BY <1>13, <1>21
  <2>4. ASSUME NEW s \in van PROVE Bajo(s, r, w) \in {D[m] : m \in Vivos(t)}
    BY <1>13, <1>21
  <2> QED
    BY <1>20, <2>1, <2>2, <2>3, <2>4
<1>23. \A m \in Vivos(t) : b[D[m]] = a[C[m]]
  <2> TAKE m \in Vivos(t)
  <2>1. D[m] \in DOMAIN b
    BY <1>20, <1>22
  <2>2. b[D[m]] = IF D[m] \in quedan THEN a[D[m]]
                  ELSE a[CHOOSE s \in van : Bajo(s, r, w) = D[m]]
    BY <2>1
  <2> HIDE DEF van, quedan, b, a
  <2>3. CASE ~IsPrefix(r, C[m])
    BY <1>13, <1>21, <2>2, <2>3
  <2>4. CASE IsPrefix(r, C[m])
    <3>1. D[m] = Bajo(C[m], r, w) /\ C[m] \in van
      BY <1>13, <1>21, <2>4
    <3>2. D[m] \notin quedan
      <4> SUFFICES ASSUME NEW k \in Vivos(t), ~IsPrefix(r, C[k]), D[m] = C[k] PROVE FALSE
        BY <1>21
      <4>1. D[k] = D[m]
        BY <1>13
      <4> QED
        BY <1>20, <2>4, <4>1
    <3>3. \A s \in van : Bajo(s, r, w) = D[m] => s = C[m]
      <4> TAKE s \in van
      <4>1. PICK k \in Vivos(t) : IsPrefix(r, C[k]) /\ s = C[k]
        BY <1>21
      <4>2. D[k] = Bajo(s, r, w)
        BY <1>13, <4>1
      <4> QED
        BY <1>20, <4>1, <4>2
    <3>4. (CHOOSE s \in van : Bajo(s, r, w) = D[m]) = C[m]
      BY <3>1, <3>3
    <3> QED
      BY <2>2, <3>2, <3>4
  <2> QED
    BY <2>3, <2>4
<1>24. \A m \in Vivos(t) : ArbolDe(u)[D[m]] = a[C[m]]
  BY <1>2, <1>5, <1>19, <1>20 DEF Iguales
<1>25. ArbolDe(u) = b
  <2>1. ArbolDe(u) = [y \in VisiblesDe(u) |-> ArbolDe(u)[y]]
    BY DEF ArbolDe
  <2>2. b = [y \in DOMAIN b |-> b[y]]
    OBVIOUS
  <2> HIDE DEF b, a
  <2>3. \A y \in VisiblesDe(u) : ArbolDe(u)[y] = b[y]
    BY <1>20, <1>23, <1>24
  <2> QED
    BY <1>22, <2>1, <2>2, <2>3
<1>26. r \in VisiblesDe(t) /\ w \in VisiblesDe(u) /\ w \notin VisiblesDe(t)
  <2>1. w \notin VisiblesDe(t)
    BY <1>2 DEF VisiblesDe
  <2> QED
    BY <1>2, <1>15, <1>19, <1>20, <2>1 DEF r
<1>27. r \in RutasPosibles /\ w \in RutasPosibles
  BY <1>26 DEF VisiblesDe
<1>28. EsDir(a, Front(w))
  BY <1>2, <1>3, EsDirDe DEF p, q
<1>29. ~IsPrefix(r, w)
  BY DEF r
<1> HIDE DEF a
<1>30. Mudado(a, ArbolDe(u), r, w)
  BY <1>19, <1>25, <1>26, <1>27, <1>28, <1>29 DEF Mudado, a
<1> QED
  BY <1>18, <1>30 DEF a, r

-----------------------------------------------------------------------------
(* What a file has of blocks is apart from its name.                       *)
MismoNombre(f, g) ==
    g.estado = f.estado /\ g.nombre = f.nombre /\ g.padre = f.padre

LEMMA NombreConInd ==
    ASSUME NEW f \in Entrada
    PROVE  /\ \A i : MismoNombre(f, [f EXCEPT !.ind = i])
           /\ \A x : MismoNombre(f, [f EXCEPT !.tam = x])
           /\ MismoNombre(f, f)
<1>1. ASSUME NEW i PROVE MismoNombre(f, [f EXCEPT !.ind = i])
  BY DEF MismoNombre, Entrada
<1>2. ASSUME NEW x PROVE MismoNombre(f, [f EXCEPT !.tam = x])
  BY DEF MismoNombre, Entrada
<1>3. MismoNombre(f, f)
  BY DEF MismoNombre
<1> QED
  BY <1>1, <1>2, <1>3

LEMMA NombreSigue ==
    ASSUME NEW f, NEW g, NEW h, MismoNombre(f, g), MismoNombre(g, h)
    PROVE  MismoNombre(f, h)
BY DEF MismoNombre

LEMMA NombreNuevoPuntero ==
    ASSUME NEW f \in Entrada, NEW d, NEW b
    PROVE  MismoNombre(f, NuevoPuntero(f, d, b).f)
<1> DEFINE pe == Puntero(f.tam)
           i1 == [f.ind EXCEPT ![pe] = Libre(d)]
           i2 == [i1 EXCEPT ![pe + 1] = Cabecera]
<1>1. NuevoPuntero(f, d, b).f = [f EXCEPT !.ind[pe] = Libre(d), !.ind[pe + 1] = Cabecera]
  BY DEF NuevoPuntero, Fin
<1>2. [f EXCEPT !.ind[pe] = Libre(d), !.ind[pe + 1] = Cabecera] = [f EXCEPT !.ind = i2]
  BY EntradaCampos
<1> HIDE DEF i2
<1> QED
  BY <1>1, <1>2, NombreConInd

LEMMA NombreAgregarBloque ==
    ASSUME NEW f \in Entrada, NEW d, NEW b
    PROVE  MismoNombre(f, AgregarBloque(f, d, b).f)
<1> DEFINE k == [d EXCEPT !.cont[f.ind[Puntero(f.tam)]][Posicion(f.tam)] = b]
           r == AgregarBloque(f, d, b)
<1> HIDE DEF k
<1>1. \/ r = Fin(f, d, "sinEspacio") \/ r = Fin(f, d, "lleno") \/ r = Fin(f, d, "cabecera")
      \/ r = NuevoPuntero(f, d, b)
      \/ r = Fin(f, k, "ok")
  BY DEF AgregarBloque, k
<1>2. r.f = f \/ r.f = NuevoPuntero(f, d, b).f
  BY <1>1 DEF Fin
<1> QED
  BY <1>2, NombreNuevoPuntero, NombreConInd

LEMMA NombreTomarYAgregar ==
    ASSUME NEW f \in Entrada, NEW d
    PROVE  MismoNombre(f, TomarYAgregar(f, d).f)
<1>1. \/ TomarYAgregar(f, d).f = f
      \/ TomarYAgregar(f, d).f = AgregarBloque(f, Tomado(d), Libre(d)).f
  BY DEF TomarYAgregar, Fin
<1> QED
  BY <1>1, NombreAgregarBloque, NombreConInd

LEMMA NombreEliminarNodos ==
    ASSUME NEW f \in Entrada, NEW d, NEW m, NEW hasta
    PROVE  MismoNombre(f, EliminarNodos(f, d, m, hasta).f)
<1>1. \E i : EliminarNodos(f, d, m, hasta).f = [f EXCEPT !.ind = i]
  BY DEF EliminarNodos
<1> QED
  BY <1>1, NombreConInd

LEMMA NombreDarleEspacio ==
    ASSUME NEW f \in Entrada, NEW d \in Disco, NEW size \in Nat
    PROVE  MismoNombre(f, DarleEspacio(f, d, size).f)
<1> DEFINE V == Vueltas(f.tam, size)
           z == Agrandados(f, d, size)
           T == {k \in Nat : MismoNombre(f, z[k].f)}
<1>1. V \in Nat
  BY VueltasTipo, EntradaCampos
<1>2. /\ z \in [0..V -> Resultados]
      /\ z[0] = Fin(f, d, "ok")
      /\ \A i \in 1..V : z[i] = Agranda(f, z[i - 1], i)
  BY AgrandadosDef
<1>3. DarleEspacio(f, d, size).f \in {f, z[V].f}
  BY DEF DarleEspacio, Fin
<1>4. \A x \in Resultados : \A i \in Nat \ {0} : MismoNombre(x.f, Agranda(f, x, i).f)
  <2> SUFFICES ASSUME NEW x \in Resultados, NEW i \in Nat \ {0}
               PROVE  MismoNombre(x.f, Agranda(f, x, i).f)
    OBVIOUS
  <2> DEFINE t == f.tam + Resto(f.tam) + (i - 1) * TB
             g == [x.f EXCEPT !.tam = t]
  <2>1. x.f \in Entrada
    BY DEF Resultados
  <2>2. MismoNombre(x.f, g)
    BY <2>1, NombreConInd
  <2>3. t \in Nat
    <3>1. f.tam \in Nat
      BY EntradaCampos
    <3>2. Resto(f.tam) \in Nat
      BY <3>1, RestoTipo, SacBloquesAssumption
    <3>3. (i - 1) * TB \in Nat
      BY SacBloquesAssumption
    <3> QED
      BY <3>1, <3>2, <3>3
  <2>4. g \in Entrada
    BY <2>1, <2>3, EntradaConTam
  <2>5. CASE x.fin \in Grave
    BY <2>1, <2>5, NombreConInd DEF Agranda
  <2>6. CASE x.fin \notin Grave
    <3>1. Agranda(f, x, i) = TomarYAgregar(g, x.d)
      BY <2>6 DEF Agranda
    <3> HIDE DEF g
    <3>2. MismoNombre(g, TomarYAgregar(g, x.d).f)
      BY <2>4, NombreTomarYAgregar
    <3> QED
      BY <2>2, <3>1, <3>2, NombreSigue
  <2> QED
    BY <2>5, <2>6
<1> HIDE DEF z, V
<1>5. 0 \in T
  BY <1>2, NombreConInd DEF Fin
<1>6. \A k \in 0..V - 1 : k \in T => k + 1 \in T
  <2> SUFFICES ASSUME NEW k \in 0..V - 1, k \in T PROVE k + 1 \in T
    OBVIOUS
  <2>1. k + 1 \in 1..V /\ k + 1 \in Nat \ {0} /\ (k + 1) - 1 = k /\ k \in 0..V
    BY <1>1
  <2>2. z[k + 1] = Agranda(f, z[k], k + 1)
    BY <1>2, <2>1
  <2>3. z[k] \in Resultados
    BY <1>2, <2>1
  <2>4. MismoNombre(z[k].f, z[k + 1].f)
    BY <1>4, <2>1, <2>2, <2>3
  <2> QED
    BY <2>1, <2>4, NombreSigue
<1>7. 0..V \subseteq T
  BY <1>1, <1>5, <1>6, InduccionHasta
<1>8. V \in T
  BY <1>1, <1>7
<1> QED
  BY <1>3, <1>8, NombreConInd DEF z, V

(* The block written leaves the name and the blocks of the file as they are. *)
LEMMA AsientaArchivo ==
    ASSUME NEW r, NEW x, NEW lugar
    PROVE  Asienta(r, x, lugar).f
             = [x.f EXCEPT !.tam = NuevoTam(x.f.tam, r.off, r.n, lugar)]
BY ZenonT(60) DEF Asienta

LEMMA NombreVuelta ==
    ASSUME NEW r \in Escrituras
    PROVE  MismoNombre(r.f, Vuelta(r).f)
<1> DEFINE x == Destino(r)
           t == NuevoTam(x.f.tam, r.off, r.n, Lugar(r))
<1>1. r.f \in Entrada
  BY DEF Escrituras
<1>2. x.f \in {r.f, TomarYAgregar(r.f, r.d).f}
  BY DEF Destino
<1>3. MismoNombre(r.f, x.f)
  BY <1>1, <1>2, NombreConInd, NombreTomarYAgregar
<1>4. x.f \in Entrada
  BY SMTT(60), DestinoTipo DEF Resultado
<1>5. Vuelta(r).f \in {x.f, [x.f EXCEPT !.tam = t]}
  <2>1. Vuelta(r) = IF x.fin # "ok" THEN [r EXCEPT !.f = x.f, !.d = x.d, !.fin = x.fin]
                                    ELSE Asienta(r, x, Lugar(r))
    BY Zenon DEF Vuelta
  <2>2. Asienta(r, x, Lugar(r)).f = [x.f EXCEPT !.tam = t]
    BY AsientaArchivo, ZenonT(60)
  <2> HIDE DEF x, t
  <2>3. [r EXCEPT !.f = x.f, !.d = x.d, !.fin = x.fin].f = x.f
    BY SMTT(60) DEF Escrituras
  <2>4. CASE x.fin # "ok"
    BY <2>1, <2>3, <2>4, ZenonT(60)
  <2>5. CASE x.fin = "ok"
    BY <2>1, <2>2, <2>5, ZenonT(60)
  <2> QED
    BY <2>4, <2>5, Zenon
<1> HIDE DEF x, t
<1>6. MismoNombre(x.f, Vuelta(r).f)
  BY <1>4, <1>5, NombreConInd
<1> QED
  BY <1>3, <1>6, NombreSigue

LEMMA NombreEscribe ==
    ASSUME NEW f \in Entrada, NEW d \in Disco, NEW tam \in Nat, NEW off \in Nat, NEW n \in Nat
    PROVE  MismoNombre(f, Escribe(f, d, tam, off, n).f)
<1> DEFINE otra(r) == IF r.fin = "sigue" THEN Vuelta(r) ELSE r
           r0 == [f |-> f, d |-> d, tam |-> tam, off |-> off, n |-> n, fin |-> "sigue"]
<1>1. r0 \in Escrituras /\ r0.f = f
  BY DEF Escrituras, Fines
<1>2. \A r \in Escrituras : otra(r) \in Escrituras
  BY VueltaTipo
<1>3. \A r \in Escrituras : MismoNombre(r.f, otra(r).f)
  <2> TAKE r \in Escrituras
  <2>1. r.f \in Entrada
    BY DEF Escrituras
  <2> QED
    BY <2>1, NombreVuelta, NombreConInd
<1>4. Escribe(f, d, tam, off, n).f = otra(otra(otra(r0))).f
  BY DEF Escribe, Fin
<1> HIDE DEF otra, r0
<1>5. otra(r0) \in Escrituras /\ otra(otra(r0)) \in Escrituras
  BY <1>1, <1>2
<1>6. MismoNombre(f, otra(r0).f) /\ MismoNombre(otra(r0).f, otra(otra(r0)).f)
      /\ MismoNombre(otra(otra(r0)).f, otra(otra(otra(r0))).f)
  BY <1>1, <1>3, <1>5
<1>7. MismoNombre(f, otra(otra(otra(r0))).f)
  BY <1>6, NombreSigue
<1> QED
  BY <1>4, <1>7

-----------------------------------------------------------------------------
(* What a request found in the tree when it was made, and still finds      *)
(* until it changes it.                                                    *)
Prometido(t, p) ==
    LET n == Baja(t, 0, p.ruta) IN
    /\ p.op \in {"create", "mkdir"} =>
          n = NoHay /\ Baja(t, 0, Front(p.ruta)) \in Directorios(t)
    /\ p.op \in {"read", "unlink", "truncate", "write"} =>
          n \in Nodos /\ t[n].estado = "ocupado"
    /\ p.op \in {"rmdir", "readdir"} => n \in Directorios(t)
    /\ p.op = "rename" =>
          /\ n \in Nodos
          /\ Baja(t, 0, Front(p.ruta2)) \in Directorios(t)
          /\ ~IsPrefix(p.ruta, p.ruta2)
          /\ Baja(t, 0, p.ruta2) = NoHay

EnCarpeta == {"mirar", "borrarArchivo", "revisar"}
Quietos == {"libre", "fin"}
Imposibles == {"nada", "listar"}

Promesa(t, q, h) ==
    /\ \A i \in 1..Len(q) : Prometido(t, q[i])
    /\ h.paso \notin EnCarpeta \cup Quietos => Prometido(t, h.pedido)

(* A request is in the socket, being served or answered.                   *)
Turno(e, q, k, h) ==
    \/ e = "espera" /\ Len(q) = 1 /\ k = 0 /\ h.paso = "libre"
    \/ e = "espera" /\ q = <<>> /\ k = 0 /\ h.paso \notin Quietos \cup Imposibles
    \/ e = "espera" /\ q = <<>> /\ k = 1 /\ h.paso = "libre"
    \/ e = "libre" /\ q = <<>> /\ k = 0 /\ h.paso = "libre"
    \/ e = "fin" /\ q = <<>> /\ k = 0 /\ h.paso \in Quietos

(* What is being looked up: from where it got to, the rest of the path     *)
(* leads to the same node as the whole path from the root.                 *)
Objetivo(paso, p) ==
    CASE paso = "madre" -> Front(p.ruta)
      [] paso = "mover" -> Front(p.ruta2)
      [] OTHER -> p.ruta

Buscando(h) ==
    /\ h.paso \notin Quietos \cup EnCarpeta \cup Imposibles
    /\ h.paso = "truncate" => h.pedido.n >= 0

Encamina(t, h) ==
    /\ Buscando(h) => Baja(t, h.nodo, h.camino) = Baja(t, 0, Objetivo(h.paso, h.pedido))
    /\ ~Buscando(h) => h.camino = <<>>
    /\ h.paso = "mover" => h.viejo = Baja(t, 0, h.pedido.ruta)

(* The directories being emptied: each is an entry of the next one, where  *)
(* that one is at, and nothing is left in it before where it is at.        *)
Adentro(t, j, d) == t[j].estado # "borrado" /\ t[j].padre = d

NivelBien(t, l) ==
    /\ l.dir \in Directorios(t)
    /\ l.i \in 1..Entradas + 1
    /\ \A j \in Nodos : j < l.i => ~Adentro(t, j, l.dir)

Enlaza(t, de, a) == a.i \in Nodos /\ a.i = de.dir /\ Adentro(t, a.i, a.dir)

PilaBien(t, pila) ==
    /\ \A k \in 1..Len(pila) : NivelBien(t, pila[k])
    /\ \A k \in 1..Len(pila) - 1 : Enlaza(t, pila[k], pila[k + 1])

Recorrido(t, h) ==
    h.paso \in EnCarpeta =>
        /\ PilaBien(t, h.pila)
        /\ h.paso = "borrarArchivo" => t[h.pila[1].i].estado = "ocupado"
                                       /\ t[h.pila[1].i].padre = h.pila[1].dir
        /\ h.paso = "revisar" => t[h.pila[1].i].estado = "borrado"

Sano(t, e, q, k, h) ==
    Turno(e, q, k, h) /\ Promesa(t, q, h) /\ Encamina(t, h) /\ Recorrido(t, h)

SanoEn(c) == Sano(tabla, cliente[c], cola[c], eco[c], hilo[c])

Nombrados == Arbolado(tabla) /\ \A c \in Clientes : SanoEn(c)

-----------------------------------------------------------------------------
(* What a step must do for the request and its look-up to stay as said.    *)
LEMMA PrometidoMismos ==
    ASSUME NEW t, NEW u, Mismos(t, u), NEW p \in Legal, Prometido(t, p)
    PROVE  Prometido(u, p)
<1>1. p \in Peticion /\ p.ruta \in Seq(Nombres) /\ 0 \in Donde
  BY PeticionCampos DEF Legal, Donde
<1>2. Baja(u, 0, p.ruta) = Baja(t, 0, p.ruta)
  BY <1>1, BajaMismos
<1>3. Directorios(u) = Directorios(t)
  BY VivosMismos
<1>4. \A n \in Nodos : u[n].estado = t[n].estado
  BY DEF Mismos
<1>5. p.op \in {"create", "mkdir"} =>
        Baja(u, 0, Front(p.ruta)) = Baja(t, 0, Front(p.ruta))
  <2> HAVE p.op \in {"create", "mkdir"}
  <2>1. p.ruta # <<>>
    BY DEF Legal
  <2>2. Front(p.ruta) \in Seq(Nombres)
    BY <1>1, <2>1, FrontTipo
  <2> QED
    BY <1>1, <2>2, BajaMismos
<1>6. p.op = "rename" =>
        /\ Baja(u, 0, Front(p.ruta2)) = Baja(t, 0, Front(p.ruta2))
        /\ Baja(u, 0, p.ruta2) = Baja(t, 0, p.ruta2)
  <2> HAVE p.op = "rename"
  <2>1. p.ruta2 \in Seq(Nombres) /\ p.ruta2 # <<>>
    BY <1>1, PeticionCampos
  <2>2. Front(p.ruta2) \in Seq(Nombres)
    BY <2>1, FrontTipo
  <2> QED
    BY <1>1, <2>1, <2>2, BajaMismos
<1> QED
  BY <1>2, <1>3, <1>4, <1>5, <1>6 DEF Prometido

LEMMA ObjetivoTipo ==
    ASSUME NEW h, HiloBien(h), h.paso \notin Quietos \cup {"nada"}
    PROVE  h.pedido \in Legal /\ h.pedido \in Peticion
           /\ h.pedido.ruta \in Seq(Nombres)
           /\ Objetivo(h.paso, h.pedido) \in Seq(Nombres)
<1>1. h.pedido \in Legal /\ h.pedido \in Peticion /\ h.pedido.op \in DeQuien(h.paso)
  BY PedidoDe DEF Quietos
<1>2. h.pedido.ruta \in Seq(Nombres)
  BY <1>1, PeticionCampos
<1>3. CASE h.paso = "madre"
  <2>1. h.pedido.op \in {"create", "mkdir"}
    BY <1>1, <1>3 DEF DeQuien
  <2>2. h.pedido.ruta # <<>>
    BY <1>1, <2>1 DEF Legal
  <2> QED
    BY <1>1, <1>2, <1>3, <2>2, FrontTipo DEF Objetivo
<1>4. CASE h.paso = "mover"
  <2>1. h.pedido.op = "rename"
    BY <1>1, <1>4 DEF DeQuien
  <2>2. h.pedido.ruta2 \in Seq(Nombres) /\ h.pedido.ruta2 # <<>>
    BY <1>1, <2>1, PeticionCampos
  <2>3. Front(h.pedido.ruta2) \in Seq(Nombres)
    BY <2>2, FrontTipo
  <2> QED
    BY <1>1, <1>2, <1>4, <2>3 DEF Objetivo
<1>5. CASE h.paso \notin {"madre", "mover"}
  BY <1>1, <1>2, <1>5 DEF Objetivo
<1> QED
  BY <1>3, <1>4, <1>5

LEMMA Ocupado ==
    ASSUME NEW c, SanoEn(c), hilo[c].paso \notin Quietos
    PROVE  /\ cliente[c] = "espera" /\ cola[c] = <<>> /\ eco[c] = 0
           /\ hilo[c].paso \notin Imposibles
           /\ Encamina(tabla, hilo[c])
           /\ hilo[c].paso \notin EnCarpeta => Prometido(tabla, hilo[c].pedido)
           /\ Recorrido(tabla, hilo[c])
<1>1. Turno(cliente[c], cola[c], eco[c], hilo[c])
  BY DEF SanoEn, Sano
<1>2. /\ cliente[c] = "espera" /\ cola[c] = <<>> /\ eco[c] = 0
      /\ hilo[c].paso \notin Imposibles
  BY <1>1 DEF Turno, Quietos
<1>3. hilo[c].paso \notin EnCarpeta => Prometido(tabla, hilo[c].pedido)
  BY DEF SanoEn, Sano, Promesa
<1> QED
  BY <1>2, <1>3 DEF SanoEn, Sano

LEMMA ColaVacia ==
    ASSUME NEW t, NEW h, h.paso \notin EnCarpeta \cup Quietos => Prometido(t, h.pedido)
    PROVE  Promesa(t, <<>>, h)
<1>1. Len(<<>>) = 0 /\ 1..0 = {}
  BY EmptySeq
<1> QED
  BY <1>1 DEF Promesa

LEMMA AlContestar ==
    ASSUME Servidos, NEW c \in Clientes, SanoEn(c), hilo[c].paso \notin Quietos,
           Responde(c, 1), cola' = cola, cliente' = cliente
    PROVE  SanoEn(c)'
<1>1. cliente[c] = "espera" /\ cola[c] = <<>> /\ eco[c] = 0
  BY Ocupado
<1>2. hilo'[c] = Ocioso
  BY DEF Responde, Servidos, Hilos
<1>3. eco'[c] = 1
  BY <1>1 DEF Responde, Servidos, Red
<1>4. Ocioso.paso = "libre" /\ Ocioso.camino = <<>>
  BY DEF Ocioso
<1>5. Turno("espera", <<>>, 1, Ocioso)
  BY <1>4 DEF Turno
<1>6. Promesa(tabla', <<>>, Ocioso)
  BY <1>4, ColaVacia DEF Quietos
<1>7. Encamina(tabla', Ocioso)
  BY <1>4 DEF Encamina, Buscando, Quietos
<1>8. Recorrido(tabla', Ocioso)
  BY <1>4 DEF Recorrido, EnCarpeta
<1>9. Sano(tabla', "espera", <<>>, 1, Ocioso)
  BY <1>5, <1>6, <1>7, <1>8 DEF Sano
<1> QED
  BY <1>1, <1>2, <1>3, <1>9 DEF SanoEn

(* The thread goes on with the same request, at a step that looks it up.   *)
LEMMA AlPasar ==
    ASSUME Servidos, NEW c \in Clientes, SanoEn(c), hilo[c].paso \notin Quietos \cup EnCarpeta,
           NEW paso, NEW camino \in Seq(Nombres), NEW nodo \in Donde, NEW viejo \in Donde,
           NEW tam, NEW pila,
           Deja(c, paso, camino, nodo, viejo, tam, pila),
           paso \notin Quietos \cup Imposibles \cup EnCarpeta,
           hilo[c].pedido.op \in DeQuien(paso),
           paso = "truncate" => hilo[c].pedido.n >= 0,
           Baja(tabla, nodo, camino) = Baja(tabla, 0, Objetivo(paso, hilo[c].pedido)),
           paso = "mover" => viejo = Baja(tabla, 0, hilo[c].pedido.ruta),
           Mismos(tabla, tabla'), cola' = cola, eco' = eco, cliente' = cliente
    PROVE  SanoEn(c)'
<1> DEFINE p == hilo[c].pedido
<1>1. cliente[c] = "espera" /\ cola[c] = <<>> /\ eco[c] = 0 /\ Prometido(tabla, p)
      /\ hilo[c].paso \notin Imposibles
  BY Ocupado
<1>2. PICK h :
        /\ hilo' = [hilo EXCEPT ![c] = h]
        /\ EsHilo(h)
        /\ h.pedido = p
        /\ h.paso = paso /\ h.camino = camino /\ h.nodo = nodo
        /\ h.viejo = viejo /\ h.tam = tam /\ h.pila = pila
  BY DEF Deja
<1>3. hilo'[c] = h
  BY <1>2 DEF Servidos, Hilos
<1>4. p \in Legal /\ p.ruta \in Seq(Nombres)
  BY <1>1, HiloDe, ObjetivoTipo DEF Servidos, Imposibles
<1>5. Objetivo(paso, p) \in Seq(Nombres) /\ 0 \in Donde
  <2>1. CASE paso = "madre"
    <3>1. p.op \in {"create", "mkdir"}
      BY <2>1 DEF DeQuien
    <3>2. p.ruta # <<>>
      BY <1>4, <3>1 DEF Legal
    <3> QED
      BY <1>4, <2>1, <3>2, FrontTipo DEF Objetivo, Donde
  <2>2. CASE paso = "mover"
    <3>1. p.op = "rename"
      BY <2>2 DEF DeQuien
    <3>2. p.ruta2 \in Seq(Nombres) /\ p.ruta2 # <<>>
      BY <1>4, <3>1, PeticionCampos DEF Legal
    <3>3. Front(p.ruta2) \in Seq(Nombres)
      BY <3>2, FrontTipo
    <3> QED
      BY <2>2, <3>3 DEF Objetivo, Donde
  <2>3. CASE paso \notin {"madre", "mover"}
    BY <1>4, <2>3 DEF Objetivo, Donde
  <2> QED
    BY <2>1, <2>2, <2>3
<1>6. Baja(tabla', nodo, camino) = Baja(tabla, nodo, camino)
  BY BajaMismos
<1>7. Baja(tabla', 0, Objetivo(paso, p)) = Baja(tabla, 0, Objetivo(paso, p))
  BY <1>5, BajaMismos
<1>8. Baja(tabla', 0, p.ruta) = Baja(tabla, 0, p.ruta)
  BY <1>4, <1>5, BajaMismos
<1>9. Prometido(tabla', p)
  BY <1>1, <1>4, PrometidoMismos
<1> HIDE DEF p
<1>10. Turno("espera", <<>>, 0, h)
  BY <1>2 DEF Turno
<1>11. Promesa(tabla', <<>>, h)
  BY <1>2, <1>9, ColaVacia
<1>12. Encamina(tabla', h)
  <2>1. Buscando(h)
    BY <1>2 DEF Buscando, p
  <2>2. Baja(tabla', h.nodo, h.camino) = Baja(tabla', 0, Objetivo(h.paso, h.pedido))
    BY <1>2, <1>6, <1>7 DEF p
  <2>3. h.paso = "mover" => h.viejo = Baja(tabla', 0, h.pedido.ruta)
    BY <1>2, <1>8 DEF p
  <2> QED
    BY <2>1, <2>2, <2>3 DEF Encamina
<1>13. Recorrido(tabla', h)
  BY <1>2 DEF Recorrido
<1>14. Sano(tabla', "espera", <<>>, 0, h)
  BY <1>10, <1>11, <1>12, <1>13 DEF Sano
<1> QED
  BY <1>1, <1>3, <1>14 DEF SanoEn

(* A directory is being emptied.                                           *)
LEMMA AlRecorrer ==
    ASSUME Servidos, NEW c \in Clientes, SanoEn(c), hilo[c].paso \notin Quietos,
           NEW paso \in EnCarpeta, NEW nodo, NEW viejo, NEW tam, NEW pila,
           Deja(c, paso, <<>>, nodo, viejo, tam, pila),
           PilaBien(tabla', pila),
           paso = "borrarArchivo" => tabla'[pila[1].i].estado = "ocupado"
                                     /\ tabla'[pila[1].i].padre = pila[1].dir,
           paso = "revisar" => tabla'[pila[1].i].estado = "borrado",
           cola' = cola, eco' = eco, cliente' = cliente
    PROVE  SanoEn(c)'
<1>1. cliente[c] = "espera" /\ cola[c] = <<>> /\ eco[c] = 0
  BY Ocupado
<1>2. PICK h :
        /\ hilo' = [hilo EXCEPT ![c] = h]
        /\ EsHilo(h)
        /\ h.pedido = hilo[c].pedido
        /\ h.paso = paso /\ h.camino = <<>> /\ h.nodo = nodo
        /\ h.viejo = viejo /\ h.tam = tam /\ h.pila = pila
  BY DEF Deja
<1>3. hilo'[c] = h
  BY <1>2 DEF Servidos, Hilos
<1>4. Turno("espera", <<>>, 0, h)
  BY <1>2 DEF Turno, EnCarpeta, Quietos, Imposibles
<1>5. Promesa(tabla', <<>>, h)
  BY <1>2, ColaVacia
<1>6. Encamina(tabla', h)
  BY <1>2 DEF Encamina, Buscando, EnCarpeta
<1>7. Recorrido(tabla', h)
  BY <1>2 DEF Recorrido
<1>8. Sano(tabla', "espera", <<>>, 0, h)
  BY <1>4, <1>5, <1>6, <1>7 DEF Sano
<1> QED
  BY <1>1, <1>3, <1>8 DEF SanoEn

-----------------------------------------------------------------------------
(* What every step of the server must do: keep the tree and the request as *)
(* said, and change the tree of paths in one of the ways of SacArbol.      *)
Obra(a, b) ==
    \/ b = a
    \/ \E r, tipo : tipo \in {"ocupado", "directorio"} /\ Creado(a, b, r, tipo)
    \/ \E r : Quitado(a, b, r)
    \/ \E r, w : Mudado(a, b, r, w)

Antes(c) == Servidos /\ Arbolado(tabla) /\ SanoEn(c)

Cumple(c) == Arbolado(tabla') /\ SanoEn(c)' /\ Obra(ArbolDe(tabla), ArbolDe(tabla'))

LEMMA SinCambio ==
    ASSUME Arbolado(tabla), Mismos(tabla, tabla')
    PROVE  Arbolado(tabla') /\ Obra(ArbolDe(tabla), ArbolDe(tabla'))
BY ArboladoMismos, ArbolDeMismos DEF Obra

LEMMA TablaIgual ==
    ASSUME tabla' = tabla
    PROVE  Mismos(tabla, tabla')
BY DEF Mismos

LEMMA TablaConNombre ==
    ASSUME Servidos, NEW n, NEW f, tabla' = [tabla EXCEPT ![n] = f],
           n \in Nodos => MismoNombre(tabla[n], f)
    PROVE  Mismos(tabla, tabla')
<1>1. \A m \in Nodos : tabla'[m] = IF m = n THEN f ELSE tabla[m]
  BY DEF Servidos, Memoria
<1> QED
  BY <1>1 DEF Mismos, MismoNombre

LEMMA ContestaIgual ==
    ASSUME NEW c \in Clientes, Antes(c), hilo[c].paso \notin Quietos,
           Responde(c, 1), cola' = cola, cliente' = cliente, Mismos(tabla, tabla')
    PROVE  Cumple(c)
BY AlContestar, SinCambio DEF Antes, Cumple

LEMMA CaeIgual ==
    ASSUME NEW c \in Clientes, Antes(c), NEW causa, Cae(causa), cliente' = cliente
    PROVE  Cumple(c)
<1>1. tabla' = tabla /\ hilo' = hilo /\ cola' = cola /\ eco' = eco
  BY DEF Cae, varsRed
<1>2. SanoEn(c)'
  BY <1>1 DEF Antes, SanoEn
<1> QED
  BY <1>1, <1>2, TablaIgual, SinCambio DEF Antes, Cumple

LEMMA NodoEs ==
    ASSUME NEW c \in Clientes, Antes(c), hilo[c].paso \notin Quietos \cup EnCarpeta,
           hilo[c].camino = <<>>, hilo[c].paso = "truncate" => hilo[c].pedido.n >= 0
    PROVE  /\ Nodo(c) = Baja(tabla, 0, Objetivo(hilo[c].paso, hilo[c].pedido))
           /\ Nodo(c) \in Donde
           /\ Prometido(tabla, hilo[c].pedido)
           /\ hilo[c].pedido \in Legal /\ hilo[c].pedido.ruta \in Seq(Nombres)
           /\ hilo[c].pedido.op \in DeQuien(hilo[c].paso)
<1>1. Encamina(tabla, hilo[c]) /\ hilo[c].paso \notin Imposibles
      /\ Prometido(tabla, hilo[c].pedido)
  BY Ocupado DEF Antes
<1>2. Nodo(c) \in Donde /\ hilo[c].pedido.op \in DeQuien(hilo[c].paso)
  BY HiloTipo DEF Antes, Nodo
<1>3. Baja(tabla, hilo[c].nodo, <<>>) = hilo[c].nodo
  BY <1>2, BajaVacia DEF Nodo
<1>4. Buscando(hilo[c])
  BY <1>1 DEF Buscando
<1>5. hilo[c].pedido \in Legal /\ hilo[c].pedido.ruta \in Seq(Nombres)
  BY <1>1, HiloDe, ObjetivoTipo DEF Antes, Servidos, Imposibles
<1> QED
  BY <1>1, <1>2, <1>3, <1>4, <1>5 DEF Encamina, Nodo

LEMMA TomarSano ==
    ASSUME NEW c \in Clientes, Antes(c), Tomar(c), cliente' = cliente
    PROVE  Cumple(c)
<1> DEFINE p == Head(cola[c])
           camino == IF p.op = "truncate" /\ p.n < 0 THEN <<>> ELSE p.ruta
           h == [Ocioso EXCEPT !.pedido = p, !.paso = PrimerPaso(p.op), !.camino = camino]
<1>1. hilo[c].paso = "libre" /\ cola[c] # <<>>
      /\ hilo' = [hilo EXCEPT ![c] = h] /\ cola' = [cola EXCEPT ![c] = Tail(@)]
      /\ eco' = eco /\ tabla' = tabla
  BY DEF Tomar, varsDisco
<1>2. cola[c] \in Seq(Legal)
  BY DEF Antes, Servidos, Red
<1>3. p \in Legal /\ p \in Peticion /\ Tail(cola[c]) \in Seq(Legal) /\ p = cola[c][1]
      /\ Len(Tail(cola[c])) = Len(cola[c]) - 1
  BY <1>1, <1>2, HeadTailProperties DEF Legal
<1>4. /\ h.pedido = p /\ h.paso = PrimerPaso(p.op) /\ h.camino = camino /\ h.nodo = 0
  BY DEF Ocioso
<1>5. cliente[c] = "espera" /\ Len(cola[c]) = 1 /\ eco[c] = 0
  BY <1>1 DEF Antes, SanoEn, Sano, Turno, Quietos
<1>6. Prometido(tabla, p)
  BY <1>3, <1>5 DEF Antes, SanoEn, Sano, Promesa
<1>7. cola'[c] = <<>>
  <2>1. Len(Tail(cola[c])) = 0
    BY <1>3, <1>5
  <2> QED
    BY <1>1, <1>3, <2>1, EmptySeq DEF Antes, Servidos, Red
<1>8. hilo'[c] = h
  BY <1>1 DEF Antes, Servidos, Hilos
<1> HIDE DEF h
<1>9. h.paso \notin Quietos \cup Imposibles \cup EnCarpeta \cup {"madre", "mover"}
      /\ (h.paso = "truncate" => p.op = "truncate")
  BY <1>3, <1>4, PeticionCampos DEF PrimerPaso, Quietos, Imposibles, EnCarpeta
<1>10. Turno("espera", <<>>, 0, h)
  BY <1>9 DEF Turno
<1>11. Promesa(tabla, <<>>, h)
  BY <1>4, <1>6, ColaVacia
<1>12. Encamina(tabla, h)
  <2>1. CASE p.op = "truncate" /\ p.n < 0
    <3>1. h.camino = <<>> /\ h.paso = "truncate" /\ h.pedido.n < 0
      BY <1>4, <2>1 DEF PrimerPaso
    <3>2. ~Buscando(h)
      <4>1. p.n \in Int
        BY <1>3, <2>1, PeticionCampos
      <4> QED
        BY <1>4, <3>1, <4>1 DEF Buscando
    <3> QED
      BY <1>9, <3>1, <3>2 DEF Encamina
  <2>2. CASE ~(p.op = "truncate" /\ p.n < 0)
    <3>1. h.camino = p.ruta
      BY <1>4, <2>2
    <3>2. Buscando(h)
      <4>1. p.op = "truncate" => p.n \in Int
        BY <1>3, PeticionCampos
      <4> QED
        BY <1>4, <1>9, <2>2, <4>1 DEF Buscando
    <3>3. Objetivo(h.paso, h.pedido) = p.ruta
      BY <1>4, <1>9 DEF Objetivo
    <3> QED
      BY <1>4, <1>9, <3>1, <3>2, <3>3 DEF Encamina
  <2> QED
    BY <2>1, <2>2
<1>13. Recorrido(tabla, h)
  BY <1>9 DEF Recorrido
<1>14. Sano(tabla, "espera", <<>>, 0, h)
  BY <1>10, <1>11, <1>12, <1>13 DEF Sano
<1>15. SanoEn(c)'
  BY <1>1, <1>5, <1>7, <1>8, <1>14 DEF SanoEn
<1> QED
  BY <1>1, <1>15, TablaIgual, SinCambio DEF Antes, Cumple

LEMMA BajarSano ==
    ASSUME NEW c \in Clientes, Antes(c), Bajar(c), cliente' = cliente
    PROVE  Cumple(c)
<1> DEFINE h == hilo[c]
           nodo == Hijo(h.nodo, Head(h.camino))
<1>1. h.camino # <<>> /\ tabla' = tabla /\ cola' = cola /\ eco' = eco
  BY DEF Bajar, varsDisco, varsRed
<1>2. Encamina(tabla, h)
  BY DEF Antes, SanoEn, Sano
<1>3. Buscando(h)
  BY <1>1, <1>2 DEF Encamina
<1>4. h.paso \notin Quietos \cup EnCarpeta \cup Imposibles
      /\ (h.paso = "truncate" => h.pedido.n >= 0)
  BY <1>3 DEF Buscando
<1>5. h.camino \in Seq(Nombres) /\ h.nodo \in Donde /\ h.viejo \in Donde
      /\ h.pedido.op \in DeQuien(h.paso)
  BY HiloTipo DEF Antes
<1>6. Tail(h.camino) \in Seq(Nombres)
  BY <1>1, <1>5, HeadTailProperties
<1>7. nodo = HijoEn(tabla, h.nodo, Head(h.camino))
  BY HijoEsHijoEn
<1>8. nodo \in Donde
  BY <1>7, HijoEnTipo DEF Donde
<1>9. Baja(tabla, nodo, Tail(h.camino)) = Baja(tabla, h.nodo, h.camino)
  BY <1>1, <1>5, <1>7, BajaSigue
<1>10. Deja(c, h.paso, Tail(h.camino), nodo, h.viejo, h.tam, h.pila)
  BY BajarDeja DEF Antes, Servidos
<1> HIDE DEF nodo
<1>11. Baja(tabla, nodo, Tail(h.camino)) = Baja(tabla, 0, Objetivo(h.paso, h.pedido))
       /\ (h.paso = "mover" => h.viejo = Baja(tabla, 0, h.pedido.ruta))
  BY <1>2, <1>3, <1>9 DEF Encamina
<1>12. SanoEn(c)'
  BY <1>1, <1>4, <1>5, <1>6, <1>8, <1>10, <1>11, TablaIgual, AlPasar DEF Antes
<1> QED
  BY <1>1, <1>12, TablaIgual, SinCambio DEF Antes, Cumple

-----------------------------------------------------------------------------
(* The actions on one entry.                                               *)
LEMMA NombreOcupa ==
    ASSUME Servidos, NEW n \in Nodos, NEW nombre, NEW madre
    PROVE  /\ Archivo(n, nombre, madre).estado = "ocupado"
           /\ Archivo(n, nombre, madre).nombre = nombre
           /\ Archivo(n, nombre, madre).padre = madre
           /\ Directorio(n, nombre, madre).estado = "directorio"
           /\ Directorio(n, nombre, madre).nombre = nombre
           /\ Directorio(n, nombre, madre).padre = madre
<1>1. tabla[n] \in Entrada
  BY DEF Servidos, Memoria
<1> QED
  BY <1>1 DEF Archivo, Directorio, Entrada

LEMMA NombreConBloque ==
    ASSUME NEW r, NEW d, r = Fin(r.f, r.d, r.fin)
    PROVE  ConBloque(r, d).f = r.f
BY DEF ConBloque, Fin

(* A new entry, whichever it is.                                           *)
LEMMA EntradaNueva ==
    ASSUME NEW c \in Clientes, Antes(c), En(c, "madre"), Nodo(c) # NoHay,
           EntradasLibres # {}, NEW f,
           tabla' = [tabla EXCEPT ![Min(EntradasLibres)] = f],
           f.estado \in {"ocupado", "directorio"}, f.nombre = Last(Pedido(c).ruta),
           f.padre = Nodo(c)
    PROVE  Arbolado(tabla') /\ Obra(ArbolDe(tabla), ArbolDe(tabla'))
<1> DEFINE n == Min(EntradasLibres)
           p == hilo[c].pedido
<1>1. n \in Nodos /\ tabla[n].estado = "borrado"
  <2>1. EntradasLibres \subseteq Nat
    BY DEF EntradasLibres, Nodos
  <2>2. n \in EntradasLibres
    BY <2>1, MinDeNaturales
  <2> QED
    BY <2>2 DEF EntradasLibres
<1>2. hilo[c].paso = "madre" /\ hilo[c].camino = <<>>
  BY DEF En
<1>3. /\ Nodo(c) = Baja(tabla, 0, Objetivo("madre", p))
      /\ Prometido(tabla, p) /\ p \in Legal /\ p.ruta \in Seq(Nombres)
      /\ p.op \in {"create", "mkdir"}
  <2>1. "madre" \notin Quietos \cup EnCarpeta /\ DeQuien("madre") = {"create", "mkdir"}
    BY DEF Quietos, EnCarpeta, DeQuien
  <2> QED
    BY <1>2, <2>1, NodoEs
<1>4. Nodo(c) = Baja(tabla, 0, Front(p.ruta))
  BY <1>3 DEF Objetivo
<1>5. p.ruta # <<>>
  BY <1>3 DEF Legal
<1>6. Baja(tabla, 0, Front(p.ruta)) \in Directorios(tabla) /\ Baja(tabla, 0, p.ruta) = NoHay
  BY <1>3 DEF Prometido
<1>7. \A m \in Nodos : tabla'[m] = IF m = n THEN f ELSE tabla[m]
  BY DEF Antes, Servidos, Memoria
<1> HIDE DEF n
<1>8. SoloCambia(tabla, tabla', n)
  BY <1>7 DEF SoloCambia, Iguales
<1>9. Nace(tabla, tabla', n, p.ruta)
  BY <1>1, <1>3, <1>4, <1>5, <1>6, <1>7, <1>8 DEF Nace, Pedido
<1>10. Arbolado(tabla') /\ Creado(ArbolDe(tabla), ArbolDe(tabla'), p.ruta, tabla'[n].estado)
  BY ZenonT(60), <1>9, AlNacer DEF Antes
<1>11. tabla'[n].estado \in {"ocupado", "directorio"}
  BY <1>1, <1>7
<1> HIDE DEF p
<1> QED
  BY <1>10, <1>11 DEF Obra

LEMMA CrearArchivoSano ==
    ASSUME NEW c \in Clientes, Antes(c), CrearArchivo(c), cliente' = cliente
    PROVE  Cumple(c)
<1> DEFINE n == Min(EntradasLibres)
           f == Archivo(n, Last(Pedido(c).ruta), Nodo(c))
           x == TomarYAgregar(f, disco)
           r == ConBloque(x, disco)
<1>1. /\ En(c, "madre") /\ Nodo(c) # NoHay /\ EntradasLibres # {}
      /\ Cae(r.fin) \/ (Guarda(n, r) /\ Responde(c, 1) /\ cola' = cola)
  BY DEF CrearArchivo
<1>2. CASE Cae(r.fin)
  BY <1>2, CaeIgual
<1>3. CASE Guarda(n, r) /\ Responde(c, 1) /\ cola' = cola
  <2>1. n \in Nodos
    BY <1>1, MinLibre
  <2>2. Pedido(c).ruta \in Seq(Nombres) /\ Pedido(c).ruta # <<>>
    <3>1. "madre" \notin Quietos \cup EnCarpeta /\ DeQuien("madre") = {"create", "mkdir"}
      BY DEF Quietos, EnCarpeta, DeQuien
    <3>2. hilo[c].pedido \in Legal /\ hilo[c].pedido.ruta \in Seq(Nombres)
          /\ hilo[c].pedido.op \in {"create", "mkdir"}
      BY <1>1, <3>1, NodoEs DEF En
    <3> QED
      BY <3>2 DEF Legal, Pedido
  <2>3. Last(Pedido(c).ruta) \in Nombres
    BY <2>2, FrontTipo
  <2>4. f \in Entrada /\ disco \in Disco
    <3>1. Nodo(c) \in Donde
      BY HiloTipo DEF Antes, Nodo
    <3> QED
      BY <2>1, <2>3, <3>1, OcupaTipo DEF Antes, Servidos, Memoria
  <2>5. f.estado = "ocupado" /\ f.nombre = Last(Pedido(c).ruta) /\ f.padre = Nodo(c)
    BY <2>1, NombreOcupa DEF Antes
  <2> HIDE DEF f, n
  <2>6. MismoNombre(f, x.f)
    BY <2>4, NombreTomarYAgregar
  <2>7. x = Fin(x.f, x.d, x.fin)
    BY <2>4, TomarYAgregarForma DEF Resultados, Fin
  <2> HIDE DEF x
  <2>8. r.f = x.f
    BY <2>7, NombreConBloque
  <2> HIDE DEF r
  <2>9. tabla' = [tabla EXCEPT ![n] = r.f]
    BY <1>3 DEF Guarda
  <2>10. r.f.estado = "ocupado" /\ r.f.nombre = Last(Pedido(c).ruta) /\ r.f.padre = Nodo(c)
    BY <2>5, <2>6, <2>8 DEF MismoNombre
  <2>11. Arbolado(tabla') /\ Obra(ArbolDe(tabla), ArbolDe(tabla'))
    BY <1>1, <2>9, <2>10, EntradaNueva DEF n
  <2>12. hilo[c].paso \notin Quietos
    BY <1>1 DEF En, Quietos
  <2> QED
    BY <1>3, <2>11, <2>12, AlContestar DEF Antes, Cumple
<1> QED
  BY <1>1, <1>2, <1>3

LEMMA CrearSano ==
    ASSUME NEW c \in Clientes, Antes(c), Crear(c), cliente' = cliente
    PROVE  Cumple(c)
<1>1. {"existe", "madre"} \cap (Quietos \cup EnCarpeta \cup Imposibles) = {}
  BY DEF Quietos, EnCarpeta, Imposibles
<1>2. CASE YaExiste(c) \/ SinMadre(c) \/ TablaLlena(c)
  <2>1. hilo[c].paso \notin Quietos /\ Responde(c, 1) /\ cola' = cola /\ tabla' = tabla
    BY <1>1, <1>2 DEF YaExiste, SinMadre, TablaLlena, En, varsDisco
  <2> QED
    BY <2>1, TablaIgual, ContestaIgual
<1>3. CASE BuscarMadre(c)
  <2> DEFINE p == hilo[c].pedido
  <2>1. hilo[c].paso = "existe" /\ hilo[c].camino = <<>>
        /\ Busca(c, Front(p.ruta), "madre") /\ tabla' = tabla /\ cola' = cola /\ eco' = eco
    BY <1>3 DEF BuscarMadre, En, Pedido, varsDisco, varsRed
  <2>2. p \in Legal /\ p.ruta \in Seq(Nombres) /\ p.op \in DeQuien("existe")
    BY <1>1, <2>1, NodoEs
  <2>3. p.op \in {"create", "mkdir"} /\ p.op \in DeQuien("madre")
    BY <2>2 DEF DeQuien
  <2>4. Front(p.ruta) \in Seq(Nombres)
    <3>1. p.ruta # <<>>
      BY <2>2, <2>3 DEF Legal
    <3> QED
      BY <2>2, <3>1, FrontTipo
  <2>5. Deja(c, "madre", Front(p.ruta), 0, hilo[c].viejo, hilo[c].tam, hilo[c].pila)
    BY <2>1, BuscaDeja DEF Antes, Servidos
  <2>6. hilo[c].viejo \in Donde /\ 0 \in Donde
    BY HiloTipo DEF Antes, Donde
  <2>7. Objetivo("madre", p) = Front(p.ruta)
    BY DEF Objetivo
  <2>8. SanoEn(c)'
    BY <1>1, <2>1, <2>3, <2>4, <2>5, <2>6, <2>7, TablaIgual, AlPasar DEF Antes
  <2> QED
    BY <2>1, <2>8, TablaIgual, SinCambio DEF Antes, Cumple
<1>4. CASE CrearArchivo(c)
  BY <1>4, CrearArchivoSano
<1>5. CASE CrearDirectorio(c)
  <2> DEFINE n == Min(EntradasLibres)
             f == Directorio(n, Last(Pedido(c).ruta), Nodo(c))
  <2>1. /\ En(c, "madre") /\ Nodo(c) # NoHay /\ EntradasLibres # {}
        /\ tabla' = [tabla EXCEPT ![n] = f] /\ Responde(c, 1) /\ cola' = cola
    BY <1>5 DEF CrearDirectorio
  <2>2. n \in Nodos
    BY <2>1, MinLibre
  <2>3. f.estado = "directorio" /\ f.nombre = Last(Pedido(c).ruta) /\ f.padre = Nodo(c)
    BY <2>2, NombreOcupa DEF Antes
  <2> HIDE DEF f
  <2>4. Arbolado(tabla') /\ Obra(ArbolDe(tabla), ArbolDe(tabla'))
    BY <2>1, <2>3, EntradaNueva
  <2>5. hilo[c].paso \notin Quietos
    BY <2>1 DEF En, Quietos
  <2> QED
    BY <2>1, <2>4, <2>5, AlContestar DEF Antes, Cumple
<1> QED
  BY <1>2, <1>3, <1>4, <1>5 DEF Crear

LEMMA ConsultarSano ==
    ASSUME NEW c \in Clientes, Antes(c), Consultar(c), cliente' = cliente
    PROVE  Cumple(c)
<1>1. CASE Atributos(c) \/ Listar(c)
  <2>1. hilo[c].paso \notin Quietos /\ Responde(c, 1) /\ cola' = cola /\ tabla' = tabla
    BY <1>1 DEF Atributos, Listar, En, varsDisco, Quietos
  <2> QED
    BY <2>1, TablaIgual, ContestaIgual
<1>2. CASE SinDirectorio(c)
  <2>1. hilo[c].paso = "readdir" /\ hilo[c].camino = <<>> /\ Nodo(c) = NoHay
    BY <1>2 DEF SinDirectorio, En
  <2>2. "readdir" \notin Quietos \cup EnCarpeta /\ DeQuien("readdir") = {"readdir"}
    BY DEF Quietos, EnCarpeta, DeQuien
  <2>3. /\ Nodo(c) = Baja(tabla, 0, Objetivo("readdir", hilo[c].pedido))
        /\ Prometido(tabla, hilo[c].pedido) /\ hilo[c].pedido.op = "readdir"
    BY <2>1, <2>2, NodoEs
  <2>4. Nodo(c) \in Directorios(tabla)
    BY <2>3 DEF Prometido, Objetivo
  <2>5. NoHay \notin Directorios(tabla)
    BY DEF Directorios, NoHay, Nodos
  <2> QED
    BY <2>1, <2>4, <2>5
<1>3. CASE Leer(c)
  <2>1. hilo[c].paso = "read" /\ hilo[c].camino = <<>> /\ cola' = cola /\ tabla' = tabla
        /\ Responde(c, IF Nodo(c) = NoHay THEN 2 ELSE 1)
    BY <1>3 DEF Leer, En, varsDisco
  <2>2. "read" \notin Quietos \cup EnCarpeta /\ DeQuien("read") = {"read"}
    BY DEF Quietos, EnCarpeta, DeQuien
  <2>3. /\ Nodo(c) = Baja(tabla, 0, Objetivo("read", hilo[c].pedido))
        /\ Prometido(tabla, hilo[c].pedido) /\ hilo[c].pedido.op = "read"
    BY <2>1, <2>2, NodoEs
  <2>4. Nodo(c) \in Nodos
    BY <2>3 DEF Prometido, Objetivo
  <2>5. NoHay \notin Nodos
    BY DEF NoHay, Nodos
  <2> QED
    BY <2>1, <2>2, <2>4, <2>5, TablaIgual, ContestaIgual
<1> QED
  BY <1>1, <1>2, <1>3 DEF Consultar

(* The thread goes on with the node it has, or looks the path up again.    *)
Buscan == {"existe", "leerTam", "escribir", "read", "rmdir", "readdir", "getattr", "rename",
           "viejo", "subirModo", "borrarBloques", "bajarModo", "quitar"}

LEMMA BuscanSon ==
    /\ Buscan \cap (Quietos \cup Imposibles \cup EnCarpeta \cup {"madre", "mover", "truncate"}) = {}
    /\ \A paso \in Buscan : \A p : Objetivo(paso, p) = p.ruta
BY DEF Buscan, Quietos, Imposibles, EnCarpeta, Objetivo

LEMMA QuedaSano ==
    ASSUME NEW c \in Clientes, Antes(c), hilo[c].paso \in Buscan, hilo[c].camino = <<>>,
           NEW paso \in Buscan, NEW tam, hilo[c].pedido.op \in DeQuien(paso),
           Deja(c, paso, hilo[c].camino, hilo[c].nodo, hilo[c].viejo, tam, hilo[c].pila),
           Mismos(tabla, tabla'), cola' = cola, eco' = eco, cliente' = cliente
    PROVE  Cumple(c)
<1> DEFINE h == hilo[c]
<1>1. h.nodo = Baja(tabla, 0, h.pedido.ruta) /\ h.nodo \in Donde
  BY BuscanSon, NodoEs DEF Nodo
<1>2. <<>> \in Seq(Nombres) /\ h.viejo \in Donde
  BY EmptySeq, HiloTipo DEF Antes
<1>3. Baja(tabla, h.nodo, h.camino) = Baja(tabla, 0, Objetivo(paso, h.pedido))
  BY <1>1, BajaVacia, BuscanSon
<1>4. SanoEn(c)'
  BY <1>1, <1>2, <1>3, BuscanSon, AlPasar DEF Antes
<1> QED
  BY <1>4, SinCambio DEF Antes, Cumple

LEMMA BuscaSano ==
    ASSUME NEW c \in Clientes, Antes(c), hilo[c].paso \in Buscan, hilo[c].camino = <<>>,
           NEW paso \in Buscan, hilo[c].pedido.op \in DeQuien(paso),
           Busca(c, hilo[c].pedido.ruta, paso),
           tabla' = tabla, cola' = cola, eco' = eco, cliente' = cliente
    PROVE  Cumple(c)
<1> DEFINE h == hilo[c]
<1>1. h.pedido.ruta \in Seq(Nombres)
  BY BuscanSon, NodoEs
<1>2. h.viejo \in Donde /\ 0 \in Donde
  BY HiloTipo DEF Antes, Donde
<1>3. Deja(c, paso, h.pedido.ruta, 0, h.viejo, h.tam, h.pila)
  BY BuscaDeja DEF Antes, Servidos
<1>4. Objetivo(paso, h.pedido) = h.pedido.ruta
  BY BuscanSon
<1>5. SanoEn(c)'
  BY <1>1, <1>2, <1>3, <1>4, BuscanSon, TablaIgual, AlPasar DEF Antes
<1> QED
  BY <1>5, TablaIgual, SinCambio DEF Antes, Cumple

LEMMA NombreTruncar ==
    ASSUME NEW c \in Clientes, Antes(c), Truncar(c), cliente' = cliente
    PROVE  Cumple(c)
<1> DEFINE n == Nodo(c)
           tam == Pedido(c).n
           crece == tam > tabla[n].tam
           hasta == tam \div TB
           r == IF crece THEN DarleEspacio(tabla[n], disco, tam - tabla[n].tam)
                ELSE EliminarNodos(tabla[n], disco, ModoTras(hasta), hasta)
           s == IF r.fin = "ok" THEN [r EXCEPT !.f.tam = tam] ELSE r
<1>1. hilo[c].paso = "truncate" /\ hilo[c].camino = <<>> /\ Nodo(c) # NoHay
      /\ Pedido(c).n >= 0
  BY DEF Truncar, En
<1>2. tam \in Nat
  <2>1. Pedido(c) \in Peticion /\ Pedido(c).op = "truncate"
    BY <1>1, PedidoTipo DEF DeQuien, Antes
  <2>2. Pedido(c).n \in Int
    BY <2>1, PeticionCampos
  <2> QED
    BY <1>1, <2>2
<1>3. n \in Nodos
  <2>1. ConEntrada(hilo[c]) /\ hilo[c].nodo \in Donde
    BY HiloTipo DEF Antes
  <2> QED
    BY <1>1, <2>1 DEF ConEntrada, Nodo, Donde, Pedido
<1>4. tabla[n] \in Entrada /\ disco \in Disco
  BY <1>3 DEF Antes, Servidos, Memoria
<1>5. MismoNombre(tabla[n], r.f) /\ r.f \in Entrada
  <2>1. hasta \in Nat
    BY <1>2, DivTipo, SacBloquesAssumption
  <2>2. crece => tam - tabla[n].tam \in Nat
    <3>1. tabla[n].tam \in Nat
      BY <1>4, EntradaCampos
    <3> HIDE DEF tam, n
    <3> QED
      BY <1>2, <3>1
  <2>3. CASE crece
    <3>1. Resultado(r)
      BY <1>4, <2>2, <2>3, DarleEspacioTipo
    <3>2. MismoNombre(tabla[n], r.f)
      BY <1>4, <2>2, <2>3, NombreDarleEspacio
    <3> QED
      BY <3>1, <3>2 DEF Resultado
  <2>4. CASE ~crece
    <3>1. Resultado(r)
      <4>1. modo \in {0, 1}
        BY DEF Antes, Servidos, Memoria
      <4>2. ModoTras(hasta) \in {0, 1}
        BY <4>1 DEF ModoTras
      <4> QED
        BY <1>4, <2>1, <2>4, <4>2, EliminarNodosTipo
    <3>2. MismoNombre(tabla[n], r.f)
      BY <1>4, <2>4, NombreEliminarNodos
    <3> QED
      BY <3>1, <3>2 DEF Resultado
  <2> QED
    BY <2>3, <2>4
<1>6. Cae(r.fin) \/ (Guarda(n, s) /\ Responde(c, 1) /\ cola' = cola)
  BY DEF Truncar
<1>7. r.fin = "ok" => s.f = [r.f EXCEPT !.tam = tam]
  <2> HIDE DEF n, tam, crece, hasta
  <2>1. \E g, e, fin : r = [f |-> g, d |-> e, fin |-> fin]
    <3>1. CASE crece
      <4>1. r = DarleEspacio(tabla[n], disco, tam - tabla[n].tam)
        BY <3>1, Zenon
      <4> HIDE DEF r
      <4>2. \E g, e, fin : DarleEspacio(tabla[n], disco, tam - tabla[n].tam)
                             = [f |-> g, d |-> e, fin |-> fin]
        BY DarleEspacioPartes, ZenonT(60)
      <4> QED
        BY <4>1, <4>2, Zenon
    <3>2. CASE ~crece
      <4>1. r = EliminarNodos(tabla[n], disco, ModoTras(hasta), hasta)
        BY <3>2, Zenon
      <4> HIDE DEF r
      <4>2. \E g, e, fin : EliminarNodos(tabla[n], disco, ModoTras(hasta), hasta)
                             = [f |-> g, d |-> e, fin |-> fin]
        BY EliminarNodosPartes, ZenonT(60)
      <4> QED
        BY <4>1, <4>2, Zenon
    <3> QED
      BY <3>1, <3>2, Zenon
  <2> HIDE DEF r
  <2> QED
    BY SMTT(60), <2>1
<1> HIDE DEF r
<1>8. MismoNombre(tabla[n], s.f)
  <2>1. CASE r.fin = "ok"
    <3>1. MismoNombre(r.f, [r.f EXCEPT !.tam = tam])
      BY <1>5, NombreConInd
    <3> QED
      BY <1>5, <1>7, <2>1, <3>1, NombreSigue
  <2>2. CASE r.fin # "ok"
    BY <1>5, <2>2
  <2> QED
    BY <2>1, <2>2
<1> HIDE DEF s, n
<1>9. CASE Guarda(n, s) /\ Responde(c, 1) /\ cola' = cola
  <2>1. Mismos(tabla, tabla')
    BY <1>8, <1>9, TablaConNombre DEF Guarda, Antes
  <2>2. hilo[c].paso \notin Quietos
    BY <1>1 DEF Quietos
  <2> QED
    BY <1>9, <2>1, <2>2, ContestaIgual
<1> QED
  BY <1>6, <1>9, CaeIgual

LEMMA CambiarSano ==
    ASSUME NEW c \in Clientes, Antes(c), Cambiar(c), cliente' = cliente
    PROVE  Cumple(c)
<1>1. CASE LeerTam(c)
  <2>1. hilo[c].paso = "leerTam" /\ hilo[c].camino = <<>>
        /\ tabla' = tabla /\ cola' = cola /\ eco' = eco
    BY <1>1 DEF LeerTam, En, varsDisco, varsRed
  <2>2. Deja(c, "escribir", hilo[c].camino, hilo[c].nodo, hilo[c].viejo,
             tabla[hilo[c].nodo].tam, hilo[c].pila)
    BY <1>1, LeerTamDeja DEF Antes, Servidos
  <2>3. hilo[c].pedido.op \in DeQuien("escribir")
    BY <2>1, HiloTipo DEF DeQuien, Antes
  <2>4. hilo[c].paso \in Buscan /\ "escribir" \in Buscan
    BY <2>1 DEF Buscan
  <2> QED
    BY <2>1, <2>2, <2>3, <2>4, TablaIgual, QuedaSano
<1>2. CASE EscribirSinArchivo(c)
  BY <1>2, CaeIgual DEF EscribirSinArchivo
<1>3. CASE Escribir(c)
  <2> DEFINE n == Nodo(c)
             r == Escribe(tabla[n], disco, hilo[c].tam, Pedido(c).off, Pedido(c).n)
  <2>1. hilo[c].paso = "escribir"
    BY <1>3 DEF Escribir, En
  <2>2. n \in Nodos
    BY <2>1, HiloTipo DEF ConEntrada, Nodo, Antes
  <2>3. Pedido(c).off \in Nat /\ Pedido(c).n \in Nat
    <3>1. Pedido(c) \in Peticion /\ Pedido(c).op = "write"
      BY <2>1, PedidoTipo DEF DeQuien, Antes
    <3> QED
      BY <3>1, PeticionCampos
  <2>4. tabla[n] \in Entrada /\ disco \in Disco /\ hilo[c].tam \in Nat
    BY <2>2, HiloTipo DEF Antes, Servidos, Memoria
  <2>5. MismoNombre(tabla[n], r.f)
    BY <2>3, <2>4, NombreEscribe
  <2>6. Cae(r.fin) \/ (Guarda(n, r) /\ Responde(c, 1) /\ cola' = cola)
    BY <1>3 DEF Escribir
  <2> HIDE DEF r, n
  <2>7. CASE Guarda(n, r) /\ Responde(c, 1) /\ cola' = cola
    <3>1. Mismos(tabla, tabla')
      BY <2>5, <2>7, TablaConNombre DEF Guarda, Antes
    <3>2. hilo[c].paso \notin Quietos
      BY <2>1 DEF Quietos
    <3> QED
      BY <2>7, <3>1, <3>2, ContestaIgual
  <2> QED
    BY <2>6, <2>7, CaeIgual
<1>4. CASE NoTrunca(c)
  <2>1. hilo[c].paso \notin Quietos /\ Responde(c, 1) /\ cola' = cola /\ tabla' = tabla
    BY <1>4 DEF NoTrunca, En, varsDisco, Quietos
  <2> QED
    BY <2>1, TablaIgual, ContestaIgual
<1>5. CASE Truncar(c)
  BY <1>5, NombreTruncar
<1> QED
  BY <1>1, <1>2, <1>3, <1>4, <1>5 DEF Cambiar

(* An entry with nothing in it is marked free.                             *)
LEMMA EntradaMuere ==
    ASSUME Memoria, Arbolado(tabla), NEW n \in Vivos(tabla),
           \A m \in Vivos(tabla) : tabla[m].padre # n, NEW u,
           u = [tabla EXCEPT ![n].estado = "borrado"]
    PROVE  Muere(tabla, u, n) /\ Arbolado(u) /\ Obra(ArbolDe(tabla), ArbolDe(u))
<1>1. n \in Nodos
  BY DEF Vivos
<1>2. \A m \in Nodos \ {n} : u[m] = tabla[m]
  BY DEF Memoria
<1>3. u[n].estado = "borrado"
  <2>1. u[n] = [tabla[n] EXCEPT !.estado = "borrado"]
    BY <1>1 DEF Memoria
  <2>2. tabla[n] \in Entrada
    BY <1>1 DEF Memoria
  <2> QED
    BY <2>1, <2>2 DEF Entrada
<1>4. SoloCambia(tabla, u, n)
  BY <1>2 DEF SoloCambia, Iguales
<1>5. Muere(tabla, u, n)
  BY <1>3, <1>4 DEF Muere
<1>6. Arbolado(u) /\ \E r : Quitado(ArbolDe(tabla), ArbolDe(u), r)
  BY <1>5, AlMorir
<1> QED
  BY <1>5, <1>6 DEF Obra

LEMMA QuitarSano ==
    ASSUME NEW c \in Clientes, Antes(c), Quitar(c), cliente' = cliente
    PROVE  Cumple(c)
<1> DEFINE n == Nodo(c)
<1>1. hilo[c].paso = "quitar" /\ hilo[c].camino = <<>> /\ n # NoHay
      /\ Responde(c, 1) /\ cola' = cola
      /\ tabla' = IF TieneHijos(n) THEN tabla ELSE [tabla EXCEPT ![n].estado = "borrado"]
  BY DEF Quitar, En
<1>2. hilo[c].paso \notin Quietos /\ "quitar" \in Buscan /\ DeQuien("quitar") = {"unlink"}
  BY <1>1 DEF Quietos, Buscan, DeQuien
<1>3. /\ n = Baja(tabla, 0, hilo[c].pedido.ruta)
      /\ Prometido(tabla, hilo[c].pedido) /\ hilo[c].pedido.op = "unlink"
  BY <1>1, <1>2, BuscanSon, NodoEs
<1>4. n \in Vivos(tabla)
  BY <1>3 DEF Prometido, Vivos
<1>5. CASE TieneHijos(n)
  BY <1>1, <1>2, <1>5, TablaIgual, ContestaIgual
<1>6. CASE ~TieneHijos(n)
  <2>1. \A m \in Vivos(tabla) : tabla[m].padre # n
    BY <1>6 DEF TieneHijos, Vivos
  <2>2. tabla' = [tabla EXCEPT ![n].estado = "borrado"]
    BY <1>1, <1>6
  <2> HIDE DEF n
  <2>3. Arbolado(tabla') /\ Obra(ArbolDe(tabla), ArbolDe(tabla'))
    BY <1>4, <2>1, <2>2, EntradaMuere DEF Antes, Servidos
  <2> QED
    BY <1>1, <1>2, <2>3, AlContestar DEF Antes, Cumple
<1> QED
  BY <1>5, <1>6

LEMMA DesligarSano ==
    ASSUME NEW c \in Clientes, Antes(c), Desligar(c), cliente' = cliente
    PROVE  Cumple(c)
<1>1. ASSUME NEW paso \in {"borrarBloques", "bajarModo"}, Sigue(c, paso),
             hilo[c].paso \in {"subirModo", "borrarBloques"}, hilo[c].camino = <<>>,
             Mismos(tabla, tabla'), cola' = cola, eco' = eco
      PROVE  Cumple(c)
  <2>1. hilo[c].paso \in Buscan /\ paso \in Buscan
    BY <1>1 DEF Buscan
  <2>2. hilo[c].pedido.op \in DeQuien(paso)
    BY <1>1, HiloTipo DEF DeQuien, Antes
  <2>3. Deja(c, paso, hilo[c].camino, hilo[c].nodo, hilo[c].viejo, hilo[c].tam, hilo[c].pila)
    BY <1>1, SigueDeja DEF Antes, Servidos
  <2> QED
    BY <1>1, <2>1, <2>2, <2>3, QuedaSano
<1>2. CASE SubirModo(c)
  BY <1>1, <1>2, TablaIgual DEF SubirModo, En, varsDisco, varsRed
<1>3. CASE BorrarBloques(c)
  <2> DEFINE n == Nodo(c)
             r == EliminarNodos(tabla[n], disco, modo, 0)
  <2>1. /\ hilo[c].paso = "borrarBloques" /\ hilo[c].camino = <<>>
        /\ Cae(r.fin)
           \/ (Guarda(n, r) /\ Sigue(c, "bajarModo") /\ cola' = cola /\ eco' = eco)
    BY <1>3 DEF BorrarBloques, En, varsRed
  <2>2. n \in Nodos => MismoNombre(tabla[n], r.f)
    <3> HAVE n \in Nodos
    <3>1. tabla[n] \in Entrada
      BY DEF Antes, Servidos, Memoria
    <3> QED
      BY <3>1, NombreEliminarNodos
  <2> HIDE DEF r, n
  <2>3. CASE Guarda(n, r) /\ Sigue(c, "bajarModo") /\ cola' = cola /\ eco' = eco
    <3>1. Mismos(tabla, tabla')
      BY <2>2, <2>3, TablaConNombre DEF Guarda, Antes
    <3> QED
      BY <1>1, <2>1, <2>3, <3>1
  <2> QED
    BY <2>1, <2>3, CaeIgual
<1>4. CASE BorrarFuera(c)
  <2>1. CASE Cae("fuera")
    BY <2>1, CaeIgual
  <2>2. CASE ~Cae("fuera")
    <3>1. /\ hilo[c].paso = "borrarBloques" /\ hilo[c].camino = <<>>
          /\ Sigue(c, "bajarModo") /\ tabla' = tabla /\ cola' = cola /\ eco' = eco
      BY <1>4, <2>2 DEF BorrarFuera, En, varsDisco, varsRed
    <3> QED
      BY <1>1, <3>1, TablaIgual
  <2> QED
    BY <2>1, <2>2
<1>5. CASE BajarModo(c)
  <2>1. /\ hilo[c].paso = "bajarModo" /\ hilo[c].camino = <<>>
        /\ Busca(c, hilo[c].pedido.ruta, "quitar")
        /\ tabla' = tabla /\ cola' = cola /\ eco' = eco
    BY <1>5 DEF BajarModo, En, Pedido, varsDisco, varsRed
  <2>2. hilo[c].paso \in Buscan /\ "quitar" \in Buscan
    BY <2>1 DEF Buscan
  <2>3. hilo[c].pedido.op \in DeQuien("quitar")
    BY <2>1, HiloTipo DEF DeQuien, Antes
  <2> QED
    BY <2>1, <2>2, <2>3, BuscaSano
<1>6. CASE NadaQueQuitar(c)
  <2>1. hilo[c].paso \notin Quietos /\ Responde(c, 1) /\ cola' = cola /\ tabla' = tabla
    BY <1>6 DEF NadaQueQuitar, En, varsDisco, Quietos
  <2> QED
    BY <2>1, TablaIgual, ContestaIgual
<1>7. CASE Quitar(c)
  BY <1>7, QuitarSano
<1> QED
  BY <1>2, <1>3, <1>4, <1>5, <1>6, <1>7 DEF Desligar

LEMMA MoverSano ==
    ASSUME NEW c \in Clientes, Antes(c), Mover(c), cliente' = cliente
    PROVE  Cumple(c)
<1> DEFINE v == hilo[c].viejo
           p == hilo[c].pedido
           w == p.ruta2
           f == [[tabla[v] EXCEPT !.nombre = Last(w)] EXCEPT !.padre = Nodo(c)]
<1>1. /\ hilo[c].paso = "mover" /\ hilo[c].camino = <<>> /\ v # NoHay
      /\ Responde(c, 1) /\ cola' = cola
  BY DEF Mover, En
<1>2. tabla' = [tabla EXCEPT ![v] = f]
  BY DEF Mover, Antes, Servidos, Memoria, Pedido
<1>3. "mover" \notin Quietos \cup EnCarpeta /\ DeQuien("mover") = {"rename"}
  BY DEF Quietos, EnCarpeta, DeQuien
<1>4. /\ Nodo(c) = Baja(tabla, 0, Objetivo("mover", p)) /\ Prometido(tabla, p)
      /\ p \in Legal /\ p.ruta \in Seq(Nombres) /\ p.op = "rename"
  BY <1>1, <1>3, NodoEs
<1>5. v = Baja(tabla, 0, p.ruta)
  BY <1>1, <1>3, Ocupado DEF Antes, Encamina
<1>6. /\ v \in Nodos /\ ~IsPrefix(p.ruta, w)
      /\ Baja(tabla, 0, Front(w)) \in Directorios(tabla) /\ Baja(tabla, 0, w) = NoHay
      /\ Nodo(c) = Baja(tabla, 0, Front(w))
  BY <1>4, <1>5 DEF Prometido, Objetivo
<1>7. w \in Seq(Nombres) /\ w # <<>>
  BY <1>4, PeticionCampos DEF Legal
<1>8. PICK C : Caminos(tabla, C)
  BY DEF Antes, Arbolado
<1>9. v \in Vivos(tabla) /\ p.ruta = C[v]
  BY <1>4, <1>5, <1>6, <1>8, RutaVisible DEF Antes, Arbolado
<1>10. f.estado = tabla[v].estado /\ f.nombre = Last(w) /\ f.padre = Nodo(c)
  <2>1. tabla[v] \in Entrada
    BY <1>6 DEF Antes, Servidos, Memoria
  <2> QED
    BY <2>1 DEF Entrada
<1> HIDE DEF f, v, w
<1>11. \A m \in Nodos : tabla'[m] = IF m = v THEN f ELSE tabla[m]
  BY <1>2 DEF Antes, Servidos, Memoria
<1>12. SoloCambia(tabla, tabla', v)
  BY <1>11 DEF SoloCambia, Iguales
<1>13. Muda(tabla, tabla', v, w)
  BY <1>6, <1>7, <1>9, <1>10, <1>11, <1>12 DEF Muda
<1>14. ~IsPrefix(C[v], w)
  BY <1>6, <1>9
<1>15. Arbolado(tabla') /\ Mudado(ArbolDe(tabla), ArbolDe(tabla'), C[v], w)
  BY <1>8, <1>13, <1>14, AlMudar DEF Antes
<1>16. Obra(ArbolDe(tabla), ArbolDe(tabla'))
  BY <1>15 DEF Obra
<1> QED
  BY <1>1, <1>3, <1>15, <1>16, AlContestar DEF Antes, Cumple

LEMMA RenombrarSano ==
    ASSUME NEW c \in Clientes, Antes(c), Renombrar(c), cliente' = cliente
    PROVE  Cumple(c)
<1>1. CASE SinViejo(c)
  <2>1. hilo[c].paso \notin Quietos /\ Responde(c, 1) /\ cola' = cola /\ tabla' = tabla
    BY <1>1 DEF SinViejo, En, varsDisco, Quietos
  <2> QED
    BY <2>1, TablaIgual, ContestaIgual
<1>2. CASE BuscarViejo(c)
  <2>1. /\ hilo[c].paso = "rename" /\ hilo[c].camino = <<>>
        /\ Busca(c, hilo[c].pedido.ruta, "viejo")
        /\ tabla' = tabla /\ cola' = cola /\ eco' = eco
    BY <1>2 DEF BuscarViejo, En, Pedido, varsDisco, varsRed
  <2>2. hilo[c].paso \in Buscan /\ "viejo" \in Buscan
    BY <2>1 DEF Buscan
  <2>3. hilo[c].pedido.op \in DeQuien("viejo")
    BY <2>1, HiloTipo DEF DeQuien, Antes
  <2> QED
    BY <2>1, <2>2, <2>3, BuscaSano
<1>3. CASE BuscarDestino(c)
  <2> DEFINE p == hilo[c].pedido
             destino == Front(p.ruta2)
  <2>1. /\ hilo[c].paso = "viejo" /\ hilo[c].camino = <<>>
        /\ tabla' = tabla /\ cola' = cola /\ eco' = eco
    BY <1>3 DEF BuscarDestino, En, varsDisco, varsRed
  <2>2. "viejo" \in Buscan /\ DeQuien("viejo") = {"rename"} /\ DeQuien("mover") = {"rename"}
    BY DEF Buscan, DeQuien
  <2>3. /\ Nodo(c) = Baja(tabla, 0, p.ruta) /\ Nodo(c) \in Donde
        /\ p \in Legal /\ p.op = "rename"
    BY <2>1, <2>2, BuscanSon, NodoEs
  <2>4. destino \in Seq(Nombres)
    <3>1. p.ruta2 \in Seq(Nombres) /\ p.ruta2 # <<>>
      BY <2>3, PeticionCampos DEF Legal
    <3> QED
      BY <3>1, FrontTipo
  <2>5. Deja(c, "mover", destino, 0, hilo[c].nodo, hilo[c].tam, hilo[c].pila)
    BY <1>3, BuscarDestinoDeja DEF Antes, Servidos
  <2>6. Objetivo("mover", p) = destino
    BY DEF Objetivo
  <2>7. "mover" \notin Quietos \cup Imposibles \cup EnCarpeta /\ 0 \in Donde
    BY DEF Quietos, Imposibles, EnCarpeta, Donde
  <2> HIDE DEF destino
  <2>8. SanoEn(c)'
    BY <2>1, <2>2, <2>3, <2>4, <2>5, <2>6, <2>7, BuscanSon, TablaIgual, AlPasar
    DEF Antes, Nodo
  <2> QED
    BY <2>1, <2>8, TablaIgual, SinCambio DEF Antes, Cumple
<1>4. CASE Mover(c)
  BY <1>4, MoverSano
<1>5. CASE MoverFuera(c)
  <2>1. CASE Cae("fuera")
    BY <2>1, CaeIgual
  <2>2. CASE ~Cae("fuera")
    <3>1. hilo[c].paso \notin Quietos /\ Responde(c, 1) /\ cola' = cola /\ tabla' = tabla
      BY <1>5, <2>2 DEF MoverFuera, En, varsDisco, Quietos
    <3> QED
      BY <3>1, TablaIgual, ContestaIgual
  <2> QED
    BY <2>1, <2>2
<1> QED
  BY <1>1, <1>2, <1>3, <1>4, <1>5 DEF Renombrar

-----------------------------------------------------------------------------
(* The directories being emptied, from table to table.                     *)
LEMMA AvanzaCampos ==
    ASSUME NEW pila \in Seq(Nivel), pila # <<>>
    PROVE  LET q == [pila EXCEPT ![1].i = pila[1].i + 1]
           IN  /\ q \in Seq(Nivel) /\ q # <<>> /\ Len(q) = Len(pila)
               /\ q[1].dir = pila[1].dir /\ q[1].i = pila[1].i + 1
               /\ \A k \in 2..Len(pila) : q[k] = pila[k]
<1> DEFINE e == [pila[1] EXCEPT !.i = pila[1].i + 1]
           q == [pila EXCEPT ![1].i = pila[1].i + 1]
<1>1. Len(pila) \in Nat \ {0} /\ pila[1] \in Nivel /\ pila[1].i \in Nat \ {0}
      /\ q \in Seq(Nivel) /\ q # <<>>
  BY NivelPila
<1>2. e \in Nivel /\ e.dir = pila[1].dir /\ e.i = pila[1].i + 1
  BY <1>1 DEF Nivel
<1>3. q = [pila EXCEPT ![1] = e]
  OBVIOUS
<1> HIDE DEF e
<1>4. 1 \in 1..Len(pila) /\ \A k \in 2..Len(pila) : k \in 1..Len(pila) /\ k # 1
  BY <1>1
<1>5. Len([pila EXCEPT ![1] = e]) = Len(pila)
      /\ \A k \in 1..Len(pila) : [pila EXCEPT ![1] = e][k] = IF k = 1 THEN e ELSE pila[k]
  BY <1>1, <1>2, ExceptSeq
<1> HIDE DEF q
<1> QED
  BY <1>1, <1>2, <1>3, <1>4, <1>5 DEF q

LEMMA PilaAvanza ==
    ASSUME NEW t, NEW pila \in Seq(Nivel), pila # <<>>, PilaBien(t, pila),
           pila[1].i \in Nodos, ~Adentro(t, pila[1].i, pila[1].dir)
    PROVE  PilaBien(t, [pila EXCEPT ![1].i = pila[1].i + 1])
<1> DEFINE q == [pila EXCEPT ![1].i = pila[1].i + 1]
<1>1. /\ q \in Seq(Nivel) /\ q # <<>> /\ Len(q) = Len(pila)
      /\ q[1].dir = pila[1].dir /\ q[1].i = pila[1].i + 1
      /\ \A k \in 2..Len(pila) : q[k] = pila[k]
  BY AvanzaCampos
<1>2. Len(pila) \in Nat \ {0} /\ pila[1].i \in Nat \ {0}
  BY NivelPila
<1> HIDE DEF q
<1>3. NivelBien(t, q[1])
  <2>1. NivelBien(t, pila[1])
    BY <1>2 DEF PilaBien
  <2>2. pila[1].i + 1 \in 1..Entradas + 1
    BY SacAssumption DEF Nodos
  <2>3. \A j \in Nodos : j < pila[1].i + 1 => j < pila[1].i \/ j = pila[1].i
    BY <1>2 DEF Nodos
  <2>4. \A j \in Nodos : j < pila[1].i + 1 => ~Adentro(t, j, pila[1].dir)
    BY <2>1, <2>3 DEF NivelBien
  <2> QED
    BY <1>1, <2>1, <2>2, <2>4 DEF NivelBien
<1>4. \A k \in 1..Len(q) : NivelBien(t, q[k])
  <2> TAKE k \in 1..Len(q)
  <2>1. k = 1 \/ k \in 2..Len(pila)
    BY <1>1, <1>2
  <2>2. k \in 1..Len(pila)
    BY <1>1
  <2> QED
    BY <1>1, <1>3, <2>1, <2>2 DEF PilaBien
<1>5. \A k \in 1..Len(q) - 1 : Enlaza(t, q[k], q[k + 1])
  <2> TAKE k \in 1..Len(q) - 1
  <2>1. k \in 1..Len(pila) - 1 /\ k + 1 \in 2..Len(pila) /\ (k = 1 \/ k \in 2..Len(pila))
    BY <1>1, <1>2
  <2>2. Enlaza(t, pila[k], pila[k + 1])
    BY <2>1 DEF PilaBien
  <2>3. q[k + 1] = pila[k + 1] /\ q[k].dir = pila[k].dir
    BY <1>1, <2>1
  <2> QED
    BY <2>2, <2>3 DEF Enlaza
<1> QED
  BY <1>4, <1>5 DEF PilaBien, q

LEMMA PilaApila ==
    ASSUME NEW t, NEW pila \in Seq(Nivel), pila # <<>>, PilaBien(t, pila),
           pila[1].i \in Nodos, Adentro(t, pila[1].i, pila[1].dir),
           t[pila[1].i].estado = "directorio"
    PROVE  PilaBien(t, <<[dir |-> pila[1].i, i |-> 1]>> \o pila)
<1> DEFINE e == [dir |-> pila[1].i, i |-> 1]
           q == <<e>> \o pila
<1>1. e \in Nivel /\ e.dir = pila[1].i /\ e.i = 1
  BY DEF Nivel
<1>2. Len(pila) \in Nat \ {0}
  BY NivelPila
<1> HIDE DEF e
<1>3. Len(q) = Len(pila) + 1 /\ q[1] = e /\ \A k \in 2..Len(q) : q[k] = pila[k - 1]
  <2>1. <<e>> \in Seq(Nivel) /\ Len(<<e>>) = 1 /\ <<e>>[1] = e
    BY <1>1
  <2>2. Len(q) = Len(<<e>>) + Len(pila)
        /\ \A i \in 1..Len(<<e>>) + Len(pila) :
              q[i] = IF i <= Len(<<e>>) THEN <<e>>[i] ELSE pila[i - Len(<<e>>)]
    BY <2>1, ConcatProperties
  <2>3. 1 \in 1..1 + Len(pila) /\ 1 <= 1
    BY <1>2
  <2>4. \A k \in 2..Len(pila) + 1 : k \in 1..1 + Len(pila) /\ ~(k <= 1)
    BY <1>2
  <2> HIDE DEF q
  <2>5. Len(q) = Len(pila) + 1
    BY <1>2, <2>1, <2>2
  <2>6. q[1] = e
    BY <2>1, <2>2, <2>3
  <2>7. \A k \in 2..Len(q) : q[k] = pila[k - 1]
    BY <2>1, <2>2, <2>4, <2>5
  <2> QED
    BY <2>5, <2>6, <2>7
<1> HIDE DEF q
<1>4. NivelBien(t, e)
  <2>1. e.dir \in Directorios(t)
    BY <1>1 DEF Directorios
  <2>2. 1 \in 1..Entradas + 1 /\ \A j \in Nodos : ~(j < 1)
    BY SacAssumption DEF Nodos
  <2> QED
    BY <1>1, <2>1, <2>2 DEF NivelBien
<1>5. \A k \in 1..Len(q) : NivelBien(t, q[k])
  <2> TAKE k \in 1..Len(q)
  <2>1. k = 1 \/ (k \in 2..Len(q) /\ k - 1 \in 1..Len(pila))
    BY <1>2, <1>3
  <2> QED
    BY <1>3, <1>4, <2>1 DEF PilaBien
<1>6. \A k \in 1..Len(q) - 1 : Enlaza(t, q[k], q[k + 1])
  <2> TAKE k \in 1..Len(q) - 1
  <2>1. k + 1 \in 2..Len(q) /\ (k + 1) - 1 = k
    BY <1>2, <1>3
  <2>2. q[k + 1] = pila[k]
    BY <1>3, <2>1
  <2>3. CASE k = 1
    BY <1>1, <1>3, <2>2, <2>3 DEF Enlaza
  <2>4. CASE k # 1
    <3>1. k \in 2..Len(q) /\ k - 1 \in 1..Len(pila) - 1 /\ (k - 1) + 1 = k
      BY <1>2, <1>3, <2>4
    <3>2. q[k] = pila[k - 1]
      BY <1>3, <3>1
    <3>3. Enlaza(t, pila[k - 1], pila[(k - 1) + 1])
      BY <3>1 DEF PilaBien
    <3> QED
      BY <2>2, <3>1, <3>2, <3>3
  <2> QED
    BY <2>3, <2>4
<1> QED
  BY <1>5, <1>6 DEF PilaBien, q, e

LEMMA PilaCola ==
    ASSUME NEW t, NEW pila \in Seq(Nivel), pila # <<>>, Len(pila) # 1, PilaBien(t, pila)
    PROVE  /\ Tail(pila) \in Seq(Nivel) /\ Tail(pila) # <<>>
           /\ Len(Tail(pila)) = Len(pila) - 1
           /\ \A k \in 1..Len(Tail(pila)) : Tail(pila)[k] = pila[k + 1]
           /\ Tail(pila)[1] = pila[2] /\ Enlaza(t, pila[1], pila[2])
           /\ PilaBien(t, Tail(pila))
<1> DEFINE q == Tail(pila)
<1>1. Len(pila) \in Nat \ {0}
  BY NivelPila
<1>2. q \in Seq(Nivel) /\ Len(q) = Len(pila) - 1
      /\ \A k \in 1..Len(q) : q[k] = pila[k + 1]
  BY HeadTailProperties
<1> HIDE DEF q
<1>3. Len(q) \in Nat \ {0} /\ 1 \in 1..Len(q) /\ 1 + 1 = 2 /\ 1 \in 1..Len(pila) - 1
  BY <1>1, <1>2
<1>4. q # <<>>
  BY <1>3, EmptySeq
<1>5. q[1] = pila[2] /\ Enlaza(t, pila[1], pila[2])
  BY <1>2, <1>3 DEF PilaBien
<1>6. \A k \in 1..Len(q) : NivelBien(t, q[k])
  <2> TAKE k \in 1..Len(q)
  <2>1. k + 1 \in 1..Len(pila)
    BY <1>1, <1>2
  <2> QED
    BY <1>2, <2>1 DEF PilaBien
<1>7. \A k \in 1..Len(q) - 1 : Enlaza(t, q[k], q[k + 1])
  <2> TAKE k \in 1..Len(q) - 1
  <2>1. k \in 1..Len(q) /\ k + 1 \in 1..Len(q) /\ k + 1 \in 1..Len(pila) - 1
    BY <1>1, <1>2
  <2>2. Enlaza(t, pila[k + 1], pila[(k + 1) + 1])
    BY <2>1 DEF PilaBien
  <2>3. q[k] = pila[k + 1] /\ q[k + 1] = pila[(k + 1) + 1]
    BY <1>2, <2>1
  <2> QED
    BY <2>2, <2>3
<1> QED
  BY <1>2, <1>4, <1>5, <1>6, <1>7 DEF PilaBien, q

(* An entry that is none of those directories is removed.                  *)
LEMMA PilaTrasBorrar ==
    ASSUME NEW t, NEW u, NEW n \in Nodos, SoloCambia(t, u, n), u[n].estado = "borrado",
           NEW pila, PilaBien(t, pila), Len(pila) \in Nat,
           \A k \in 1..Len(pila) : pila[k].dir # n
    PROVE  PilaBien(u, pila)
<1>1. \A m \in Nodos \ {n} : u[m].estado = t[m].estado /\ u[m].padre = t[m].padre
  BY DEF SoloCambia, Iguales
<1>2. \A k \in 1..Len(pila) : NivelBien(u, pila[k])
  <2> TAKE k \in 1..Len(pila)
  <2>1. NivelBien(t, pila[k]) /\ pila[k].dir # n
    BY DEF PilaBien
  <2>2. pila[k].dir \in Directorios(u)
    BY <1>1, <2>1 DEF NivelBien, Directorios
  <2>3. \A j \in Nodos : Adentro(u, j, pila[k].dir) => Adentro(t, j, pila[k].dir)
    BY <1>1 DEF Adentro
  <2> QED
    BY <2>1, <2>2, <2>3 DEF NivelBien
<1>3. \A k \in 1..Len(pila) - 1 : Enlaza(u, pila[k], pila[k + 1])
  <2> TAKE k \in 1..Len(pila) - 1
  <2>1. Enlaza(t, pila[k], pila[k + 1]) /\ pila[k].dir # n
    BY DEF PilaBien
  <2> QED
    BY <1>1, <2>1 DEF Enlaza, Adentro
<1> QED
  BY <1>2, <1>3 DEF PilaBien

-----------------------------------------------------------------------------
(* The actions of a recursive removal.                                     *)
LEMMA MuereObra ==
    ASSUME NEW t, NEW u, NEW n, Arbolado(t), Muere(t, u, n)
    PROVE  Arbolado(u) /\ Obra(ArbolDe(t), ArbolDe(u))
BY AlMorir DEF Obra

LEMMA MismosMismaPila ==
    ASSUME NEW t, NEW u, Mismos(t, u), NEW pila, PilaBien(t, pila), Len(pila) \in Nat
    PROVE  PilaBien(u, pila)
<1>1. Directorios(u) = Directorios(t)
  BY VivosMismos
<1>2. \A j \in Nodos : \A d : Adentro(u, j, d) <=> Adentro(t, j, d)
  BY DEF Mismos, Adentro
<1>3. \A l : NivelBien(t, l) => NivelBien(u, l)
  BY <1>1, <1>2 DEF NivelBien
<1>4. \A a, b : Enlaza(t, a, b) => Enlaza(u, a, b)
  BY <1>2 DEF Enlaza
<1> QED
  BY <1>3, <1>4 DEF PilaBien

LEMMA CarpetaDe ==
    ASSUME NEW c \in Clientes, Antes(c), hilo[c].paso \in EnCarpeta
    PROVE  /\ hilo[c].pila \in Seq(Nivel) /\ hilo[c].pila # <<>>
           /\ Len(hilo[c].pila) \in Nat \ {0}
           /\ PilaBien(tabla, hilo[c].pila)
           /\ hilo[c].camino = <<>> /\ hilo[c].paso \notin Quietos
           /\ hilo[c].pila[1].i \in Nat \ {0}
           /\ NivelBien(tabla, hilo[c].pila[1])
<1> DEFINE h == hilo[c]
<1>1. h.paso \notin Quietos
  BY DEF EnCarpeta, Quietos
<1>2. Encamina(tabla, h) /\ Recorrido(tabla, h)
  BY <1>1, Ocupado DEF Antes
<1>3. h.camino = <<>>
  BY <1>2 DEF Encamina, Buscando
<1>4. h.pila \in Seq(Nivel) /\ h.pila # <<>>
  BY HiloTipo DEF Antes, ConPila, EnCarpeta
<1>5. Len(h.pila) \in Nat \ {0} /\ h.pila[1].i \in Nat \ {0}
  BY <1>4, NivelPila
<1>6. PilaBien(tabla, h.pila)
  BY <1>2 DEF Recorrido
<1>7. 1 \in 1..Len(h.pila)
  BY <1>5
<1> QED
  BY <1>1, <1>3, <1>4, <1>5, <1>6, <1>7 DEF PilaBien

LEMMA ApilaSano ==
    ASSUME NEW c \in Clientes, Antes(c), hilo[c].paso \notin Quietos, hilo[c].camino = <<>>,
           NEW pila, Apila(c, pila, "mirar"), PilaBien(tabla', pila),
           cola' = cola, eco' = eco, cliente' = cliente
    PROVE  SanoEn(c)'
<1>1. Deja(c, "mirar", <<>>, hilo[c].nodo, hilo[c].viejo, hilo[c].tam, pila)
  BY ApilaDeja DEF Antes, Servidos
<1>2. "mirar" \in EnCarpeta
  BY DEF EnCarpeta
<1> QED
  BY <1>1, <1>2, AlRecorrer DEF Antes

LEMMA AvanzaSano ==
    ASSUME NEW c \in Clientes, Antes(c), hilo[c].paso \in EnCarpeta,
           Cima(c).i \in Nodos, ~EsDe(Cima(c).i, Cima(c).dir),
           Apila(c, Avanza(c), "mirar"),
           tabla' = tabla, cola' = cola, eco' = eco, cliente' = cliente
    PROVE  Cumple(c)
<1> DEFINE pila == hilo[c].pila
           q == [pila EXCEPT ![1].i = pila[1].i + 1]
<1>1. /\ pila \in Seq(Nivel) /\ pila # <<>> /\ PilaBien(tabla, pila)
      /\ hilo[c].camino = <<>> /\ hilo[c].paso \notin Quietos
  BY CarpetaDe
<1>2. ~Adentro(tabla, pila[1].i, pila[1].dir) /\ pila[1].i \in Nodos
  BY DEF Adentro, EsDe, Cima
<1>3. PilaBien(tabla, q)
  BY <1>1, <1>2, PilaAvanza
<1>4. Apila(c, q, "mirar")
  BY DEF Avanza
<1> HIDE DEF q
<1>5. SanoEn(c)'
  BY <1>1, <1>3, <1>4, ApilaSano
<1> QED
  BY <1>5, TablaIgual, SinCambio DEF Antes, Cumple

LEMMA MirarArchivoSano ==
    ASSUME NEW c \in Clientes, Antes(c), MirarArchivo(c), cliente' = cliente
    PROVE  Cumple(c)
<1> DEFINE pila == hilo[c].pila
<1>1. /\ hilo[c].paso = "mirar" /\ Sigue(c, "borrarArchivo")
      /\ tabla' = tabla /\ cola' = cola /\ eco' = eco
      /\ tabla[pila[1].i].estado = "ocupado" /\ tabla[pila[1].i].padre = pila[1].dir
  BY DEF MirarArchivo, En, varsDisco, varsRed, EsDe, Cima
<1>2. "mirar" \in EnCarpeta /\ "borrarArchivo" \in EnCarpeta
  BY DEF EnCarpeta
<1>3. PilaBien(tabla, pila) /\ hilo[c].camino = <<>> /\ hilo[c].paso \notin Quietos
  BY <1>1, <1>2, CarpetaDe
<1>4. Deja(c, "borrarArchivo", <<>>, hilo[c].nodo, hilo[c].viejo, hilo[c].tam, pila)
  BY <1>1, <1>3, SigueDeja DEF Antes, Servidos
<1> HIDE DEF pila
<1>5. SanoEn(c)'
  BY <1>1, <1>2, <1>3, <1>4, AlRecorrer DEF Antes
<1> QED
  BY <1>1, <1>5, TablaIgual, SinCambio DEF Antes, Cumple

(* The entry of a file of the directory at the top is gone.                *)
LEMMA ArchivoBorrado ==
    ASSUME NEW c \in Clientes, Antes(c), hilo[c].paso = "borrarArchivo",
           SoloCambia(tabla, tabla', Cima(c).i), tabla'[Cima(c).i].estado = "borrado",
           Sigue(c, "revisar"), cola' = cola, eco' = eco, cliente' = cliente
    PROVE  Cumple(c)
<1> DEFINE pila == hilo[c].pila
           n == pila[1].i
<1>1. "borrarArchivo" \in EnCarpeta /\ "revisar" \in EnCarpeta
  BY DEF EnCarpeta
<1>2. /\ pila \in Seq(Nivel) /\ pila # <<>> /\ Len(pila) \in Nat \ {0}
      /\ PilaBien(tabla, pila) /\ hilo[c].camino = <<>> /\ hilo[c].paso \notin Quietos
  BY <1>1, CarpetaDe
<1>3. n \in Nodos
  BY HiloTipo DEF Antes, ConPila
<1>4. tabla[n].estado = "ocupado"
  BY <1>1, <1>2, Ocupado DEF Antes, Recorrido
<1>5. n \in Vivos(tabla) /\ n \notin Directorios(tabla)
  BY <1>3, <1>4 DEF Vivos, Directorios, Nodos
<1>6. \A m \in Vivos(tabla) : tabla[m].padre # n
  BY <1>5 DEF Antes, Arbolado, Colgados
<1>7. Muere(tabla, tabla', n)
  BY <1>5, <1>6 DEF Muere, Cima
<1>8. Arbolado(tabla') /\ Obra(ArbolDe(tabla), ArbolDe(tabla'))
  BY <1>7, MuereObra DEF Antes
<1>9. \A k \in 1..Len(pila) : pila[k].dir # n
  BY <1>2, <1>5 DEF PilaBien, NivelBien
<1>10. PilaBien(tabla', pila)
  BY <1>2, <1>3, <1>9, PilaTrasBorrar DEF Cima
<1>11. Deja(c, "revisar", <<>>, hilo[c].nodo, hilo[c].viejo, hilo[c].tam, pila)
  BY <1>2, SigueDeja DEF Antes, Servidos
<1>12. tabla'[pila[1].i].estado = "borrado"
  BY DEF Cima
<1> HIDE DEF pila
<1>13. SanoEn(c)'
  BY <1>1, <1>2, <1>10, <1>11, <1>12, AlRecorrer DEF Antes
<1> QED
  BY <1>8, <1>13 DEF Cumple

LEMMA BorrarArchivoSano ==
    ASSUME NEW c \in Clientes, Antes(c), BorrarArchivo(c), cliente' = cliente
    PROVE  Cumple(c)
<1> DEFINE i == Cima(c).i
           r == EliminarNodos(tabla[i - 1], disco, modo, 0)
           t == [tabla EXCEPT ![i - 1] = r.f]
<1>1. hilo[c].paso = "borrarArchivo" /\ i > 1
  BY DEF BorrarArchivo, En
<1>2. i \in Nodos
  BY <1>1, HiloTipo DEF Antes, ConPila, Cima
<1>3. i - 1 \in Nodos /\ i - 1 # i
  <2> HIDE DEF i
  <2> QED
    BY <1>1, <1>2, SacAssumption DEF Nodos
<1>4. tabla[i - 1] \in Entrada /\ tabla[i] \in Entrada
  BY <1>2, <1>3 DEF Antes, Servidos, Memoria
<1>5. MismoNombre(tabla[i - 1], r.f)
  BY <1>4, NombreEliminarNodos
<1>6. \/ Cae(r.fin)
      \/ /\ tabla' = [t EXCEPT ![i].estado = "borrado"]
         /\ Sigue(c, "revisar") /\ cola' = cola /\ eco' = eco
  BY DEF BorrarArchivo, varsRed
<1> HIDE DEF r, i
<1>7. CASE /\ tabla' = [t EXCEPT ![i].estado = "borrado"]
           /\ Sigue(c, "revisar") /\ cola' = cola /\ eco' = eco
  <2>1. \A m \in Nodos : t[m] = IF m = i - 1 THEN r.f ELSE tabla[m]
    BY DEF Antes, Servidos, Memoria
  <2>2. DOMAIN t = Nodos
    BY DEF Antes, Servidos, Memoria
  <2>3. t[i] = tabla[i]
    BY <1>2, <1>3, <2>1
  <2> HIDE DEF t
  <2>4. \A m \in Nodos : tabla'[m] = IF m = i THEN [t[i] EXCEPT !.estado = "borrado"] ELSE t[m]
    BY <1>7, <2>2
  <2>5. tabla'[i].estado = "borrado"
    BY <1>2, <1>4, <2>3, <2>4 DEF Entrada
  <2>6. \A m \in Nodos \ {i} : Iguales(tabla, tabla', m)
    BY <1>5, <2>1, <2>4 DEF Iguales, MismoNombre
  <2>7. SoloCambia(tabla, tabla', i)
    BY <2>6 DEF SoloCambia
  <2> QED
    BY <1>1, <1>7, <2>5, <2>7, ArchivoBorrado DEF i
<1> QED
  BY <1>6, <1>7, CaeIgual

LEMMA BorrarPrimeroSano ==
    ASSUME NEW c \in Clientes, Antes(c), BorrarPrimero(c), cliente' = cliente
    PROVE  Cumple(c)
<1>1. CASE Cae("fuera")
  BY <1>1, CaeIgual
<1>2. CASE ~Cae("fuera")
  <2>1. /\ hilo[c].paso = "borrarArchivo" /\ Cima(c).i = 1
        /\ tabla' = [tabla EXCEPT ![1].estado = "borrado"]
        /\ Sigue(c, "revisar") /\ cola' = cola /\ eco' = eco
    BY <1>2 DEF BorrarPrimero, En, varsRed
  <2>2. 1 \in Nodos
    BY SacAssumption DEF Nodos
  <2>3. tabla[1] \in Entrada
    BY <2>2 DEF Antes, Servidos, Memoria
  <2>4. tabla'[1].estado = "borrado"
    <3>1. tabla'[1] = [tabla[1] EXCEPT !.estado = "borrado"]
      BY <2>1, <2>2 DEF Antes, Servidos, Memoria
    <3> QED
      BY <2>3, <3>1 DEF Entrada
  <2>5. \A m \in Nodos \ {1} : tabla'[m] = tabla[m]
    BY <2>1 DEF Antes, Servidos, Memoria
  <2>6. SoloCambia(tabla, tabla', 1)
    BY <2>5 DEF SoloCambia, Iguales
  <2> QED
    BY <2>1, <2>4, <2>6, ArchivoBorrado
<1> QED
  BY <1>1, <1>2

LEMMA MirarDirectorioSano ==
    ASSUME NEW c \in Clientes, Antes(c), MirarDirectorio(c), cliente' = cliente
    PROVE  Cumple(c)
<1> DEFINE pila == hilo[c].pila
           q == <<[dir |-> pila[1].i, i |-> 1]>> \o pila
<1>1. /\ hilo[c].paso \in {"mirar", "revisar"}
      /\ hilo[c].paso = "revisar" \/ (pila[1].i \in Nodos /\ EsDe(pila[1].i, pila[1].dir))
      /\ tabla[pila[1].i].estado = "directorio"
      /\ Apila(c, q, "mirar") /\ tabla' = tabla /\ cola' = cola /\ eco' = eco
  BY DEF MirarDirectorio, En, Cima, varsDisco, varsRed
<1>2. hilo[c].paso \in EnCarpeta
  BY <1>1 DEF EnCarpeta
<1>3. /\ pila \in Seq(Nivel) /\ pila # <<>> /\ PilaBien(tabla, pila)
      /\ hilo[c].camino = <<>> /\ hilo[c].paso \notin Quietos
  BY <1>2, CarpetaDe
<1>4. hilo[c].paso # "revisar"
  <2>1. hilo[c].paso = "revisar" => tabla[pila[1].i].estado = "borrado"
    BY <1>2, <1>3, Ocupado DEF Antes, Recorrido
  <2> QED
    BY <1>1, <2>1
<1>5. pila[1].i \in Nodos /\ Adentro(tabla, pila[1].i, pila[1].dir)
  BY <1>1, <1>4 DEF EsDe, Adentro
<1>6. PilaBien(tabla, q)
  BY <1>1, <1>3, <1>5, PilaApila
<1> HIDE DEF q
<1>7. SanoEn(c)'
  BY <1>1, <1>3, <1>6, ApilaSano
<1> QED
  BY <1>1, <1>7, TablaIgual, SinCambio DEF Antes, Cumple

(* A directory that was gone through has nothing in it, and is not any of  *)
(* those it is in: each of them has the next one.                          *)
LEMMA CerrarSano ==
    ASSUME NEW c \in Clientes, Antes(c), CerrarDirectorio(c), cliente' = cliente
    PROVE  Cumple(c)
<1> DEFINE pila == hilo[c].pila
           n == pila[1].dir
           q == Tail(pila)
           nueva == [q EXCEPT ![1].i = q[1].i + 1]
<1>1. /\ hilo[c].paso = "mirar" /\ pila[1].i \notin Nodos /\ cola' = cola
      /\ tabla' = [tabla EXCEPT ![n].estado = "borrado"]
      /\ IF Len(pila) = 1 THEN Responde(c, 1) ELSE Apila(c, nueva, "mirar") /\ eco' = eco
  BY DEF CerrarDirectorio, En, Cima
<1>2. "mirar" \in EnCarpeta
  BY DEF EnCarpeta
<1>3. /\ pila \in Seq(Nivel) /\ pila # <<>> /\ Len(pila) \in Nat \ {0}
      /\ PilaBien(tabla, pila) /\ NivelBien(tabla, pila[1])
      /\ hilo[c].camino = <<>> /\ hilo[c].paso \notin Quietos
  BY <1>1, <1>2, CarpetaDe
<1>4. n \in Directorios(tabla) /\ \A j \in Nodos : ~Adentro(tabla, j, n)
  <2>1. pila[1].i \in 1..Entradas + 1 /\ n \in Directorios(tabla)
        /\ \A j \in Nodos : j < pila[1].i => ~Adentro(tabla, j, n)
    BY <1>3 DEF NivelBien
  <2>2. \A j \in Nodos : j < pila[1].i
    BY SMTT(60), <1>1, <2>1, SacAssumption DEF Nodos
  <2> QED
    BY <2>1, <2>2
<1>5. CASE Len(pila) = 1
  <2>1. CASE n = 0
    <3>1. 0 \notin Nodos
      BY DEF Nodos
    <3>2. \A m \in Nodos : tabla'[m] = tabla[m]
      BY <1>1, <2>1, <3>1 DEF Antes, Servidos, Memoria
    <3>3. Mismos(tabla, tabla')
      BY <3>2 DEF Mismos
    <3> QED
      BY <1>1, <1>3, <1>5, <3>3, ContestaIgual
  <2>2. CASE n # 0
    <3>1. n \in Vivos(tabla)
      BY <1>4, <2>2 DEF Directorios, Vivos
    <3>2. \A m \in Vivos(tabla) : tabla[m].padre # n
      BY <1>4 DEF Vivos, Adentro
    <3>3. tabla' = [tabla EXCEPT ![n].estado = "borrado"]
      BY <1>1
    <3> HIDE DEF n
    <3>4. Arbolado(tabla') /\ Obra(ArbolDe(tabla), ArbolDe(tabla'))
      BY <3>1, <3>2, <3>3, EntradaMuere DEF Antes, Servidos
    <3> QED
      BY <1>1, <1>3, <1>5, <3>4, AlContestar DEF Antes, Cumple
  <2> QED
    BY <2>1, <2>2
<1>6. CASE Len(pila) # 1
  <2>1. /\ q \in Seq(Nivel) /\ q # <<>> /\ Len(q) = Len(pila) - 1
        /\ \A k \in 1..Len(q) : q[k] = pila[k + 1]
        /\ q[1] = pila[2] /\ Enlaza(tabla, pila[1], pila[2])
        /\ PilaBien(tabla, q)
    BY <1>3, <1>6, PilaCola
  <2>2. q[1].i = n /\ n \in Nodos
    BY <2>1 DEF Enlaza
  <2>3. \A k \in 1..Len(q) : q[k].dir # n
    <3> TAKE k \in 1..Len(q)
    <3>1. k \in 1..Len(pila) - 1
      BY <1>3, <2>1
    <3>2. Enlaza(tabla, pila[k], pila[k + 1]) /\ q[k] = pila[k + 1]
      BY <1>3, <2>1, <3>1 DEF PilaBien
    <3>3. q[k].i \in Nodos /\ Adentro(tabla, q[k].i, q[k].dir)
      BY <3>2 DEF Enlaza
    <3> QED
      BY <1>4, <3>3
  <2>4. n \in Vivos(tabla)
    BY <1>4, <2>2 DEF Directorios, Vivos, Nodos
  <2>5. \A m \in Vivos(tabla) : tabla[m].padre # n
    BY <1>4 DEF Vivos, Adentro
  <2>6. tabla' = [tabla EXCEPT ![n].estado = "borrado"] /\ Apila(c, nueva, "mirar")
        /\ eco' = eco
    BY <1>1, <1>6
  <2>7. Len(q) \in Nat
    BY <1>3, <2>1
  <2> HIDE DEF q, n
  <2>8. Muere(tabla, tabla', n) /\ Arbolado(tabla') /\ Obra(ArbolDe(tabla), ArbolDe(tabla'))
    BY <2>4, <2>5, <2>6, EntradaMuere DEF Antes, Servidos
  <2>9. PilaBien(tabla', q)
    BY <2>1, <2>2, <2>3, <2>7, <2>8, PilaTrasBorrar DEF Muere
  <2>10. ~Adentro(tabla', q[1].i, q[1].dir) /\ q[1].i \in Nodos
    BY <2>2, <2>8 DEF Muere, Adentro
  <2>11. PilaBien(tabla', nueva)
    BY <2>1, <2>9, <2>10, PilaAvanza
  <2> HIDE DEF nueva
  <2>12. SanoEn(c)'
    BY <1>1, <1>3, <2>6, <2>11, ApilaSano
  <2> QED
    BY <2>8, <2>12 DEF Cumple
<1> QED
  BY <1>5, <1>6

LEMMA BorrarCarpetaSano ==
    ASSUME NEW c \in Clientes, Antes(c), BorrarCarpeta(c), cliente' = cliente
    PROVE  Cumple(c)
<1>1. CASE SinCarpeta(c)
  <2>1. hilo[c].paso \notin Quietos /\ Responde(c, 1) /\ cola' = cola /\ tabla' = tabla
    BY <1>1 DEF SinCarpeta, En, varsDisco, Quietos
  <2> QED
    BY <2>1, TablaIgual, ContestaIgual
<1>2. CASE Vaciar(c)
  <2> DEFINE n == Nodo(c)
             l == [dir |-> n, i |-> 1]
             q == <<l>>
  <2>1. hilo[c].paso = "rmdir" /\ hilo[c].camino = <<>> /\ Apila(c, q, "mirar")
        /\ tabla' = tabla /\ cola' = cola /\ eco' = eco
    BY <1>2 DEF Vaciar, En, varsDisco, varsRed
  <2>2. "rmdir" \in Buscan /\ DeQuien("rmdir") = {"rmdir"} /\ "rmdir" \notin Quietos
    BY DEF Buscan, DeQuien, Quietos
  <2>3. n = Baja(tabla, 0, hilo[c].pedido.ruta) /\ Prometido(tabla, hilo[c].pedido)
        /\ hilo[c].pedido.op = "rmdir"
    BY <2>1, <2>2, BuscanSon, NodoEs
  <2>4. n \in Directorios(tabla)
    BY <2>3 DEF Prometido
  <2> HIDE DEF n
  <2>5. NivelBien(tabla, l)
    <3>1. 1 \in 1..Entradas + 1 /\ \A j \in Nodos : ~(j < 1)
      BY SacAssumption DEF Nodos
    <3> QED
      BY <2>4, <3>1 DEF NivelBien
  <2> HIDE DEF l
  <2>6. Len(q) = 1 /\ q[1] = l
    OBVIOUS
  <2> HIDE DEF q
  <2>7. PilaBien(tabla, q)
    BY <2>5, <2>6 DEF PilaBien
  <2>8. SanoEn(c)'
    BY <2>1, <2>2, <2>7, ApilaSano
  <2> QED
    BY <2>1, <2>8, TablaIgual, SinCambio DEF Antes, Cumple
<1>3. CASE Saltear(c)
  <2>1. /\ hilo[c].paso \in EnCarpeta /\ Cima(c).i \in Nodos /\ ~EsDe(Cima(c).i, Cima(c).dir)
        /\ Apila(c, Avanza(c), "mirar") /\ tabla' = tabla /\ cola' = cola /\ eco' = eco
    BY <1>3 DEF Saltear, En, varsDisco, varsRed, EnCarpeta
  <2> QED
    BY <2>1, AvanzaSano
<1>4. CASE MirarArchivo(c)
  BY <1>4, MirarArchivoSano
<1>5. CASE BorrarArchivo(c)
  BY <1>5, BorrarArchivoSano
<1>6. CASE BorrarPrimero(c)
  BY <1>6, BorrarPrimeroSano
<1>7. CASE Revisar(c)
  <2>1. /\ hilo[c].paso = "revisar"
        /\ Apila(c, Avanza(c), "mirar") /\ tabla' = tabla /\ cola' = cola /\ eco' = eco
    BY <1>7 DEF Revisar, En, varsDisco, varsRed
  <2>2. "revisar" \in EnCarpeta /\ "revisar" \notin Quietos
    BY DEF EnCarpeta, Quietos
  <2>3. tabla[Cima(c).i].estado = "borrado"
    BY <2>1, <2>2, Ocupado DEF Antes, Recorrido, Cima
  <2>4. Cima(c).i \in Nodos
    BY <2>1, HiloTipo DEF Antes, ConPila, Cima
  <2>5. ~EsDe(Cima(c).i, Cima(c).dir)
    BY <2>3 DEF EsDe
  <2> QED
    BY <2>1, <2>2, <2>4, <2>5, AvanzaSano
<1>8. CASE MirarDirectorio(c)
  BY <1>8, MirarDirectorioSano
<1>9. CASE CerrarDirectorio(c)
  BY <1>9, CerrarSano
<1> QED
  BY <1>1, <1>2, <1>3, <1>4, <1>5, <1>6, <1>7, <1>8, <1>9 DEF BorrarCarpeta

-----------------------------------------------------------------------------
(* The server and its client.                                              *)
LEMMA ServidorSano ==
    ASSUME NEW c \in Clientes, Antes(c), Servidor(c), cliente' = cliente
    PROVE  Cumple(c)
BY TomarSano, BajarSano, CrearSano, ConsultarSano, CambiarSano, DesligarSano, RenombrarSano,
   BorrarCarpetaSano DEF Servidor

(* What the kernel looks at before a request is what it promises.          *)
LEMMA TipoDice ==
    ASSUME NEW n \in Donde
    PROVE  /\ Tipo(n) = "ocupado" => n = 0 \/ (n \in Nodos /\ tabla[n].estado = "ocupado")
           /\ Tipo(n) = "directorio" => n \in Directorios(tabla)
           /\ Tipo(0) = "directorio"
BY DEF Tipo, Donde, Directorios, NoHay

LEMMA PuedePrometido ==
    ASSUME Arbolado(tabla), NEW p \in Legal, Puede(p), "reemplaza" \notin Raras
    PROVE  Prometido(tabla, p)
<1> DEFINE n == Baja(tabla, 0, p.ruta)
<1>1. p \in Peticion /\ p.ruta \in Seq(Nombres) /\ 0 \in Donde
  BY PeticionCampos DEF Legal, Donde
<1>2. n \in Donde /\ Resuelve(p.ruta) = n
  BY <1>1, BajaTipo, ResuelveEsBaja
<1>3. Tipo(0) # "ocupado"
  BY DEF Tipo
<1>4. p.op \in {"create", "mkdir"} =>
        n = NoHay /\ Baja(tabla, 0, Front(p.ruta)) \in Directorios(tabla)
  <2> HAVE p.op \in {"create", "mkdir"}
  <2>1. Resuelve(p.ruta) = NoHay /\ Tipo(Resuelve(Front(p.ruta))) = "directorio"
    BY DEF Puede
  <2>2. Front(p.ruta) \in Seq(Nombres)
    <3>1. p.ruta # <<>>
      BY DEF Legal
    <3> QED
      BY <1>1, <3>1, FrontTipo
  <2>3. Baja(tabla, 0, Front(p.ruta)) \in Donde
        /\ Resuelve(Front(p.ruta)) = Baja(tabla, 0, Front(p.ruta))
    BY <1>1, <2>2, BajaTipo, ResuelveEsBaja
  <2> QED
    BY <1>2, <2>1, <2>3, TipoDice
<1>5. p.op \in {"read", "unlink", "truncate", "write"} =>
        n \in Nodos /\ tabla[n].estado = "ocupado"
  <2> HAVE p.op \in {"read", "unlink", "truncate", "write"}
  <2>1. Tipo(Resuelve(p.ruta)) = "ocupado"
    BY DEF Puede
  <2> QED
    BY <1>2, <1>3, <2>1, TipoDice
<1>6. p.op \in {"rmdir", "readdir"} => n \in Directorios(tabla)
  <2> HAVE p.op \in {"rmdir", "readdir"}
  <2>1. Tipo(Resuelve(p.ruta)) = "directorio"
    BY DEF Puede
  <2> QED
    BY <1>2, <2>1, TipoDice
<1>7. p.op = "rename" =>
        /\ n \in Nodos
        /\ Baja(tabla, 0, Front(p.ruta2)) \in Directorios(tabla)
        /\ ~IsPrefix(p.ruta, p.ruta2)
        /\ Baja(tabla, 0, p.ruta2) = NoHay
  <2> HAVE p.op = "rename"
  <2>1. /\ Resuelve(p.ruta) # NoHay /\ Tipo(Resuelve(Front(p.ruta2))) = "directorio"
        /\ ~IsPrefix(p.ruta, p.ruta2) /\ ~Rara(p, Resuelve(p.ruta))
    BY DEF Puede
  <2>2. Resuelve(p.ruta2) = NoHay
    BY <2>1 DEF Rara
  <2>3. p.ruta2 \in Seq(Nombres) /\ p.ruta2 # <<>> /\ p.ruta # <<>>
    BY <1>1, PeticionCampos DEF Legal
  <2>4. Front(p.ruta2) \in Seq(Nombres)
    BY <2>3, FrontTipo
  <2>5. Baja(tabla, 0, Front(p.ruta2)) \in Donde
        /\ Resuelve(Front(p.ruta2)) = Baja(tabla, 0, Front(p.ruta2))
    BY <1>1, <2>4, BajaTipo, ResuelveEsBaja
  <2>6. Baja(tabla, 0, p.ruta2) = NoHay
    BY <2>2, ResuelveEsBaja
  <2>7. n # 0
    <3>1. PICK C : Caminos(tabla, C)
      BY DEF Arbolado
    <3> QED
      BY <1>1, <2>3, <3>1, RutaVisible DEF Arbolado
  <2>8. n \in Nodos
    BY <1>2, <2>1, <2>7 DEF Donde
  <2> QED
    BY <2>1, <2>5, <2>6, <2>8, TipoDice
<1> QED
  BY <1>4, <1>5, <1>6, <1>7 DEF Prometido

LEMMA ClienteSano ==
    ASSUME TiposSac, NEW c \in Clientes, Arbolado(tabla), SanoEn(c), "reemplaza" \notin Raras,
           Cliente(c)
    PROVE  Cumple(c)
<1> DEFINE h == hilo[c]
<1>1. Turno(cliente[c], cola[c], eco[c], h) /\ Promesa(tabla, cola[c], h)
      /\ Encamina(tabla, h) /\ Recorrido(tabla, h)
  BY DEF SanoEn, Sano
<1>2. Servidos
  BY DEF TiposSac
<1>3. CASE Pide(c)
  <2>1. PICK p \in Pedidos[c] : Puede(p) /\ cola' = [cola EXCEPT ![c] = Append(@, p)]
    BY <1>3 DEF Pide
  <2>2. p \in Legal
    BY <2>1, PuedeLegal, PedidosAssumption
  <2>3. Prometido(tabla, p)
    BY <2>1, <2>2, PuedePrometido
  <2>4. /\ cliente[c] = "libre" /\ cliente' = [cliente EXCEPT ![c] = "espera"]
        /\ tabla' = tabla /\ hilo' = hilo /\ eco' = eco
    BY <1>3 DEF Pide, varsDisco
  <2>5. cola[c] = <<>> /\ eco[c] = 0 /\ h.paso = "libre"
    BY <1>1, <2>4 DEF Turno
  <2>6. cola'[c] = Append(<<>>, p)
    BY <1>2, <2>1, <2>5 DEF Servidos, Red
  <2> DEFINE q == Append(<<>>, p)
  <2>7. Len(q) = 1 /\ q[1] = p
    <3>1. <<>> \in Seq(Legal) /\ Len(<<>>) = 0 /\ 0 + 1 = 1
      BY EmptySeq
    <3> QED
      BY <2>2, <3>1, AppendProperties
  <2> HIDE DEF q
  <2>8. Turno("espera", q, 0, h)
    BY <2>5, <2>7 DEF Turno
  <2>9. Promesa(tabla, q, h)
    BY <1>1, <2>3, <2>7 DEF Promesa
  <2>10. Sano(tabla, "espera", q, 0, h)
    BY <1>1, <2>8, <2>9 DEF Sano
  <2>11. cliente'[c] = "espera"
    BY <2>4 DEF TiposSac, ClientesBien
  <2>12. SanoEn(c)'
    BY <2>4, <2>5, <2>6, <2>10, <2>11 DEF SanoEn, q
  <2> QED
    BY <2>4, <2>12, TablaIgual, SinCambio DEF Cumple
<1>4. CASE Lee(c)
  <2>1. /\ cliente[c] = "espera" /\ eco[c] > 0 /\ cliente' = [cliente EXCEPT ![c] = "libre"]
        /\ eco' = [eco EXCEPT ![c] = @ - 1]
        /\ tabla' = tabla /\ hilo' = hilo /\ cola' = cola
    BY <1>4 DEF Lee, varsDisco
  <2>2. cola[c] = <<>> /\ eco[c] = 1 /\ h.paso = "libre"
    BY <1>1, <2>1 DEF Turno
  <2>3. eco'[c] = 0 /\ cliente'[c] = "libre"
    BY <1>2, <2>1, <2>2 DEF Servidos, Red, TiposSac, ClientesBien
  <2>4. Turno("libre", <<>>, 0, h)
    BY <2>2 DEF Turno
  <2>5. Sano(tabla, "libre", <<>>, 0, h)
    BY <1>1, <2>2, <2>4 DEF Sano
  <2>6. SanoEn(c)'
    BY <2>1, <2>2, <2>3, <2>5 DEF SanoEn
  <2> QED
    BY <2>1, <2>6, TablaIgual, SinCambio DEF Cumple
<1>5. CASE Desmonta(c)
  <2>1. /\ cliente[c] = "libre" /\ cliente' = [cliente EXCEPT ![c] = "fin"]
        /\ eco' = eco /\ tabla' = tabla /\ hilo' = hilo /\ cola' = cola
    BY <1>5 DEF Desmonta, vars
  <2>2. cola[c] = <<>> /\ eco[c] = 0 /\ h.paso = "libre"
    BY <1>1, <2>1 DEF Turno
  <2>3. cliente'[c] = "fin"
    BY <2>1 DEF TiposSac, ClientesBien
  <2>4. Turno("fin", <<>>, 0, h)
    BY <2>2 DEF Turno, Quietos
  <2>5. Sano(tabla, "fin", <<>>, 0, h)
    BY <1>1, <2>2, <2>4 DEF Sano
  <2>6. SanoEn(c)'
    BY <2>1, <2>2, <2>3, <2>5 DEF SanoEn
  <2> QED
    BY <2>1, <2>6, TablaIgual, SinCambio DEF Cumple
<1>6. CASE Cierra(c)
  <2>1. /\ cliente[c] = "fin" /\ h.paso = "libre" /\ Sigue(c, "fin") /\ cliente' = cliente
        /\ eco' = eco /\ tabla' = tabla /\ cola' = cola
    BY <1>6 DEF Cierra, Sigue, varsDisco, varsRed
  <2>2. Deja(c, "fin", h.camino, h.nodo, h.viejo, h.tam, h.pila)
    BY <1>2, <2>1, SigueDeja DEF Servidos
  <2>3. PICK g : hilo' = [hilo EXCEPT ![c] = g] /\ g.paso = "fin" /\ g.camino = h.camino
    BY <2>2 DEF Deja
  <2>4. hilo'[c] = g
    BY <1>2, <2>3 DEF Servidos, Hilos
  <2>5. h.camino = <<>>
    BY <1>1, <2>1 DEF Encamina, Buscando, Quietos
  <2>6. cola[c] = <<>> /\ eco[c] = 0
    BY <1>1, <2>1 DEF Turno
  <2>7. Turno("fin", <<>>, 0, g)
    BY <2>3 DEF Turno, Quietos
  <2>8. Promesa(tabla, <<>>, g)
    BY <2>3, ColaVacia DEF Quietos
  <2>9. Encamina(tabla, g)
    BY <2>3, <2>5 DEF Encamina, Buscando, Quietos
  <2>10. Recorrido(tabla, g)
    BY <2>3 DEF Recorrido, EnCarpeta
  <2>11. Sano(tabla, "fin", <<>>, 0, g)
    BY <2>7, <2>8, <2>9, <2>10 DEF Sano
  <2>12. SanoEn(c)'
    BY <2>1, <2>4, <2>6, <2>11 DEF SanoEn
  <2> QED
    BY <2>1, <2>12, TablaIgual, SinCambio DEF Cumple
<1> QED
  BY <1>3, <1>4, <1>5, <1>6 DEF Cliente

-----------------------------------------------------------------------------
(* The theorems, for one client that renames onto no existing path.        *)
UnCliente == (\A c, d \in Clientes : c = d) /\ "reemplaza" \notin Raras

LEMMA NombradosPaso ==
    ASSUME UnCliente, TiposSac, Nombrados, [NextSistema]_varsSistema
    PROVE  Nombrados' /\ Obra(ArbolDe(tabla), ArbolDe(tabla'))
<1>1. ASSUME NEW c \in Clientes, Cumple(c)
      PROVE  Nombrados' /\ Obra(ArbolDe(tabla), ArbolDe(tabla'))
  <2>1. Arbolado(tabla') /\ SanoEn(c)' /\ Obra(ArbolDe(tabla), ArbolDe(tabla'))
    BY <1>1 DEF Cumple
  <2>2. \A d \in Clientes : d = c
    BY DEF UnCliente
  <2>3. \A d \in Clientes : SanoEn(d)'
    BY <2>1, <2>2
  <2> QED
    BY <2>1, <2>3 DEF Nombrados
<1>2. CASE NextSistema
  <2>1. PICK c \in Clientes : Cliente(c) \/ (Servidor(c) /\ cliente' = cliente)
    BY <1>2 DEF NextSistema
  <2>2. Antes(c)
    BY DEF Antes, TiposSac, Nombrados
  <2>3. Cumple(c)
    BY <2>1, <2>2, ServidorSano, ClienteSano DEF Antes, UnCliente
  <2> QED
    BY <1>1, <2>3
<1>3. CASE UNCHANGED varsSistema
  <2>1. /\ tabla' = tabla /\ hilo' = hilo /\ cola' = cola /\ eco' = eco /\ cliente' = cliente
    BY <1>3 DEF varsSistema, vars
  <2>2. \A c \in Clientes : SanoEn(c)'
    BY <2>1 DEF Nombrados, SanoEn
  <2>3. Arbolado(tabla') /\ Obra(ArbolDe(tabla), ArbolDe(tabla'))
    BY <2>1, TablaIgual, SinCambio DEF Nombrados
  <2> QED
    BY <2>2, <2>3 DEF Nombrados
<1> QED
  BY <1>2, <1>3

LEMMA NombradosInit == InitSistema => Nombrados /\ ArbolDe(tabla) = <<>>
<1> SUFFICES ASSUME InitSistema PROVE Nombrados /\ ArbolDe(tabla) = <<>>
  OBVIOUS
<1>1. tabla = [n \in Nodos |-> Vacia] /\ Vacia.estado = "borrado"
  BY DEF InitSistema, Init, Vacia
<1>2. Vivos(tabla) = {}
  BY <1>1 DEF Vivos
<1>3. Colgados(tabla) /\ Distintos(tabla)
  BY <1>2 DEF Colgados, Distintos
<1>4. PICK C : Caminos(tabla, C)
  <2> DEFINE C == [n \in Vivos(tabla) |-> <<>>]
  <2>1. C \in [Vivos(tabla) -> Seq(Nombres)]
    BY <1>2
  <2>2. Caminos(tabla, C)
    BY <1>2, <2>1 DEF Caminos
  <2> QED
    BY <2>2
<1>5. Arbolado(tabla)
  BY <1>3, <1>4 DEF Arbolado
<1>6. ArbolDe(tabla) = <<>>
  <2>1. VisiblesDe(tabla) = {}
    BY <1>2, <1>3, <1>4, VisiblesSon
  <2> QED
    BY <2>1 DEF ArbolDe
<1>7. ASSUME NEW c \in Clientes PROVE SanoEn(c)
  <2>1. hilo[c] = Ocioso /\ cola[c] = <<>> /\ eco[c] = 0 /\ cliente[c] = "libre"
    BY DEF InitSistema, Init
  <2>2. Ocioso.paso = "libre" /\ Ocioso.camino = <<>>
    BY DEF Ocioso
  <2>3. Turno("libre", <<>>, 0, Ocioso)
    BY <2>2 DEF Turno
  <2>4. Promesa(tabla, <<>>, Ocioso)
    BY <2>2, ColaVacia DEF Quietos
  <2>5. Encamina(tabla, Ocioso)
    BY <2>2 DEF Encamina, Buscando, Quietos
  <2>6. Recorrido(tabla, Ocioso)
    BY <2>2 DEF Recorrido, EnCarpeta
  <2> QED
    BY <2>1, <2>3, <2>4, <2>5, <2>6 DEF SanoEn, Sano
<1> QED
  BY <1>5, <1>6, <1>7 DEF Nombrados

LEMMA NombradosSiempre == UnCliente /\ SpecSistema => []Nombrados
<1> SUFFICES ASSUME UnCliente PROVE SpecSistema => []Nombrados
  OBVIOUS
<1>1. InitSistema => Nombrados
  BY NombradosInit
<1>2. TiposSac /\ Nombrados /\ [NextSistema]_varsSistema => Nombrados'
  BY NombradosPaso
<1> QED
  BY <1>1, <1>2, TiposInvariante, PTL DEF SpecSistema

LEMMA NombradosSinHuerfanos == Nombrados => SinHuerfanos
<1> SUFFICES ASSUME Nombrados, NEW n \in Nodos, tabla[n].estado # "borrado"
             PROVE  \E r \in Visibles : Resuelve(r) = n
  BY DEF SinHuerfanos
<1>1. n \in Vivos(tabla)
  BY DEF Vivos
<1>2. PICK C : Caminos(tabla, C)
  BY DEF Nombrados, Arbolado
<1>3. Colgados(tabla) /\ Distintos(tabla)
  BY DEF Nombrados, Arbolado
<1>4. C[n] \in VisiblesDe(tabla) /\ Baja(tabla, 0, C[n]) = n
  BY <1>1, <1>2, <1>3, VisiblesSon, CaminoLleva
<1>5. C[n] \in Visibles /\ Resuelve(C[n]) = n
  BY <1>4, ResuelveEsBaja DEF Visibles, VisiblesDe
<1> QED
  BY <1>5

(* With one client no directory is listed, moved or removed with entries   *)
(* left behind that no path leads to, whatever the requests.               *)
THEOREM SinHuerfanosSiempre == UnCliente /\ SpecSistema => []SinHuerfanos
BY NombradosSiempre, NombradosSinHuerfanos, PTL

-----------------------------------------------------------------------------
(* The refinement.                                                         *)
ArbolVisto == [r \in Visibles |-> tabla[Resuelve(r)].estado]

LEMMA VistoEsArbol == ArbolVisto = ArbolDe(tabla)
<1>1. Visibles = VisiblesDe(tabla)
  BY ResuelveEsBaja DEF Visibles, VisiblesDe
<1>2. \A r \in Visibles : tabla[Resuelve(r)].estado = tabla[Baja(tabla, 0, r)].estado
  BY ResuelveEsBaja
<1> QED
  BY <1>1, <1>2 DEF ArbolVisto, ArbolDe

LEMMA ObraEsPaso ==
    ASSUME Obra(ArbolVisto, ArbolVisto')
    PROVE  [Arbol!Next]_ArbolVisto
<1>1. CASE ArbolVisto' = ArbolVisto
  BY <1>1
<1>2. CASE ArbolVisto' # ArbolVisto
  <2>1. ASSUME NEW r, NEW tipo \in {"ocupado", "directorio"},
               Creado(ArbolVisto, ArbolVisto', r, tipo)
        PROVE  r \in RutasPosibles /\ Arbol!Crear(r, tipo)
    BY <2>1, Zenon DEF Creado, EsDir, Front, Arbol!Front, Arbol!Crear, Arbol!EsDirectorio,
                         ArbolVisto
  <2>2. ASSUME NEW r, Quitado(ArbolVisto, ArbolVisto', r)
        PROVE  r \in RutasPosibles /\ Arbol!Quitar(r)
    BY <2>2, Zenon DEF Quitado, IsStrictPrefix, IsPrefix, Restrict, Arbol!IsStrictPrefix,
                         Arbol!IsPrefix, Arbol!Restrict, Arbol!Quitar, ArbolVisto
  <2>3. ASSUME NEW r, NEW w, Mudado(ArbolVisto, ArbolVisto', r, w)
        PROVE  r \in RutasPosibles /\ w \in RutasPosibles /\ Arbol!Mover(r, w)
    BY <2>3, Zenon DEF Mudado, VanDe, Bajo, EsDir, Front, IsPrefix, Arbol!Front, Arbol!IsPrefix,
                         Arbol!Bajo, Arbol!Mover, Arbol!EsDirectorio, ArbolVisto
  <2>4. Arbol!Next
    BY <1>2, <2>1, <2>2, <2>3 DEF Obra, Arbol!Next, ArbolVisto
  <2> QED
    BY <2>4
<1> QED
  BY <1>1, <1>2

(* One client sees a tree: what the requests do to the table is, seen      *)
(* through its paths, to create, to remove an entry with nothing under it, *)
(* or to rename one with all that is under it.                             *)
THEOREM ArbolImplementado == UnCliente /\ SpecSistema => ImplementaArbol
<1> SUFFICES ASSUME UnCliente PROVE SpecSistema => ImplementaArbol
  OBVIOUS
<1>1. InitSistema => Arbol!Init
  BY NombradosInit, VistoEsArbol DEF Arbol!Init, ArbolVisto
<1>2. ArbolVisto' = ArbolDe(tabla')
  <2>1. (ArbolVisto = ArbolDe(tabla))'
    BY VistoEsArbol, PTL
  <2> QED
    BY <2>1
<1>3. TiposSac /\ Nombrados /\ [NextSistema]_varsSistema => [Arbol!Next]_ArbolVisto
  BY <1>2, VistoEsArbol, NombradosPaso, ObraEsPaso
<1>4. TiposSac /\ Nombrados /\ [NextSistema]_varsSistema
          => [Arbol!Next]_([r \in Visibles |-> tabla[Resuelve(r)].estado])
  BY <1>3 DEF ArbolVisto
<1> QED
  BY <1>1, <1>4, TiposInvariante, NombradosSiempre, PTL
     DEF SpecSistema, ImplementaArbol, Arbol!Spec
=============================================================================
