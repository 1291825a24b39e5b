-------------------------- MODULE RegistryTreeProofs ---------------------------
(***************************************************************************)
(* TestingRegistry is a Registry: what is read through its handles is what *)
(* its map of keys has, and its steps are steps of that map.  The argument *)
(* walks down the tree: a path that is grown changes the cells on its way  *)
(* by one name each (GrownAt), so the map by the keys above it (FlatGrown).*)
(***************************************************************************)
EXTENDS RegistryTreeProps, SharedLemmas

(* The names there are.  (That "V" is a STRING is beyond the provers.)       *)
Name == STRING \cup {"HKLM", "HKU", "S-u", "V"}

\* A path with one name more.
LEMMA NameAppended ==
  ASSUME NEW p \in Seq(Name), NEW m \in Name
  PROVE  /\ Len(p) \in Nat /\ Append(p, m) \in Seq(Name)
         /\ Len(Append(p, m)) = Len(p) + 1 /\ Append(p, m)[Len(p) + 1] = m
         /\ \A i \in 1 .. Len(p) : p[i] = Append(p, m)[i]
<1>1. Len(p) \in Nat /\ Append(p, m) \in Seq(Name)
  BY AppendProperties
<1>2. Len(Append(p, m)) = Len(p) + 1 /\ Append(p, m)[Len(p) + 1] = m
  BY AppendProperties
<1>3. \A i \in 1 .. Len(p) : Append(p, m)[i] = p[i]
  BY AppendProperties
<1> QED BY <1>1, <1>2, <1>3

(***************************************************************************)
(* Walking down a tree of cells.                                           *)
(***************************************************************************)
Goes(c, p, d) == d = [n \in 0 .. Len(p) |-> IF n = 0 THEN c ELSE Entry(d[n - 1].keys, p[n])]

\* There is a cell at every length of a path.
LEMMA GoesExists ==
  ASSUME NEW c
  PROVE  \A p \in Seq(Name) : \E d : Goes(c, p, d)
<1> DEFINE Q == {p \in Seq(Name) : \E d : Goes(c, p, d)}
<1>1. <<>> \in Q
  <2>1. Goes(c, <<>>, [n \in 0 .. 0 |-> c])
    BY DEF Goes
  <2> QED BY <2>1
<1>2. ASSUME NEW p \in Seq(Name), NEW m \in Name, p \in Q PROVE Append(p, m) \in Q
  <2>1. PICK d : Goes(c, p, d)
    BY <1>2
  <2> DEFINE k == Len(p)
             P == Append(p, m)
  <2>2. /\ k \in Nat /\ P \in Seq(Name) /\ Len(P) = k + 1 /\ P[k + 1] = m
        /\ \A i \in 1 .. k : P[i] = p[i]
    BY NameAppended
  <2> DEFINE g == [n \in 0 .. k + 1 |-> IF n = k + 1 THEN Entry(d[k].keys, m) ELSE d[n]]
  <2>3. \A n \in 0 .. k : d[n] = IF n = 0 THEN c ELSE Entry(d[n - 1].keys, p[n])
    BY <2>1 DEF Goes
  <2>4. \A n \in 0 .. k + 1 : g[n] = IF n = 0 THEN c ELSE Entry(g[n - 1].keys, P[n])
    <3> SUFFICES ASSUME NEW n \in 0 .. k + 1
                 PROVE  g[n] = IF n = 0 THEN c ELSE Entry(g[n - 1].keys, P[n])
      OBVIOUS
    <3>1. CASE n = k + 1
      <4>1. n # 0 /\ g[n] = Entry(d[k].keys, m) /\ g[n - 1] = d[k] /\ P[n] = m
        BY <2>2, <3>1
      <4> QED BY <4>1
    <3>2. CASE n # k + 1
      <4>1. n \in 0 .. k /\ g[n] = d[n] /\ (n # 0 => g[n - 1] = d[n - 1] /\ P[n] = p[n])
        BY <2>2, <3>2
      <4> HIDE DEF g, P
      <4> QED BY <4>1, <2>3
    <3> QED BY <3>1, <3>2
  <2>5. g = [n \in 0 .. k + 1 |-> g[n]]
    OBVIOUS
  <2> HIDE DEF g, P, k
  <2>6. Goes(c, P, g)
    BY <2>2, <2>4, <2>5, ZenonT(60) DEF Goes
  <2> QED BY <2>2, <2>6 DEF P
<1> HIDE DEF Q
<1>3. \A p \in Seq(Name) : p \in Q
  BY <1>1, <1>2, SeqInduction
<1> QED BY <1>3 DEF Q

\* Paths that begin alike lead through the same cells.
LEMMA GoesAlike ==
  ASSUME NEW c, NEW p \in Seq(Name), NEW q \in Seq(Name), NEW d, NEW e,
         Goes(c, p, d), Goes(c, q, e), Len(p) <= Len(q), \A i \in 1 .. Len(p) : p[i] = q[i]
  PROVE  d[Len(p)] = e[Len(p)]
<1> DEFINE N == {n \in Nat : n <= Len(p) => d[n] = e[n]}
<1>0. /\ \A n \in 0 .. Len(p) : d[n] = IF n = 0 THEN c ELSE Entry(d[n - 1].keys, p[n])
      /\ \A n \in 0 .. Len(q) : e[n] = IF n = 0 THEN c ELSE Entry(e[n - 1].keys, q[n])
  BY DEF Goes
<1>1. 0 \in N
  BY <1>0
<1>2. ASSUME NEW n \in N PROVE n + 1 \in N
  <2> SUFFICES ASSUME n + 1 <= Len(p) PROVE d[n + 1] = e[n + 1]
    OBVIOUS
  <2>1. /\ d[n + 1] = Entry(d[(n + 1) - 1].keys, p[n + 1])
        /\ e[n + 1] = Entry(e[(n + 1) - 1].keys, q[n + 1])
    <3>1. n + 1 \in 0 .. Len(p) /\ n + 1 \in 0 .. Len(q) /\ n + 1 # 0
      OBVIOUS
    <3> QED BY ONLY <1>0, <3>1
  <2>2. d[(n + 1) - 1] = e[(n + 1) - 1] /\ p[n + 1] = q[n + 1]
    OBVIOUS
  <2> QED BY <2>1, <2>2
<1> HIDE DEF N
<1>3. \A n \in Nat : n \in N
  BY <1>1, <1>2, SetInduction
<1> QED BY <1>3 DEF N

\* The cell a path leads to is the last on the way.
LEMMA DownIsLast ==
  ASSUME NEW c, NEW p \in Seq(Name)
  PROVE  \E d : Goes(c, p, d) /\ Down(c, p) = d[Len(p)]
<1> DEFINE g == CHOOSE d : Goes(c, p, d)
<1>1. Goes(c, p, g)
  BY GoesExists
<1>2. Down(c, p) = g[Len(p)]
  BY DEF Down, Goes
<1> QED BY <1>1, <1>2

\* No way leads to the root.
LEMMA DownEmpty == ASSUME NEW c PROVE Down(c, <<>>) = c
<1>1. PICK d : Goes(c, <<>>, d) /\ Down(c, <<>>) = d[Len(<<>>)]
  <2>1. <<>> \in Seq(Name)
    OBVIOUS
  <2> QED BY <2>1, DownIsLast
<1>2. d[0] = c
  BY <1>1 DEF Goes
<1> QED BY <1>1, <1>2

\* A name more leads to the entry of that name.
LEMMA DownAppend ==
  ASSUME NEW c, NEW p \in Seq(Name), NEW m \in Name
  PROVE  Down(c, Append(p, m)) = Entry(Down(c, p).keys, m)
<1> DEFINE P == Append(p, m)
<1>1. /\ Len(p) \in Nat /\ P \in Seq(Name) /\ Len(P) = Len(p) + 1 /\ P[Len(p) + 1] = m
      /\ \A i \in 1 .. Len(p) : p[i] = P[i]
  BY NameAppended
<1> HIDE DEF P
<1>2. PICK d : Goes(c, p, d) /\ Down(c, p) = d[Len(p)]
  BY DownIsLast
<1>3. PICK e : Goes(c, P, e) /\ Down(c, P) = e[Len(P)]
  BY <1>1, DownIsLast
<1>4. d[Len(p)] = e[Len(p)]
  <2>1. Len(p) <= Len(P)
    BY <1>1
  <2> QED BY <1>1, <1>2, <1>3, <2>1, GoesAlike
<1>5. e[Len(p) + 1] = Entry(e[(Len(p) + 1) - 1].keys, P[Len(p) + 1])
  BY <1>1, <1>3 DEF Goes
<1>6. (Len(p) + 1) - 1 = Len(p)
  BY <1>1
<1> QED BY <1>1, <1>2, <1>3, <1>4, <1>5, <1>6 DEF P
-----------------------------------------------------------------------------
(***************************************************************************)
(* A cell put where a path leads to.                                       *)
(***************************************************************************)
Over(c, p, i, x) == [Down(c, SubSeq(p, 1, i)) EXCEPT !.keys = Put(@, p[i + 1], x)]
Raised(c, p, b, k, up) ==
  up = [n \in 0 .. k |-> IF n = 0 THEN b ELSE Over(c, p, Len(p) - n, up[n - 1])]

\* There are cells above it, up to the root.
LEMMA RaisedExists ==
  ASSUME NEW c, NEW p, NEW b
  PROVE  \A k \in Nat : \E up : Raised(c, p, b, k, up)
<1> DEFINE N == {k \in Nat : \E up : Raised(c, p, b, k, up)}
<1>1. 0 \in N
  <2>1. Raised(c, p, b, 0, [n \in 0 .. 0 |-> b])
    BY DEF Raised
  <2> QED BY <2>1
<1>2. ASSUME NEW k \in N PROVE k + 1 \in N
  <2>1. PICK up : Raised(c, p, b, k, up)
    OBVIOUS
  <2> DEFINE g == [n \in 0 .. k + 1 |-> IF n = k + 1 THEN Over(c, p, Len(p) - n, up[k]) ELSE up[n]]
  <2>2. \A n \in 0 .. k : up[n] = IF n = 0 THEN b ELSE Over(c, p, Len(p) - n, up[n - 1])
    BY <2>1 DEF Raised
  <2>3. k \in Nat
    OBVIOUS
  <2> HIDE DEF N
  <2>4. \A n \in 0 .. k + 1 : g[n] = IF n = 0 THEN b ELSE Over(c, p, Len(p) - n, g[n - 1])
    <3> SUFFICES ASSUME NEW n \in 0 .. k + 1
                 PROVE  g[n] = IF n = 0 THEN b ELSE Over(c, p, Len(p) - n, g[n - 1])
      OBVIOUS
    <3>1. CASE n = k + 1
      <4>1. n # 0 /\ g[n] = Over(c, p, Len(p) - n, up[k]) /\ g[n - 1] = up[k]
        BY <2>3, <3>1
      <4> QED BY <4>1
    <3>2. CASE n # k + 1
      <4>1. n \in 0 .. k /\ g[n] = up[n] /\ (n # 0 => g[n - 1] = up[n - 1])
        BY <2>3, <3>2
      <4> HIDE DEF g
      <4> QED BY <4>1, <2>2
    <3> QED BY <3>1, <3>2
  <2>5. g = [n \in 0 .. k + 1 |-> g[n]]
    OBVIOUS
  <2> HIDE DEF g
  <2>6. Raised(c, p, b, k + 1, g)
    BY <2>4, <2>5, ZenonT(60) DEF Raised
  <2> QED BY <2>3, <2>6 DEF N
<1> HIDE DEF N
<1>3. \A k \in Nat : k \in N
  BY <1>1, <1>2, SetInduction
<1> QED BY <1>3 DEF N

\* Grown is the uppermost of them.
LEMMA GrownIsLast ==
  ASSUME NEW c, NEW p \in Seq(Name), NEW b
  PROVE  \E up : Raised(c, p, b, Len(p), up) /\ Grown(c, p, b) = up[Len(p)]
<1> DEFINE g == CHOOSE up : Raised(c, p, b, Len(p), up)
<1>0. Len(p) \in Nat
  OBVIOUS
<1>1. Raised(c, p, b, Len(p), g)
  BY <1>0, RaisedExists
<1>2. Grown(c, p, b) = g[Len(p)]
  BY DEF Grown, Raised, Over
<1> QED BY <1>1, <1>2

(* A cell, and where a path begins another.                                *)
IsCell(c) == c = [keys |-> c.keys, values |-> c.values]
Begins(q, p) == Len(q) <= Len(p) /\ \A i \in 1 .. Len(q) : q[i] = p[i]

\* What is above a name begins with what is above the name before it.
LEMMA BeginsAppend ==
  ASSUME NEW p \in Seq(Name), NEW q \in Seq(Name), NEW m \in Name
  PROVE  /\ Begins(Append(q, m), p) <=> Begins(q, p) /\ Len(q) < Len(p) /\ p[Len(q) + 1] = m
         /\ Begins(q, p) => q = SubSeq(p, 1, Len(q))
<1>1. /\ Len(q) \in Nat /\ Append(q, m) \in Seq(Name) /\ Len(Append(q, m)) = Len(q) + 1
      /\ Append(q, m)[Len(q) + 1] = m
      /\ \A i \in 1 .. Len(q) : Append(q, m)[i] = q[i]
  BY NameAppended
<1> DEFINE Q == Append(q, m)
<1>2. Begins(q, p) => q = SubSeq(p, 1, Len(q))
  BY DEF Begins
<1> HIDE DEF Q
<1>3. Begins(Q, p) => Begins(q, p) /\ Len(q) < Len(p) /\ p[Len(q) + 1] = m
  BY <1>1 DEF Begins, Q
<1>4. Begins(q, p) /\ Len(q) < Len(p) /\ p[Len(q) + 1] = m => Begins(Q, p)
  BY <1>1 DEF Begins, Q
<1> QED BY <1>2, <1>3, <1>4 DEF Q

\* What is on the way is one of them, and all else is as it was, if the keys of
\* the cell put there are.
LEMMA DownGrown ==
  ASSUME NEW c, NEW p \in Seq(Name), NEW b, b.keys = Down(c, p).keys,
         \A q \in Seq(Name) : IsCell(Down(c, q)),
         NEW up, Raised(c, p, b, Len(p), up), Grown(c, p, b) = up[Len(p)]
  PROVE  \A q \in Seq(Name) :
           Down(Grown(c, p, b), q) = IF Begins(q, p) THEN up[Len(p) - Len(q)] ELSE Down(c, q)
<1> DEFINE t == Grown(c, p, b)
           Q == {q \in Seq(Name) : Down(t, q) = IF Begins(q, p) THEN up[Len(p) - Len(q)] ELSE Down(c, q)}
<1>0. /\ Len(p) \in Nat
      /\ \A n \in 0 .. Len(p) : up[n] = IF n = 0 THEN b ELSE Over(c, p, Len(p) - n, up[n - 1])
  BY SMTT(60) DEF Raised
<1>1. <<>> \in Q
  <2>1. Begins(<<>>, p) /\ Len(p) - Len(<<>>) = Len(p) /\ <<>> \in Seq(Name)
    BY DEF Begins
  <2>2. Down(t, <<>>) = t
    BY DownEmpty
  <2> QED BY <2>1, <2>2
<1>2. ASSUME NEW q \in Seq(Name), NEW m \in Name, q \in Q PROVE Append(q, m) \in Q
  <2> DEFINE P == Append(q, m)
  <2>1. /\ Begins(P, p) <=> Begins(q, p) /\ Len(q) < Len(p) /\ p[Len(q) + 1] = m
        /\ Begins(q, p) => q = SubSeq(p, 1, Len(q))
    BY BeginsAppend
  <2>2. Down(t, P) = Entry(Down(t, q).keys, m) /\ Down(c, P) = Entry(Down(c, q).keys, m)
    BY DownAppend
  <2>3. P \in Seq(Name) /\ Len(P) = Len(q) + 1 /\ Len(q) \in Nat
    BY NameAppended
  <2>4. Down(t, q) = IF Begins(q, p) THEN up[Len(p) - Len(q)] ELSE Down(c, q)
    BY <1>2
  <2> HIDE DEF Q, t, P
  <2>5. CASE ~Begins(q, p)
    <3>1. Down(t, P) = Down(c, P) /\ ~Begins(P, p)
      BY <2>1, <2>2, <2>4, <2>5
    <3> QED BY <3>1, <2>3 DEF Q, P
  <2>6. CASE Begins(q, p) /\ ~(Len(q) < Len(p))
    <3>1. Len(q) = Len(p)
      BY <1>0, <2>3, <2>6 DEF Begins
    <3>2. q = p
      BY <2>1, <2>6, <3>1
    <3>3. Down(t, q) = b
      BY <1>0, <2>4, <2>6, <3>1
    <3>4. Down(t, P) = Down(c, P) /\ ~Begins(P, p)
      BY <2>1, <2>2, <2>6, <3>2, <3>3
    <3> QED BY <3>4, <2>3 DEF Q, P
  <2>7. CASE Begins(q, p) /\ Len(q) < Len(p)
    <3> DEFINE n == Len(p) - Len(q)
               x == p[Len(q) + 1]
    <3>1. n \in 0 .. Len(p) /\ n # 0 /\ Len(p) - n = Len(q) /\ n - 1 = Len(p) - Len(P)
      BY <1>0, <2>3, <2>7
    <3>2. up[n] = Over(c, p, Len(q), up[n - 1])
      BY <1>0, <3>1
    <3>3. up[n] = [Down(c, q) EXCEPT !.keys = Put(@, x, up[n - 1])]
      BY <2>1, <2>7, <3>2 DEF Over
    <3>4. Down(t, q) = up[n]
      BY <2>4, <2>7
    <3> HIDE DEF n, x
    <3>5. Down(t, q).keys = Put(Down(c, q).keys, x, up[n - 1])
      BY <3>3, <3>4 DEF IsCell
    <3>6. Entry(Down(t, q).keys, m) = IF m = x THEN up[n - 1] ELSE Entry(Down(c, q).keys, m)
      BY <3>5 DEF Entry, Put
    <3>7. Begins(P, p) <=> m = x
      BY <2>1, <2>7 DEF x
    <3>8. Down(t, P) = IF Begins(P, p) THEN up[n - 1] ELSE Down(c, P)
      BY <2>2, <3>6, <3>7
    <3> QED BY <3>1, <3>8, <2>3 DEF Q, P
  <2> QED BY <2>5, <2>6, <2>7 DEF P
<1> HIDE DEF Q
<1>3. \A q \in Seq(Name) : q \in Q
  BY <1>1, <1>2, SeqInduction
<1> QED BY <1>3 DEF Q, t

(* What is at a key of a tree, as a fact about two cells.                  *)
Changed(o, g, values, names) ==
  IsCell(g) /\ g.values = values /\ DOMAIN g.keys = DOMAIN o.keys \cup names
NameAfter(q, p) == IF Begins(q, p) /\ Len(q) < Len(p) THEN {p[Len(q) + 1]} ELSE {}

\* A name more on the way, and the values of the cell that is put at its end.
LEMMA GrownAt ==
  ASSUME NEW c, NEW p \in Seq(Name), NEW b, IsCell(b), b.keys = Down(c, p).keys,
         \A q \in Seq(Name) : IsCell(Down(c, q))
  PROVE  \A q \in Seq(Name) :
           Changed(Down(c, q), Down(Grown(c, p, b), q),
                   IF q = p THEN b.values ELSE Down(c, q).values, NameAfter(q, p))
<1> SUFFICES ASSUME NEW q \in Seq(Name)
             PROVE  Changed(Down(c, q), Down(Grown(c, p, b), q),
                            IF q = p THEN b.values ELSE Down(c, q).values, NameAfter(q, p))
  OBVIOUS
<1> DEFINE g == Down(Grown(c, p, b), q)
<1>1. PICK up : Raised(c, p, b, Len(p), up) /\ Grown(c, p, b) = up[Len(p)]
  BY GrownIsLast
<1>2. g = IF Begins(q, p) THEN up[Len(p) - Len(q)] ELSE Down(c, q)
  BY <1>1, DownGrown
<1>3. /\ Len(p) \in Nat /\ Len(q) \in Nat
      /\ \A n \in 0 .. Len(p) : up[n] = IF n = 0 THEN b ELSE Over(c, p, Len(p) - n, up[n - 1])
  <2>1. Len(p) \in Nat /\ Len(q) \in Nat
    OBVIOUS
  <2>2. Raised(c, p, b, Len(p), up)
    BY <1>1
  <2> QED BY ONLY <2>1, <2>2 DEF Raised
<1>4. Begins(p, p)
  BY DEF Begins
<1>5. Begins(q, p) => q = SubSeq(p, 1, Len(q))
  BY DEF Begins
<1>6. IsCell(Down(c, q))
  OBVIOUS
<1> HIDE DEF g
<1>7. CASE ~Begins(q, p)
  <2>1. g = Down(c, q) /\ q # p /\ NameAfter(q, p) = {}
    BY <1>2, <1>4, <1>7 DEF NameAfter
  <2> QED BY <1>6, <2>1 DEF Changed, g
<1>8. CASE Begins(q, p) /\ ~(Len(q) < Len(p))
  <2>1. Len(q) = Len(p)
    BY <1>3, <1>8 DEF Begins
  <2>2. q = p
    BY <1>5, <1>8, <2>1
  <2>3. g = b
    BY <1>2, <1>3, <1>8, <2>1
  <2>4. NameAfter(q, p) = {}
    BY <1>8 DEF NameAfter
  <2> QED BY <2>2, <2>3, <2>4 DEF Changed, g
<1>9. CASE Begins(q, p) /\ Len(q) < Len(p)
  <2> DEFINE n == Len(p) - Len(q)
             x == p[Len(q) + 1]
  <2>1. n \in 0 .. Len(p) /\ n # 0 /\ Len(p) - n = Len(q) /\ q # p
    BY <1>3, <1>9
  <2>2. up[n] = [Down(c, q) EXCEPT !.keys = Put(@, x, up[n - 1])]
    BY <1>3, <1>5, <1>9, <2>1 DEF Over
  <2>3. g = up[n] /\ NameAfter(q, p) = {x}
    BY <1>2, <1>9 DEF NameAfter
  <2> HIDE DEF n, x
  <2>4. IsCell(g) /\ g.values = Down(c, q).values /\ g.keys = Put(Down(c, q).keys, x, up[n - 1])
    BY <1>6, <2>2, <2>3 DEF IsCell
  <2>5. DOMAIN Put(Down(c, q).keys, x, up[n - 1]) = DOMAIN Down(c, q).keys \cup {x}
    BY DEF Put
  <2> QED BY <2>1, <2>3, <2>4, <2>5 DEF Changed, g
<1> QED BY <1>7, <1>8, <1>9
-----------------------------------------------------------------------------
(***************************************************************************)
(* The keys there are.                                                     *)
(***************************************************************************)
Has(c, p) == p # <<>> /\ contains_key(c, p)

\* A path is all but its last name, and that.
LEMMA FrontLast ==
  ASSUME NEW p \in Seq(Name), p # <<>>
  PROVE  Front(p) \in Seq(Name) /\ Last(p) \in Name /\ p = Append(Front(p), Last(p))
         /\ Len(Front(p)) = Len(p) - 1 /\ Len(p) \in Nat \ {0}
<1>0. Len(p) \in Nat /\ Len(p) # 0
  OBVIOUS
<1> DEFINE f == SubSeq(p, 1, Len(p) - 1)
           x == p[Len(p)]
<1>1. f \in Seq(Name) /\ x \in Name /\ Len(f) = Len(p) - 1
  <2>1. PICK n \in Nat : Len(p) = n + 1
    <3>1. Len(p) - 1 \in Nat /\ Len(p) = (Len(p) - 1) + 1
      BY <1>0
    <3> QED BY <3>1
  <2>2. SubSeq(p, 1, n) \in Seq(Name) /\ Len(SubSeq(p, 1, n)) = n /\ p[n + 1] \in Name
    BY <2>1
  <2> QED BY <2>1, <2>2, SMTT(60)
<1>2. p = Append(f, x)
  BY <1>0
<1>3. Front(p) = f
  BY <1>0 DEF Front
<1>4. Last(p) = x
  BY DEF Last
<1> HIDE DEF f, x
<1> QED BY <1>0, <1>1, <1>2, <1>3, <1>4

\* And so of a path with a name more.
LEMMA FrontLastAppend ==
  ASSUME NEW p \in Seq(Name), NEW m \in Name
  PROVE  Append(p, m) # <<>> /\ Front(Append(p, m)) = p /\ Last(Append(p, m)) = m
<1> DEFINE P == Append(p, m)
<1>1. P \in Seq(Name) /\ Len(P) = Len(p) + 1 /\ Len(p) \in Nat /\ P[Len(p) + 1] = m
      /\ \A i \in 1 .. Len(p) : P[i] = p[i]
  BY NameAppended
<1> HIDE DEF P
<1>2. P # <<>>
  BY <1>1
<1>3. Front(P) \in Seq(Name) /\ Len(Front(P)) = Len(p)
  BY <1>1, <1>2, FrontLast
<1>4. \A i \in 1 .. Len(p) : Front(P)[i] = p[i]
  BY <1>1 DEF Front
<1>5. Front(P) = p
  BY <1>3, <1>4
<1>6. Last(P) = m
  BY <1>1 DEF Last
<1> QED BY <1>2, <1>5, <1>6 DEF P

\* A key is there if the one above it has its name.
LEMMA HasAppend ==
  ASSUME NEW c, NEW p \in Seq(Name), NEW m \in Name
  PROVE  Has(c, Append(p, m)) <=> m \in DOMAIN Down(c, p).keys
BY FrontLastAppend DEF Has, contains_key

\* Where there is no key, there is nothing.
LEMMA HasNot ==
  ASSUME NEW c, NEW p \in Seq(Name), p # <<>>, ~Has(c, p)
  PROVE  Down(c, p) = NewCell
<1>1. Front(p) \in Seq(Name) /\ Last(p) \in Name /\ p = Append(Front(p), Last(p))
  BY FrontLast
<1>2. Down(c, p) = Entry(Down(c, Front(p)).keys, Last(p))
  BY <1>1, DownAppend
<1> QED BY <1>2 DEF Has, contains_key, Entry

\* A new cell has nothing.
LEMMA NewCellIs ==
  /\ NewCell.keys = None /\ NewCell.values = None
  /\ DOMAIN NewCell.keys = {} /\ DOMAIN NewCell.values = {} /\ IsCell(NewCell)
BY DEF NewCell, None, IsCell

\* The keys above a key are there.
LEMMA HasAbove ==
  ASSUME NEW c
  PROVE  \A p \in Seq(Name) : Has(c, p) => \A q \in Seq(Name) : q # <<>> /\ Begins(q, p) => Has(c, q)
<1> DEFINE Q == {p \in Seq(Name) : Has(c, p) =>
                   \A q \in Seq(Name) : q # <<>> /\ Begins(q, p) => Has(c, q)}
<1>1. <<>> \in Q
  BY DEF Has
<1>2. ASSUME NEW p \in Seq(Name), NEW m \in Name, p \in Q PROVE Append(p, m) \in Q
  <2> DEFINE P == Append(p, m)
  <2>1. P \in Seq(Name) /\ Len(P) = Len(p) + 1 /\ Len(p) \in Nat /\ \A i \in 1 .. Len(p) : P[i] = p[i]
    BY NameAppended
  <2>2. Has(c, P) => m \in DOMAIN Down(c, p).keys
    BY HasAppend
  <2>3. Has(c, P) /\ p # <<>> => Has(c, p)
    BY <2>2, HasNot, NewCellIs
  <2>4. Has(c, p) => \A q \in Seq(Name) : q # <<>> /\ Begins(q, p) => Has(c, q)
    BY <1>2
  <2> HIDE DEF P, Q
  <2>5. ASSUME Has(c, P), NEW q \in Seq(Name), q # <<>>, Begins(q, P) PROVE Has(c, q)
    <3>0. Len(q) \in Nat /\ Len(q) # 0
      BY <2>5
    <3>1. CASE Len(q) = Len(P)
      <4>1. q = P
        BY <2>1, <2>5, <3>1 DEF Begins
      <4> QED BY <2>5, <4>1
    <3>2. CASE Len(q) # Len(P)
      <4>1. Len(q) <= Len(p) /\ p # <<>>
        BY <2>1, <2>5, <3>0, <3>2 DEF Begins
      <4>2. \A i \in 1 .. Len(q) : q[i] = p[i]
        BY <2>1, <2>5, <3>0, <4>1 DEF Begins
      <4> QED BY <2>3, <2>4, <2>5, <4>1, <4>2 DEF Begins
    <3> QED BY <3>1, <3>2
  <2>6. P \in Q
    BY <2>1, <2>5 DEF Q
  <2> QED BY <2>6 DEF P
<1> HIDE DEF Q
<1>3. \A p \in Seq(Name) : p \in Q
  BY <1>1, <1>2, SeqInduction
<1> QED BY <1>3 DEF Q

(* What every cell of the tree is like, n names below the root.            *)
GoodValues(values) == \A x \in DOMAIN values : values[x] # [is |-> "missing"]
GoodCell(c, n) ==
  /\ IsCell(c) /\ DOMAIN c.keys \subseteq Name /\ GoodValues(c.values)
  /\ DOMAIN c.keys # {} => n < MaxFrames
GoodTree(c) == \A q \in Seq(Name) : GoodCell(Down(c, q), Len(q))

\* No path is longer than the stack is deep.
LEMMA HasShort ==
  ASSUME NEW c, GoodTree(c), NEW p \in Seq(Name), Has(c, p)
  PROVE  Len(p) \in 1 .. MaxFrames
<1>1. p # <<>>
  BY DEF Has
<1>2. Front(p) \in Seq(Name) /\ Len(Front(p)) = Len(p) - 1 /\ Len(p) \in Nat \ {0}
  BY <1>1, FrontLast
<1>3. Last(p) \in DOMAIN Down(c, Front(p)).keys
  BY DEF Has, contains_key
<1>4. Len(Front(p)) < MaxFrames
  BY <1>2, <1>3 DEF GoodTree, GoodCell
<1>5. MaxFrames \in Nat
  BY TreeAssumption
<1> QED BY <1>2, <1>4, <1>5

\* A good tree is still one when a path has led somewhere.
LEMMA GrownGood ==
  ASSUME NEW c, GoodTree(c), NEW p \in Seq(Name), Len(p) <= MaxFrames,
         NEW b, IsCell(b), b.keys = Down(c, p).keys, GoodValues(b.values)
  PROVE  /\ GoodTree(Grown(c, p, b))
         /\ \A q \in Seq(Name) : Has(Grown(c, p, b), q) <=> Has(c, q) \/ (q # <<>> /\ Begins(q, p))
         /\ \A q \in Seq(Name) : Down(Grown(c, p, b), q).values =
                                   IF q = p THEN b.values ELSE Down(c, q).values
<1> DEFINE t == Grown(c, p, b)
<1>0. \A q \in Seq(Name) : IsCell(Down(c, q))
  BY DEF GoodTree, GoodCell
<1>1. \A q \in Seq(Name) :
        Changed(Down(c, q), Down(t, q), IF q = p THEN b.values ELSE Down(c, q).values, NameAfter(q, p))
  BY <1>0, GrownAt
<1> HIDE DEF t
<1>2. GoodTree(t)
  <2> SUFFICES ASSUME NEW q \in Seq(Name) PROVE GoodCell(Down(t, q), Len(q))
    BY DEF GoodTree
  <2>1. GoodCell(Down(c, q), Len(q))
    BY DEF GoodTree
  <2>2. NameAfter(q, p) \subseteq Name /\ (NameAfter(q, p) # {} => Len(q) < MaxFrames)
    <3>0. Len(p) \in Nat /\ Len(q) \in Nat /\ MaxFrames \in Nat
      BY TreeAssumption
    <3>1. Len(q) < Len(p) => p[Len(q) + 1] \in Name
      BY <3>0
    <3> QED BY <3>0, <3>1 DEF NameAfter
  <2>3. GoodValues(IF q = p THEN b.values ELSE Down(c, q).values)
    BY <2>1 DEF GoodCell
  <2> QED BY <1>1, <2>1, <2>2, <2>3 DEF GoodCell, Changed
<1>3. ASSUME NEW q \in Seq(Name) PROVE Has(t, q) <=> Has(c, q) \/ (q # <<>> /\ Begins(q, p))
  <2>1. CASE q = <<>>
    BY <2>1 DEF Has
  <2>2. CASE q # <<>>
    <3>1. PICK r \in Seq(Name), m \in Name : q = Append(r, m)
      BY <2>2, FrontLast
    <3>2. Has(t, q) <=> m \in DOMAIN Down(t, r).keys
      BY <3>1, HasAppend
    <3>3. Has(c, q) <=> m \in DOMAIN Down(c, r).keys
      BY <3>1, HasAppend
    <3>4. DOMAIN Down(t, r).keys = DOMAIN Down(c, r).keys \cup NameAfter(r, p)
      BY <1>1 DEF Changed
    <3>5. m \in NameAfter(r, p) <=> Begins(q, p)
      BY <3>1, BeginsAppend DEF NameAfter
    <3> QED BY <2>2, <3>2, <3>3, <3>4, <3>5
  <2> QED BY <2>1, <2>2
<1>4. \A q \in Seq(Name) : Down(t, q).values = IF q = p THEN b.values ELSE Down(c, q).values
  BY <1>1 DEF Changed
<1> QED BY <1>2, <1>3, <1>4 DEF t
-----------------------------------------------------------------------------
(***************************************************************************)
(* The tree as the map from paths to values that a Registry is.            *)
(***************************************************************************)
Level(c, n) == {p \in Seq(Name) : Len(p) = n /\ (n = 0 \/ Has(c, p))}
Longer(c, set) == UNION {{Append(p, m) : m \in DOMAIN Down(c, p).keys} : p \in set}
Longs(c, long) == long = [n \in 0 .. MaxFrames |-> IF n = 0 THEN {<<>>} ELSE Longer(c, long[n - 1])]

\* Only the root is no name below the root.
LEMMA LevelZero == ASSUME NEW c PROVE Level(c, 0) = {<<>>}
<1>1. <<>> \in Level(c, 0)
  BY DEF Level
<1>2. ASSUME NEW p \in Level(c, 0) PROVE p = <<>>
  <2>1. p \in Seq(Name) /\ Len(p) = 0
    BY DEF Level
  <2> QED BY ONLY <2>1
<1> QED BY <1>1, <1>2

\* The paths of a length lead to those that are one name longer.
LEMMA NextLevel ==
  ASSUME NEW c, GoodTree(c), NEW n \in Nat
  PROVE  Level(c, n + 1) = Longer(c, Level(c, n))
<1>1. ASSUME NEW q \in Level(c, n + 1) PROVE q \in Longer(c, Level(c, n))
  <2>1. q \in Seq(Name) /\ Len(q) = n + 1 /\ Has(c, q) /\ q # <<>>
    BY DEF Level
  <2>2. PICK p \in Seq(Name), m \in Name : q = Append(p, m)
    BY <2>1, FrontLast
  <2>3. Len(p) = n
    BY <2>1, <2>2, NameAppended
  <2>4. m \in DOMAIN Down(c, p).keys
    BY <2>1, <2>2, HasAppend
  <2>5. n = 0 \/ Has(c, p)
    <3>1. CASE p = <<>>
      BY <2>3, <3>1
    <3>2. CASE p # <<>>
      BY <2>4, <3>2, HasNot, NewCellIs
    <3> QED BY <3>1, <3>2
  <2>6. p \in Level(c, n)
    BY <2>3, <2>5 DEF Level
  <2> QED BY <2>2, <2>4, <2>6 DEF Longer
<1>2. ASSUME NEW q \in Longer(c, Level(c, n)) PROVE q \in Level(c, n + 1)
  <2>0. PICK p \in Level(c, n) : q \in {Append(p, m) : m \in DOMAIN Down(c, p).keys}
    BY DEF Longer
  <2>1. PICK m \in DOMAIN Down(c, p).keys : q = Append(p, m)
    BY <2>0
  <2>2. p \in Seq(Name) /\ Len(p) = n
    BY DEF Level
  <2>3. m \in Name
    BY <2>2 DEF GoodTree, GoodCell
  <2>4. q \in Seq(Name) /\ Len(q) = n + 1
    BY <2>1, <2>2, <2>3, NameAppended
  <2>5. Has(c, q)
    BY <2>1, <2>2, <2>3, HasAppend
  <2> QED BY <2>4, <2>5 DEF Level
<1> QED BY <1>1, <1>2

\* There is a path of each length or there is none.
LEMMA LongsExists ==
  ASSUME NEW c, GoodTree(c)
  PROVE  \E long : Longs(c, long)
<1> DEFINE l == [n \in 0 .. MaxFrames |-> Level(c, n)]
<1>1. ASSUME NEW n \in 0 .. MaxFrames PROVE l[n] = IF n = 0 THEN {<<>>} ELSE Longer(c, l[n - 1])
  <2>0. MaxFrames \in Nat
    BY TreeAssumption
  <2>1. CASE n = 0
    <3>1. Level(c, 0) = {<<>>}
      BY LevelZero
    <3> QED BY <2>0, <2>1, <3>1
  <2>2. CASE n # 0
    <3>1. n - 1 \in Nat /\ (n - 1) + 1 = n /\ n - 1 \in 0 .. MaxFrames
      BY <2>0, <2>2
    <3>2. Level(c, (n - 1) + 1) = Longer(c, Level(c, n - 1))
      BY <3>1, NextLevel
    <3> QED BY <2>2, <3>1, <3>2
  <2> QED BY <2>1, <2>2
<1>2. l = [n \in 0 .. MaxFrames |-> l[n]]
  OBVIOUS
<1> HIDE DEF l
<1>3. Longs(c, l)
  BY <1>1, <1>2, ZenonT(60) DEF Longs
<1> QED BY <1>3

\* They are what PathsIn is the union of.
LEMMA LongsAre ==
  ASSUME NEW c, GoodTree(c), NEW long, Longs(c, long)
  PROVE  \A n \in 0 .. MaxFrames : long[n] = Level(c, n)
<1> DEFINE N == {n \in Nat : n <= MaxFrames => long[n] = Level(c, n)}
<1>0. /\ MaxFrames \in Nat
      /\ \A n \in 0 .. MaxFrames : long[n] = IF n = 0 THEN {<<>>} ELSE Longer(c, long[n - 1])
  BY TreeAssumption DEF Longs
<1>1. 0 \in N
  <2>1. Level(c, 0) = {<<>>}
    BY LevelZero
  <2> QED BY <1>0, <2>1
<1>2. ASSUME NEW n \in N PROVE n + 1 \in N
  <2> SUFFICES ASSUME n + 1 <= MaxFrames PROVE long[n + 1] = Level(c, n + 1)
    OBVIOUS
  <2>1. n \in Nat /\ n + 1 \in 0 .. MaxFrames /\ n + 1 # 0 /\ (n + 1) - 1 = n /\ n <= MaxFrames
    BY <1>0
  <2>2. long[n] = Level(c, n)
    BY <2>1
  <2> HIDE DEF N
  <2>3. long[n + 1] = Longer(c, long[n])
    BY <1>0, <2>1
  <2> QED BY <2>1, <2>2, <2>3, NextLevel
<1> HIDE DEF N
<1>3. \A n \in Nat : n \in N
  BY <1>1, <1>2, SetInduction
<1> QED BY <1>0, <1>3 DEF N

\* PathsIn is the paths of the keys there are.
LEMMA PathsInAre ==
  ASSUME NEW cells, GoodTree(Tree(cells))
  PROVE  PathsIn(cells) = {p \in Seq(Name) : Has(Tree(cells), p)}
<1> DEFINE c == Tree(cells)
           l == CHOOSE long : Longs(c, long)
<1>1. Longs(c, l)
  BY LongsExists
<1>2. PathsIn(cells) = UNION {l[n] : n \in 1 .. MaxFrames}
  BY DEF PathsIn, Longs, Longer
<1> HIDE DEF l
<1>3. \A n \in 0 .. MaxFrames : l[n] = Level(c, n)
  BY <1>1, LongsAre
<1> HIDE DEF c
<1>4. ASSUME NEW p \in PathsIn(cells) PROVE p \in Seq(Name) /\ Has(c, p)
  <2>1. PICK n \in 1 .. MaxFrames : p \in l[n]
    BY <1>2
  <2>2. n \in 0 .. MaxFrames /\ n # 0
    BY TreeAssumption
  <2> QED BY <1>3, <2>1, <2>2 DEF Level
<1>5. ASSUME NEW p \in Seq(Name), Has(c, p) PROVE p \in PathsIn(cells)
  <2>1. Len(p) \in 1 .. MaxFrames
    BY <1>5, HasShort DEF c
  <2>2. Len(p) \in 0 .. MaxFrames
    BY <2>1, TreeAssumption
  <2>3. p \in l[Len(p)]
    BY <1>3, <1>5, <2>2 DEF Level
  <2> QED BY <1>2, <2>1, <2>3
<1> QED BY <1>4, <1>5 DEF c

\* What is at a path, in the tree and in the map.
LEMMA FlatIs ==
  ASSUME NEW cells, GoodTree(Tree(cells)), NEW p \in Seq(Name), p # <<>>
  PROVE  /\ p \in DOMAIN Flat(cells) <=> Has(Tree(cells), p)
         /\ p \in DOMAIN Flat(cells) => Flat(cells)[p] = Down(Tree(cells), p).values
         /\ ValuesOf(Flat(cells), p) = Down(Tree(cells), p).values
<1>1. DOMAIN Flat(cells) = PathsIn(cells)
  BY DEF Flat
<1>2. p \in DOMAIN Flat(cells) <=> Has(Tree(cells), p)
  BY <1>1, PathsInAre
<1>3. p \in DOMAIN Flat(cells) => Flat(cells)[p] = Down(Tree(cells), p).values
  BY DEF Flat
<1>4. ~Has(Tree(cells), p) => Down(Tree(cells), p).values = None
  BY HasNot, NewCellIs
<1> QED BY <1>2, <1>3, <1>4 DEF ValuesOf

\* The paths above one are those that it begins with.
LEMMA AboveIs ==
  ASSUME NEW p \in Seq(Name)
  PROVE  Above(p) = {q \in Seq(Name) : q # <<>> /\ Begins(q, p)}
<1>0. Len(p) \in Nat
  OBVIOUS
<1>1. ASSUME NEW n \in 1 .. Len(p)
      PROVE  SubSeq(p, 1, n) \in Seq(Name) /\ SubSeq(p, 1, n) # <<>> /\ Begins(SubSeq(p, 1, n), p)
  <2> DEFINE q == SubSeq(p, 1, n)
  <2>1. q \in Seq(Name) /\ Len(q) = n /\ \A i \in 1 .. n : q[i] = p[i]
    BY <1>0
  <2> HIDE DEF q
  <2>2. q # <<>> /\ Begins(q, p)
    BY <1>0, <2>1, SMTT(60) DEF Begins
  <2> QED BY <2>1, <2>2 DEF q
<1>2. ASSUME NEW q \in Seq(Name), q # <<>>, Begins(q, p) PROVE q \in Above(p)
  <2>1. q = SubSeq(p, 1, Len(q))
    BY <1>2 DEF Begins
  <2>2. Len(q) \in 1 .. Len(p)
    BY <1>0, <1>2 DEF Begins
  <2> QED BY <2>1, <2>2 DEF Above
<1>3. ASSUME NEW q \in Above(p) PROVE q \in Seq(Name) /\ q # <<>> /\ Begins(q, p)
  <2>1. PICK n \in 1 .. Len(p) : q = SubSeq(p, 1, n)
    BY DEF Above
  <2> QED BY <1>1, <2>1
<1> QED BY <1>2, <1>3

(* A cell put where a path leads to in a good tree, and what has come of it.*)
Puts(cells, p, b, new) ==
  /\ GoodTree(Tree(cells)) /\ p \in Seq(Name) /\ p # <<>> /\ Len(p) <= MaxFrames
  /\ IsCell(b) /\ b.keys = Down(Tree(cells), p).keys /\ GoodValues(b.values)
  /\ new = Grown(Tree(cells), p, b).keys
Gains(cells, p, new) ==
  /\ GoodTree(Tree(new)) /\ Has(Tree(new), p)
  /\ \A q \in Seq(Name) : Has(Tree(cells), q) => Has(Tree(new), q)
  /\ DOMAIN Flat(new) = DOMAIN Flat(cells) \cup Above(p)

\* A path that led somewhere is there, with all above it, and all else is as it was.
LEMMA FlatGrown ==
  ASSUME NEW cells, NEW p, NEW b, NEW new, Puts(cells, p, b, new)
  PROVE  /\ Gains(cells, p, new)
         /\ Flat(new) = [q \in DOMAIN Flat(new) |-> IF q = p THEN b.values ELSE ValuesOf(Flat(cells), q)]
<1> DEFINE c == Tree(cells)
           t == Grown(c, p, b)
<1>0. /\ GoodTree(c) /\ p \in Seq(Name) /\ p # <<>> /\ Len(p) <= MaxFrames
      /\ IsCell(b) /\ b.keys = Down(c, p).keys /\ GoodValues(b.values) /\ new = t.keys
  BY DEF Puts
<1>1. /\ GoodTree(t)
      /\ \A q \in Seq(Name) : Has(t, q) <=> Has(c, q) \/ (q # <<>> /\ Begins(q, p))
      /\ \A q \in Seq(Name) : Down(t, q).values = IF q = p THEN b.values ELSE Down(c, q).values
  BY <1>0, GrownGood
<1>2. Tree(new) = t
  <2>1. Down(t, <<>>) = t /\ Down(c, <<>>) = c
    BY DownEmpty
  <2>2. <<>> \in Seq(Name)
    OBVIOUS
  <2>3. c.values = None
    BY DEF Tree
  <2> HIDE DEF t, c
  <2>4. IsCell(t)
    BY <1>1, <2>1, <2>2 DEF GoodTree, GoodCell
  <2>5. t.values = None
    <3>1. \A q \in Seq(Name) : Down(t, q).values = IF q = p THEN b.values ELSE Down(c, q).values
      BY <1>1
    <3>2. Down(t, <<>>).values = IF <<>> = p THEN b.values ELSE Down(c, <<>>).values
      BY <2>2, <3>1
    <3> QED BY <1>0, <2>1, <2>3, <3>2
  <2> QED BY <1>0, <2>4, <2>5 DEF Tree, IsCell
<1> HIDE DEF t, c
<1>3. PathsIn(new) = {q \in Seq(Name) : Has(t, q)} /\ PathsIn(cells) = {q \in Seq(Name) : Has(c, q)}
  BY <1>0, <1>1, <1>2, PathsInAre DEF c
<1>4. DOMAIN Flat(new) = PathsIn(new) /\ DOMAIN Flat(cells) = PathsIn(cells)
  BY DEF Flat
<1>5. DOMAIN Flat(new) = DOMAIN Flat(cells) \cup Above(p)
  BY <1>0, <1>1, <1>3, <1>4, AboveIs
<1>6. ASSUME NEW q \in DOMAIN Flat(new)
      PROVE  Flat(new)[q] = IF q = p THEN b.values ELSE ValuesOf(Flat(cells), q)
  <2>1. q \in Seq(Name) /\ Has(t, q) /\ q # <<>>
    BY <1>3, <1>4, <1>6 DEF Has
  <2>2. Flat(new)[q] = Down(t, q).values
    BY <1>1, <1>2, <1>6, <2>1, FlatIs
  <2>3. ValuesOf(Flat(cells), q) = Down(c, q).values
    BY <1>0, <2>1, FlatIs DEF c
  <2> QED BY <1>1, <2>1, <2>2, <2>3
<1>7. Begins(p, p)
  BY DEF Begins
<1>8. Gains(cells, p, new)
  BY <1>0, <1>1, <1>2, <1>5, <1>7 DEF c, Gains
<1>9. Flat(new) = [q \in DOMAIN Flat(new) |-> Flat(new)[q]]
  BY DEF Flat
<1>10. Flat(new) = [q \in DOMAIN Flat(new) |-> IF q = p THEN b.values ELSE ValuesOf(Flat(cells), q)]
  BY <1>6, <1>9
<1> QED BY <1>8, <1>10
-----------------------------------------------------------------------------
(***************************************************************************)
(* Names that are in a set.                                                *)
(***************************************************************************)
Keeps(names, set, o) ==
  o = [n \in 0 .. Len(names) |->
         IF n = 0 THEN <<>> ELSE IF names[n] \in set THEN Append(o[n - 1], names[n]) ELSE o[n - 1]]
Among(names, set, n) == {x \in set : \E i \in 1 .. n : x = names[i]}
OneEach(names) == \A i, j \in DOMAIN names : names[i] = names[j] => i = j

\* There is what is kept of the first n of them.
LEMMA KeepsExists ==
  ASSUME NEW set
  PROVE  \A names \in Seq(Name) : \E o : Keeps(names, set, o)
<1> DEFINE Q == {names \in Seq(Name) : \E o : Keeps(names, set, o)}
<1>1. <<>> \in Q
  <2>1. Keeps(<<>>, set, [n \in 0 .. 0 |-> <<>>])
    BY DEF Keeps
  <2> QED BY <2>1
<1>2. ASSUME NEW names \in Seq(Name), NEW m \in Name, names \in Q PROVE Append(names, m) \in Q
  <2>1. PICK o : Keeps(names, set, o)
    BY <1>2
  <2> DEFINE k == Len(names)
             P == Append(names, m)
  <2>2. /\ k \in Nat /\ P \in Seq(Name) /\ Len(P) = k + 1 /\ P[k + 1] = m
        /\ \A i \in 1 .. k : P[i] = names[i]
    BY NameAppended
  <2> DEFINE Next1(n, before, name) ==
               IF n = 0 THEN <<>> ELSE IF name \in set THEN Append(before, name) ELSE before
             g == [n \in 0 .. k + 1 |-> IF n = k + 1 THEN Next1(n, o[k], m) ELSE o[n]]
  <2>3. \A n \in 0 .. k : o[n] = Next1(n, o[n - 1], names[n])
    BY <2>1 DEF Keeps
  <2> HIDE DEF P, k, Q, Next1
  <2>4. \A n \in 0 .. k + 1 : g[n] = Next1(n, g[n - 1], P[n])
    <3> SUFFICES ASSUME NEW n \in 0 .. k + 1 PROVE g[n] = Next1(n, g[n - 1], P[n])
      OBVIOUS
    <3>1. CASE n = k + 1
      <4>1. n # 0 /\ g[n] = Next1(n, o[k], m) /\ g[n - 1] = o[k] /\ P[n] = m
        BY <2>2, <3>1
      <4> QED BY <4>1
    <3>2. CASE n # k + 1
      <4>1. n \in 0 .. k /\ g[n] = o[n] /\ (n # 0 => g[n - 1] = o[n - 1] /\ P[n] = names[n])
        BY <2>2, <3>2
      <4> HIDE DEF g
      <4>2. CASE n = 0
        BY <4>1, <4>2, <2>3 DEF Next1
      <4>3. CASE n # 0
        BY <4>1, <4>3, <2>3
      <4> QED BY <4>2, <4>3
    <3> QED BY <3>1, <3>2
  <2>5. g = [n \in 0 .. k + 1 |-> g[n]]
    OBVIOUS
  <2> HIDE DEF g
  <2>6. Keeps(P, set, g)
    BY <2>2, <2>4, <2>5, ZenonT(60) DEF Keeps, Next1
  <2> QED BY <2>2, <2>6 DEF P, Q
<1> HIDE DEF Q
<1>3. \A names \in Seq(Name) : names \in Q
  BY <1>1, <1>2, SeqInduction
<1> QED BY <1>3 DEF Q

\* What is kept of the first n is those of them that are in the set; as many, if each
\* is there once.
LEMMA KeepsAre ==
  ASSUME NEW names \in Seq(Name), NEW set, NEW o, Keeps(names, set, o)
  PROVE  \A n \in 0 .. Len(names) :
           /\ o[n] \in Seq(Name) /\ Range(o[n]) = Among(names, set, n) /\ IsFiniteSet(Among(names, set, n))
           /\ OneEach(names) => Len(o[n]) = Cardinality(Among(names, set, n))
<1> DEFINE I(n) == /\ o[n] \in Seq(Name) /\ Range(o[n]) = Among(names, set, n)
                   /\ IsFiniteSet(Among(names, set, n))
                   /\ OneEach(names) => Len(o[n]) = Cardinality(Among(names, set, n))
           N == {n \in Nat : n <= Len(names) => I(n)}
<1>0. /\ Len(names) \in Nat
      /\ \A n \in 0 .. Len(names) :
           o[n] = IF n = 0 THEN <<>>
                  ELSE IF names[n] \in set THEN Append(o[n - 1], names[n]) ELSE o[n - 1]
  <2>1. Len(names) \in Nat
    OBVIOUS
  <2>2. Keeps(names, set, o)
    OBVIOUS
  <2> QED BY ONLY <2>1, <2>2 DEF Keeps
<1>1. 0 \in N
  <2>1. o[0] = <<>> /\ Among(names, set, 0) = {}
    BY <1>0 DEF Among
  <2>2. Range(<<>>) = {} /\ <<>> \in Seq(Name) /\ Len(<<>>) = 0
    BY DEF Range
  <2>3. IsFiniteSet({}) /\ Cardinality({}) = 0
    BY FS_EmptySet
  <2> QED BY <2>1, <2>2, <2>3
<1>2. ASSUME NEW n \in N PROVE n + 1 \in N
  <2> SUFFICES ASSUME n + 1 <= Len(names) PROVE I(n + 1)
    OBVIOUS
  <2>1. n \in Nat /\ n + 1 \in 0 .. Len(names) /\ n + 1 # 0 /\ (n + 1) - 1 = n /\ n <= Len(names)
    BY <1>0
  <2>2. I(n)
    BY <2>1
  <2> DEFINE x == names[n + 1]
             s == o[n]
             A == Among(names, set, n)
             B == Among(names, set, n + 1)
  <2>3. x \in Name
    BY <2>1
  <2> HIDE DEF N
  <2>4. o[n + 1] = IF x \in set THEN Append(s, x) ELSE s
    BY <1>0, <2>1
  <2>5. B = IF x \in set THEN A \cup {x} ELSE A
    BY <2>1 DEF Among
  <2>6. x \in A => ~OneEach(names)
    <3>1. ASSUME x \in A PROVE ~OneEach(names)
      <4>1. PICK i \in 1 .. n : names[n + 1] = names[i]
        BY <3>1 DEF Among
      <4>2. i \in DOMAIN names /\ n + 1 \in DOMAIN names /\ i # n + 1
        BY <2>1
      <4> QED BY <4>1, <4>2 DEF OneEach
    <3> QED BY <3>1
  <2>7. s \in Seq(Name) /\ Range(s) = A /\ IsFiniteSet(A) /\ (OneEach(names) => Len(s) = Cardinality(A))
    BY <2>2
  <2> HIDE DEF x, s, A, B
  <2>8. CASE x \notin set
    BY <2>4, <2>5, <2>7, <2>8 DEF B
  <2>9. CASE x \in set
    <3>1. /\ Append(s, x) \in Seq(Name) /\ Len(Append(s, x)) = Len(s) + 1
          /\ Append(s, x)[Len(s) + 1] = x /\ \A i \in 1 .. Len(s) : Append(s, x)[i] = s[i]
          /\ Len(s) \in Nat
      BY <2>3, <2>7, NameAppended
    <3>2. Range(Append(s, x)) = Range(s) \cup {x}
      <4> DEFINE u == Append(s, x)
      <4>1. DOMAIN u = 1 .. Len(s) + 1 /\ DOMAIN s = 1 .. Len(s)
        BY <2>7, <3>1
      <4>2. \A i \in 1 .. Len(s) : u[i] = s[i]
        BY <3>1
      <4>3. u[Len(s) + 1] = x
        BY <3>1
      <4> HIDE DEF u
      <4> QED BY <3>1, <4>1, <4>2, <4>3 DEF Range, u
    <3>3. IsFiniteSet(A \cup {x}) /\ (x \notin A => Cardinality(A \cup {x}) = Cardinality(A) + 1)
      BY <2>7, FS_AddElement
    <3> QED BY <2>4, <2>5, <2>6, <2>7, <2>9, <3>1, <3>2, <3>3 DEF B
  <2> QED BY <2>8, <2>9
<1>3. \A n \in Nat : n \in N
  <2> HIDE DEF N
  <2> QED BY <1>1, <1>2, SetInduction
<1> QED BY <1>0, <1>3

\* Only keeps those that are in the set.
LEMMA OnlyAre ==
  ASSUME NEW names \in Seq(Name), NEW set
  PROVE  /\ Only(names, set) \in Seq(Name) /\ Range(Only(names, set)) = set \cap Range(names)
         /\ OneEach(names) => Len(Only(names, set)) = Cardinality(set \cap Range(names))
<1> DEFINE g == CHOOSE o : Keeps(names, set, o)
<1>1. Keeps(names, set, g)
  BY KeepsExists
<1>2. Only(names, set) = g[Len(names)]
  BY DEF Only, Keeps
<1> HIDE DEF g
<1>3. Len(names) \in 0 .. Len(names)
  OBVIOUS
<1>4. Among(names, set, Len(names)) = set \cap Range(names)
  BY DEF Among, Range
<1>5. /\ g[Len(names)] \in Seq(Name) /\ Range(g[Len(names)]) = Among(names, set, Len(names))
      /\ OneEach(names) => Len(g[Len(names)]) = Cardinality(Among(names, set, Len(names)))
  BY <1>1, <1>3, KeepsAre
<1> QED BY <1>2, <1>4, <1>5
-----------------------------------------------------------------------------
(***************************************************************************)
(* The calls that change the tree.                                         *)
(***************************************************************************)
\* add_value: the map has one value more or anew, and the keys above it.
LEMMA ValueAdded ==
  ASSUME NEW cells, GoodTree(Tree(cells)), NEW p \in Seq(Name), p # <<>>, Len(p) <= MaxFrames,
         NEW n, NEW data, data # [is |-> "missing"], NEW new,
         new = add_value(Tree(cells), p, n, data).keys
  PROVE  Gains(cells, p, new) /\ Flat(new) = Added(Flat(cells), p, n, data)
<1> DEFINE o == Down(Tree(cells), p)
<1>1. IsCell(o) /\ GoodValues(o.values)
  BY DEF GoodTree, GoodCell
<1>2. ValuesOf(Flat(cells), p) = o.values
  BY FlatIs
<1>3. PICK b : b = [o EXCEPT !.values = Put(@, n, data)]
  OBVIOUS
<1>4. new = Grown(Tree(cells), p, b).keys
  BY <1>3 DEF add_value
<1> HIDE DEF o
<1>5. IsCell(b) /\ b.keys = o.keys /\ b.values = Put(o.values, n, data)
  BY <1>1, <1>3 DEF IsCell
<1>6. GoodValues(Put(o.values, n, data))
  BY <1>1 DEF GoodValues, Put
<1>7. Puts(cells, p, b, new)
  BY <1>4, <1>5, <1>6 DEF Puts, o
<1>8. /\ Gains(cells, p, new)
      /\ Flat(new) = [q \in DOMAIN Flat(new) |-> IF q = p THEN b.values ELSE ValuesOf(Flat(cells), q)]
  BY <1>7, FlatGrown
<1>9. DOMAIN Flat(new) = DOMAIN Flat(cells) \cup Above(p)
  BY <1>8 DEF Gains
<1>10. Flat(new) = Added(Flat(cells), p, n, data)
  BY <1>2, <1>5, <1>8, <1>9 DEF Added
<1> QED BY <1>8, <1>10

\* A call of add_key: the map has one key more, if it is new, and loses nothing.
LEMMA KeyAdded ==
  ASSUME NEW cells, GoodTree(Tree(cells)), NEW p \in Seq(Name), p # <<>>, Len(p) <= MaxFrames,
         NEW new, new = WithKey(Tree(cells), p).keys
  PROVE  Gains(cells, p, new) /\ Flat(new) = [q \in DOMAIN Flat(new) |-> ValuesOf(Flat(cells), q)]
<1>0. PICK o : o = Down(Tree(cells), p)
  OBVIOUS
<1>1. IsCell(o) /\ GoodValues(o.values)
  BY <1>0 DEF GoodTree, GoodCell
<1>2. ValuesOf(Flat(cells), p) = o.values
  BY <1>0, FlatIs
<1>3. new = Grown(Tree(cells), p, o).keys
  BY <1>0 DEF WithKey
<1>4. Puts(cells, p, o, new)
  BY <1>0, <1>1, <1>3 DEF Puts
<1>5. /\ Gains(cells, p, new)
      /\ Flat(new) = [q \in DOMAIN Flat(new) |-> IF q = p THEN o.values ELSE ValuesOf(Flat(cells), q)]
  BY <1>4, FlatGrown
<1>6. Flat(new) = [q \in DOMAIN Flat(new) |-> ValuesOf(Flat(cells), q)]
  BY <1>2, <1>5
<1> QED BY <1>5, <1>6

\* A tree with no hive.
LEMMA TreeNone == GoodTree(Tree(None))
<1>1. Tree(None) = NewCell
  BY DEF Tree, NewCell
<1> DEFINE Q == {q \in Seq(Name) : Down(NewCell, q) = NewCell}
<1>2. <<>> \in Q
  <2>1. <<>> \in Seq(Name)
    OBVIOUS
  <2> QED BY <2>1, DownEmpty
<1>3. ASSUME NEW q \in Seq(Name), NEW m \in Name, q \in Q PROVE Append(q, m) \in Q
  <2>1. Down(NewCell, Append(q, m)) = Entry(NewCell.keys, m)
    BY <1>3, DownAppend
  <2>2. Entry(NewCell.keys, m) = NewCell
    BY NewCellIs DEF Entry
  <2> QED BY <2>1, <2>2, NameAppended
<1> HIDE DEF Q
<1>4. \A q \in Seq(Name) : q \in Q
  BY <1>2, <1>3, SeqInduction
<1>5. \A n : GoodCell(NewCell, n)
  BY NewCellIs DEF GoodCell, GoodValues
<1> QED BY <1>1, <1>4, <1>5 DEF GoodTree, Q

\* One with hives that are new.
LEMMA TreeHives ==
  ASSUME NEW H, H \subseteq Name, NEW cells, cells = [h \in H |-> NewCell]
  PROVE  GoodTree(Tree(cells))
<1> DEFINE c == Tree(cells)
           Q == {q \in Seq(Name) : q # <<>> => Down(c, q) = NewCell}
<1>1. c.keys = cells /\ IsCell(c) /\ c.values = None
  BY DEF Tree, IsCell
<1> HIDE DEF c
<1>2. <<>> \in Q
  OBVIOUS
<1>3. ASSUME NEW q \in Seq(Name), NEW m \in Name, q \in Q PROVE Append(q, m) \in Q
  <2>1. Down(c, Append(q, m)) = Entry(Down(c, q).keys, m)
    BY <1>3, DownAppend
  <2>2. Entry(NewCell.keys, m) = NewCell
    BY NewCellIs DEF Entry
  <2>3. Entry(cells, m) = NewCell
    BY DEF Entry
  <2>4. q = <<>> => Down(c, q).keys = cells
    BY <1>1, DownEmpty
  <2>5. q # <<>> => Down(c, q) = NewCell
    BY <1>3
  <2>6. Down(c, Append(q, m)) = NewCell
    BY <2>1, <2>2, <2>3, <2>4, <2>5
  <2> QED BY <2>6, NameAppended
<1> HIDE DEF Q
<1>4. \A q \in Seq(Name) : q \in Q
  BY <1>2, <1>3, SeqInduction
<1>5. \A n : GoodCell(NewCell, n)
  BY NewCellIs DEF GoodCell, GoodValues
<1>6. GoodCell(c, 0)
  <2>1. DOMAIN c.keys = H
    BY <1>1
  <2>2. 0 < MaxFrames
    BY TreeAssumption
  <2>3. GoodValues(c.values)
    BY <1>1 DEF GoodValues, None
  <2> QED BY <1>1, <2>1, <2>2, <2>3 DEF GoodCell
<1>7. Down(c, <<>>) = c
  BY DownEmpty
<1>8. ASSUME NEW q \in Seq(Name) PROVE GoodCell(Down(c, q), Len(q))
  <2>1. CASE q = <<>>
    <3>1. Len(<<>>) = 0
      OBVIOUS
    <3> QED BY <1>6, <1>7, <2>1, <3>1
  <2>2. CASE q # <<>>
    BY <1>4, <1>5, <2>2 DEF Q
  <2> QED BY <2>1, <2>2
<1> QED BY <1>8 DEF GoodTree, c

\* And the one a registry begins with.
LEMMA TreeBasic == GoodTree(Tree(Basic))
<1> DEFINE H == [h \in {"HKLM", "HKU"} |-> NewCell]
           p == <<"HKU", "S-u", "V">>
<1>1. "HKLM" \in Name /\ "HKU" \in Name /\ "S-u" \in Name /\ "V" \in Name
  BY DEF Name
<1>2. p \in Seq(Name) /\ p # <<>> /\ Len(p) = 3
  BY <1>1
<1>3. [is |-> "text", val |-> "home"] # [is |-> "missing"]
  BY Z3
<1>4. Basic = add_value(Tree(H), p, "v", [is |-> "text", val |-> "home"]).keys
  BY DEF Basic
<1>5. MaxFrames \in Nat /\ MaxFrames > 2
  BY TreeAssumption
<1> HIDE DEF p
<1>6. GoodTree(Tree(H))
  <2>1. {"HKLM", "HKU"} \subseteq Name
    BY <1>1
  <2> QED BY <2>1, TreeHives
<1>7. Len(p) <= MaxFrames
  BY <1>2, <1>5
<1> HIDE DEF H
<1>8. PICK data : data = [is |-> "text", val |-> "home"]
  OBVIOUS
<1>9. data # [is |-> "missing"]
  BY <1>3, <1>8
<1>10. Basic = add_value(Tree(H), p, "v", data).keys
  BY <1>4, <1>8
<1>11. Gains(H, p, Basic)
  BY <1>2, <1>6, <1>7, <1>9, <1>10, ValueAdded
<1> QED BY <1>11 DEF Gains
-----------------------------------------------------------------------------
(***************************************************************************)
(* What is true of the tree, of the handles and of a call of add_key on its*)
(* way, after every step.                                                  *)
(***************************************************************************)
Adding == adding \notin {Idle, Aborted}
HandlesHold ==
  \A h \in DOMAIN cached :
    /\ cached[h] \in Seq(Name) /\ cached[h] # <<>>
    /\ Len(cached[h]) = 1 \/ Has(Tree(cell), cached[h])
AddingHolds ==
  /\ Adding => /\ adding.into \in Seq(Name) /\ adding.path \in Seq(Name) /\ adding.path # <<>>
               /\ Has(Tree(cell), adding.into)
  /\ adding # Idle => op.call = "add_key" /\ "h" \notin DOMAIN op
TreeHolds ==
  GoodTree(Tree(cell)) /\ counter \in Nat /\ HKU \in DOMAIN cached /\ HandlesHold /\ AddingHolds

\* The paths that are given are paths.
LEMMA PathsAreNames == \A p \in Seq(STRING) : p \in Seq(Name)
BY SeqMonotonic DEF Name

\* The key a value is written to, and that a path leads to.
LEMMA KeyOfIs ==
  ASSUME NEW p \in Seq(Name), p # <<>>
  PROVE  /\ KeyOf(p) \in Seq(Name) /\ KeyOf(p) # <<>> /\ KeyOf(p)[1] = p[1]
         /\ Last(p) # "" => KeyOf(p) = p
<1>1. Front(p) \in Seq(Name) /\ p = Append(Front(p), Last(p)) /\ Len(Front(p)) = Len(p) - 1
  BY FrontLast
<1>2. Len(p) \in Nat \ {0}
  BY FrontLast
<1>3. CASE Len(p) > 1 /\ Last(p) = ""
  <2> DEFINE f == Front(p)
  <2>a. Len(p) > 1
    BY <1>3, Zenon
  <2>b. KeyOf(p) = f
    BY <1>3, Zenon DEF KeyOf
  <2>0. f \in Seq(Name) /\ Len(f) > 0 /\ KeyOf(p) = f
    BY ONLY <1>1, <1>2, <2>a, <2>b
  <2>1. f[1] = p[1]
    <3>1. 1 \in 1 .. Len(p) - 1
      BY ONLY <1>2, <2>a
    <3> QED BY ONLY <3>1 DEF Front
  <2> HIDE DEF f
  <2>2. f # <<>>
    BY <2>0
  <2> QED BY <1>3, <2>0, <2>1, <2>2
<1>4. CASE ~(Len(p) > 1 /\ Last(p) = "")
  BY <1>4 DEF KeyOf
<1> QED BY <1>3, <1>4

\* A hive is there if the registry has it.
LEMMA HiveIs ==
  ASSUME NEW cells, NEW m \in Name
  PROVE  <<m>> \in Seq(Name) /\ (Has(Tree(cells), <<m>>) <=> m \in DOMAIN cells)
<1>1. <<>> \in Seq(Name) /\ <<m>> = Append(<<>>, m) /\ <<m>> \in Seq(Name)
  BY SingleSeq
<1>2. Has(Tree(cells), Append(<<>>, m)) <=> m \in DOMAIN Down(Tree(cells), <<>>).keys
  BY <1>1, HasAppend
<1>3. Down(Tree(cells), <<>>).keys = cells
  BY DownEmpty DEF Tree
<1> QED BY <1>1, <1>2, <1>3

\* Nothing is added as yet, and what an abort leaves has no path.
LEMMA IdleIs ==
  /\ Idle.path = Empty /\ Aborted.path = Empty
  /\ adding.path # Empty => Adding
BY DEF Idle, Aborted, Adding

\* It is so from the start.
LEMMA TreeInit == Init => TreeHolds
<1> SUFFICES ASSUME Init PROVE TreeHolds
  OBVIOUS
<1>1. GoodTree(Tree(cell))
  BY TreeNone, TreeBasic DEF Init
<1>2. counter \in Nat /\ HKU \in DOMAIN cached
  BY DEF Init
<1>3. HandlesHold
  <2>1. ASSUME NEW m \in Name PROVE <<m>> \in Seq(Name) /\ <<m>> # <<>> /\ Len(<<m>>) = 1
    OBVIOUS
  <2>2. \A h \in DOMAIN cached : \E m \in Name : cached[h] = <<m>>
    BY DEF Init, Name
  <2> QED BY <2>1, <2>2 DEF HandlesHold
<1>4. AddingHolds
  BY DEF Init, AddingHolds, Adding
<1> QED BY <1>1, <1>2, <1>3, <1>4 DEF TreeHolds

\* Handles and a call on its way still hold when the tree has gained something.
LEMMA HandlesStill ==
  ASSUME HandlesHold, NEW p, Gains(cell, p, cell'), UNCHANGED cached
  PROVE  HandlesHold'
<1>1. \A q \in Seq(Name) : Has(Tree(cell), q) => Has(Tree(cell'), q)
  BY DEF Gains
<1>2. \A h \in DOMAIN cached :
        /\ cached[h] \in Seq(Name) /\ cached[h] # <<>>
        /\ Len(cached[h]) = 1 \/ Has(Tree(cell), cached[h])
  BY DEF HandlesHold
<1>3. \A h \in DOMAIN cached :
        /\ cached[h] \in Seq(Name) /\ cached[h] # <<>>
        /\ Len(cached[h]) = 1 \/ Has(Tree(cell'), cached[h])
  BY <1>1, <1>2
<1> QED BY <1>3 DEF HandlesHold

\* add_value writes its value where it is told.
LEMMA AddValueStep ==
  ASSUME TreeHolds, NEW v \in Values, AddValue(v)
  PROVE  /\ Gains(cell, KeyOf(v.path), cell')
         /\ Flat(cell') = Added(Flat(cell), KeyOf(v.path), v.name, v.data)
<1>1. v.path \in Seq(STRING) \ {<<>>} /\ Len(KeyOf(v.path)) <= MaxFrames /\ v.data # [is |-> "missing"]
  BY TreeAssumption
<1>2. v.path \in Seq(Name) /\ v.path # <<>>
  BY <1>1, PathsAreNames
<1>3. KeyOf(v.path) \in Seq(Name) /\ KeyOf(v.path) # <<>>
  BY <1>2, KeyOfIs
<1>4. cell' = add_value(Tree(cell), KeyOf(v.path), v.name, v.data).keys /\ GoodTree(Tree(cell))
  BY DEF AddValue, TreeHolds
<1> QED BY <1>1, <1>3, <1>4, ValueAdded

\* A call of add_key makes its key, below one that is there.
LEMMA DeeperStep ==
  ASSUME TreeHolds, Deeper
  PROVE  /\ adding'.into \in Seq(Name) /\ Gains(cell, adding'.into, cell')
         /\ adding'.path \in Seq(Name) /\ adding'.path # <<>>
         /\ DOMAIN Flat(cell') = DOMAIN Flat(cell) \cup {adding'.into}
         /\ Flat(cell') = [q \in DOMAIN Flat(cell') |-> ValuesOf(Flat(cell), q)]
<1> DEFINE i == adding.into
           q == adding.path
           p == Append(i, q[1])
<1>1. Adding /\ Len(i) < MaxFrames
  BY IdleIs DEF Deeper
<1>2. i \in Seq(Name) /\ q \in Seq(Name) /\ q # <<>> /\ Has(Tree(cell), i)
  BY <1>1 DEF TreeHolds, AddingHolds
<1>3. q[1] \in Name
  BY <1>2
<1>4. p \in Seq(Name) /\ Len(p) = Len(i) + 1 /\ Len(i) \in Nat /\ p # <<>>
  BY <1>2, <1>3, NameAppended, FrontLastAppend
<1>5. GoodTree(Tree(cell)) /\ Len(p) <= MaxFrames
  BY <1>1, <1>4, TreeAssumption DEF TreeHolds
<1>6. cell' = WithKey(Tree(cell), p).keys /\ adding'.into = p
  BY DEF Deeper
<1>7. adding'.path \in Seq(Name) /\ adding'.path # <<>>
  <2>1. adding'.path = IF Len(q) = 1 THEN q ELSE Tail(q)
    BY DEF Deeper
  <2>2. Len(q) # 1 => Tail(q) \in Seq(Name) /\ Tail(q) # <<>>
    <3>1. Len(q) # 0
      BY <1>2
    <3>2. Tail(q) \in Seq(Name) /\ Len(Tail(q)) = Len(q) - 1 /\ Len(q) \in Nat
      BY <1>2, HeadTailProperties
    <3>3. PICK t : t = Tail(q)
      OBVIOUS
    <3>4. t \in Seq(Name) /\ Len(t) = Len(q) - 1
      BY <3>2, <3>3
    <3>5. Len(q) # 1 => t # <<>>
      <4>1. t = <<>> => Len(t) = 0
        OBVIOUS
      <4>2. PICK k \in Nat : k = Len(q)
        BY <3>2
      <4>3. Len(t) = k - 1 /\ k # 0
        BY <3>1, <3>4, <4>2
      <4>4. k # 1 => Len(t) # 0
        BY ONLY <4>2, <4>3
      <4> QED BY <4>1, <4>2, <4>4, Zenon
    <3> QED BY <3>3, <3>4, <3>5, Zenon
  <2> QED BY <1>2, <2>1, <2>2
<1> HIDE DEF p, i
<1>8. Gains(cell, p, cell') /\ Flat(cell') = [r \in DOMAIN Flat(cell') |-> ValuesOf(Flat(cell), r)]
  BY <1>4, <1>5, <1>6, KeyAdded
<1>9. Above(p) \subseteq DOMAIN Flat(cell) \cup {p} /\ p \in Above(p)
  <2>1. Above(p) = {r \in Seq(Name) : r # <<>> /\ Begins(r, p)}
    BY <1>4, AboveIs
  <2>2. Begins(p, p)
    BY DEF Begins
  <2>3. ASSUME NEW r \in Seq(Name), r # <<>>, Begins(r, p), r # p PROVE r \in DOMAIN Flat(cell)
    <3>1. Len(r) \in Nat /\ Len(r) # 0
      BY <2>3
    <3>2. Begins(r, i)
      <4>1. \A k \in 1 .. Len(i) : p[k] = i[k]
        BY <1>2, <1>3, NameAppended DEF p, i
      <4>2. Len(r) # Len(p)
        BY <1>4, <2>3 DEF Begins
      <4>3. Len(r) <= Len(i)
        BY <1>4, <2>3, <3>1, <4>2 DEF Begins
      <4> QED BY <1>4, <2>3, <3>1, <4>1, <4>3 DEF Begins
    <3>3. Has(Tree(cell), r)
      BY <1>2, <2>3, <3>2, HasAbove DEF i
    <3> QED BY <1>5, <2>3, <3>3, FlatIs
  <2> QED BY <1>4, <2>1, <2>2, <2>3
<1>10. DOMAIN Flat(cell') = DOMAIN Flat(cell) \cup Above(p)
  BY <1>8 DEF Gains
<1>11. DOMAIN Flat(cell') = DOMAIN Flat(cell) \cup {p}
  BY <1>9, <1>10
<1> QED BY <1>4, <1>6, <1>7, <1>8, <1>11

\* open_key of a key that is there gives out a handle that nobody has; of another, none.
LEMMA OpenStep ==
  ASSUME TreeHolds, NEW h \in HKCC .. MaxCounter, NEW name \in Opened, open_key(h, name)
  PROVE  /\ \/ UNCHANGED <<cached, counter>>
            \/ TestingRegistry!Opens(op'.h, op'.arg, reply'.val)
         /\ op'.call = "open_key" /\ counter' \in Nat /\ HKU \in DOMAIN cached' /\ HandlesHold'
<1>0. GoodTree(Tree(cell)) /\ counter \in Nat /\ HKU \in DOMAIN cached /\ HandlesHold
  BY DEF TreeHolds
<1>1. op' = [call |-> "open_key", h |-> h, arg |-> name] /\ cell' = cell /\ counter < MaxCounter
  BY DEF open_key
<1>2. op'.call = "open_key" /\ op'.h = h /\ op'.arg = name
  BY <1>1
<1>3. CASE h \in DOMAIN cached /\ contains(cached[h] \o name)
  <2> DEFINE p == cached[h] \o name
  <2>1. cached' = Put(cached, counter, p) /\ counter' = counter + 1 /\ reply' = Ok(counter)
    BY <1>3 DEF open_key
  <2>2. cached[h] \in Seq(Name) /\ cached[h] # <<>>
    BY <1>0, <1>3 DEF HandlesHold
  <2>3. name \in Seq(Name) /\ name # <<>>
    BY TreeAssumption, PathsAreNames
  <2>4. p \in Seq(Name) /\ p # <<>>
    <3>1. Len(name) > 0 /\ Len(name) \in Nat /\ Len(cached[h]) \in Nat
      BY <2>2, <2>3
    <3>2. p \in Seq(Name) /\ Len(p) = Len(cached[h]) + Len(name)
      BY <2>2, <2>3
    <3> HIDE DEF p
    <3> QED BY <3>1, <3>2
  <2>5. contains_key(Tree(cell), p)
    BY <1>3 DEF contains
  <2> HIDE DEF p
  <2>6. Has(Tree(cell), p)
    BY <2>4, <2>5 DEF Has
  <2>7. p \in DOMAIN Flat(cell)
    BY <1>0, <2>4, <2>6, FlatIs
  <2>8. reply'.val = counter
    BY <2>1 DEF Ok
  <2>9. counter \in 0 .. MaxCounter - 1
    BY <1>0, <1>1, TreeAssumption
  <2>10. TestingRegistry!Found(h, name)
    BY <1>3, <2>7 DEF TestingRegistry!Found, p
  <2>11. TestingRegistry!Free(counter)
    BY <2>9 DEF TestingRegistry!Free
  <2>12. TestingRegistry!Opens(h, name, counter)
    BY <2>1, <2>10, <2>11 DEF TestingRegistry!Opens, Put, p
  <2>13. HandlesHold'
    <3>1. \A k \in DOMAIN cached :
            /\ cached[k] \in Seq(Name) /\ cached[k] # <<>>
            /\ Len(cached[k]) = 1 \/ Has(Tree(cell), cached[k])
      BY <1>0 DEF HandlesHold
    <3>2. \A k \in DOMAIN cached' : cached'[k] = p \/ (k \in DOMAIN cached /\ cached'[k] = cached[k])
      BY <2>1 DEF Put
    <3>3. \A k \in DOMAIN cached' :
            /\ cached'[k] \in Seq(Name) /\ cached'[k] # <<>>
            /\ Len(cached'[k]) = 1 \/ Has(Tree(cell), cached'[k])
      BY <2>4, <2>6, <3>1, <3>2
    <3> QED BY <1>1, <3>3 DEF HandlesHold
  <2>14. HKU \in DOMAIN cached' /\ counter' \in Nat
    BY <1>0, <2>1 DEF Put
  <2> QED BY <1>2, <2>8, <2>12, <2>13, <2>14
<1>4. CASE ~(h \in DOMAIN cached /\ contains(cached[h] \o name))
  <2>1. UNCHANGED <<cached, counter>>
    BY <1>4 DEF open_key
  <2> QED BY <1>0, <1>1, <1>2, <2>1 DEF HandlesHold
<1> QED BY <1>3, <1>4

(* The calls that change nothing.                                          *)
AsksOf(h) ==
  \/ \E n \in Range(Sorted) : read_value(h, n)
  \/ enumerate_values(h) \/ enumerate_keys(h) \/ key_info(h)
  \/ \E pos \in 0 .. Len(Sorted) : key_at(h, pos) \/ value_at(h, pos)
AsksAny == list_users \/ From \/ \E h \in HKCC .. MaxCounter : AsksOf(h)

\* They are all the calls there are but those that write or open.
LEMMA NextIs ==
  ASSUME Next
  PROVE  \/ \E v \in Values : AddValue(v)
         \/ \E hive \in {"HKLM", "HKU"}, p \in KeyPaths : AddKey(hive, p)
         \/ Deeper \/ Overflow \/ AddKeyReturns
         \/ \E h \in HKCC .. MaxCounter, name \in Opened : open_key(h, name)
         \/ AsksAny
BY DEF Next, AddKeyStep, AsksAny, AsksOf

\* They leave all but the call and its answer as they are.
LEMMA AsksKeep ==
  ASSUME AsksAny
  PROVE  adding = Idle /\ UNCHANGED <<cell, cached, counter, adding>>
BY DEF AsksAny, AsksOf, list_users, From, read_value, enumerate_values, enumerate_keys, key_info,
       key_at, value_at, Asks

\* A call of add_key begins below a hive.
LEMMA AddKeyBegins ==
  ASSUME TreeHolds, NEW hive \in {"HKLM", "HKU"}, NEW p \in KeyPaths, AddKey(hive, p)
  PROVE  AddingHolds' /\ "h" \notin DOMAIN op' /\ op'.call = "add_key"
<1>1. adding' = [into |-> <<hive>>, path |-> p] /\ cell' = cell /\ hive \in DOMAIN cell
      /\ op' = [call |-> "add_key", arg |-> p]
  BY DEF AddKey
<1>2. hive \in Name
  BY DEF Name
<1>3. <<hive>> \in Seq(Name) /\ Has(Tree(cell), <<hive>>)
  BY <1>1, <1>2, HiveIs
<1>4. p \in Seq(Name) /\ p # <<>>
  BY TreeAssumption, PathsAreNames
<1>5. adding'.into = <<hive>> /\ adding'.path = p
  BY <1>1
<1>6. op'.call = "add_key" /\ "h" \notin DOMAIN op'
  BY <1>1
<1> QED BY <1>1, <1>3, <1>4, <1>5, <1>6 DEF AddingHolds, Adding

\* So it is after every step.
LEMMA TreeStep == TreeHolds /\ [Next]_vars => TreeHolds'
<1> SUFFICES ASSUME TreeHolds, [Next]_vars PROVE TreeHolds'
  OBVIOUS
<1>0. GoodTree(Tree(cell)) /\ counter \in Nat /\ HKU \in DOMAIN cached /\ HandlesHold /\ AddingHolds
  BY DEF TreeHolds
<1>1. ASSUME NEW v \in Values, AddValue(v) PROVE TreeHolds'
  <2>1. Gains(cell, KeyOf(v.path), cell')
    BY <1>1, AddValueStep
  <2>2. UNCHANGED <<cached, counter, adding>> /\ adding = Idle
    BY <1>1 DEF AddValue
  <2>3. HandlesHold'
    BY <1>0, <2>1, <2>2, HandlesStill
  <2>4. AddingHolds'
    BY <2>2 DEF AddingHolds, Adding
  <2>5. GoodTree(Tree(cell'))
    BY <2>1 DEF Gains
  <2> QED BY <1>0, <2>2, <2>3, <2>4, <2>5 DEF TreeHolds
<1>2. ASSUME NEW hive \in {"HKLM", "HKU"}, NEW p \in KeyPaths, AddKey(hive, p) PROVE TreeHolds'
  <2>1. AddingHolds'
    BY <1>2, AddKeyBegins
  <2>2. UNCHANGED <<cell, cached, counter>>
    BY <1>2 DEF AddKey
  <2> QED BY <1>0, <2>1, <2>2 DEF TreeHolds, HandlesHold
<1>3. CASE Deeper
  <2>1. /\ adding'.into \in Seq(Name) /\ Gains(cell, adding'.into, cell')
        /\ adding'.path \in Seq(Name) /\ adding'.path # <<>>
    BY <1>3, DeeperStep
  <2>2. UNCHANGED <<cached, counter, op, reply>> /\ Adding
    BY <1>3, IdleIs DEF Deeper
  <2>3. HandlesHold'
    BY <1>0, <2>1, <2>2, HandlesStill
  <2>4. GoodTree(Tree(cell')) /\ Has(Tree(cell'), adding'.into)
    BY <2>1 DEF Gains
  <2>5. op.call = "add_key" /\ "h" \notin DOMAIN op
    BY <1>0, <2>2 DEF AddingHolds, Adding
  <2>6. AddingHolds'
    BY <2>1, <2>2, <2>4, <2>5 DEF AddingHolds
  <2> QED BY <1>0, <2>2, <2>3, <2>4, <2>6 DEF TreeHolds
<1>4. CASE Overflow
  <2>1. adding' = Aborted /\ UNCHANGED <<cell, cached, counter, op, reply>> /\ Adding
    BY <1>4, IdleIs DEF Overflow
  <2>2. op.call = "add_key" /\ "h" \notin DOMAIN op
    BY <1>0, <2>1 DEF AddingHolds, Adding
  <2>3. AddingHolds'
    BY <2>1, <2>2 DEF AddingHolds, Adding
  <2> QED BY <1>0, <2>1, <2>3 DEF TreeHolds, HandlesHold
<1>5. CASE AddKeyReturns
  <2>1. adding' = Idle /\ UNCHANGED <<cell, cached, counter, op>>
    BY <1>5 DEF AddKeyReturns
  <2>2. AddingHolds'
    BY <2>1 DEF AddingHolds, Adding
  <2> QED BY <1>0, <2>1, <2>2 DEF TreeHolds, HandlesHold
<1>6. ASSUME NEW h \in HKCC .. MaxCounter, NEW name \in Opened, open_key(h, name) PROVE TreeHolds'
  <2>1. counter' \in Nat /\ HKU \in DOMAIN cached' /\ HandlesHold'
    BY <1>6, OpenStep
  <2>2. UNCHANGED <<cell, adding>> /\ adding = Idle
    BY <1>6 DEF open_key
  <2>3. AddingHolds'
    BY <2>2 DEF AddingHolds, Adding
  <2> QED BY <1>0, <2>1, <2>2, <2>3 DEF TreeHolds
<1>7. CASE AsksAny
  <2>1. adding = Idle /\ UNCHANGED <<cell, cached, counter, adding>>
    BY <1>7, AsksKeep
  <2>2. AddingHolds'
    BY <2>1 DEF AddingHolds, Adding
  <2> QED BY <1>0, <2>1, <2>2 DEF TreeHolds, HandlesHold
<1>8. CASE UNCHANGED vars
  BY <1>0, <1>8 DEF TreeHolds, HandlesHold, AddingHolds, Adding, vars
<1> QED BY <1>1, <1>2, <1>3, <1>4, <1>5, <1>6, <1>7, <1>8, NextIs

\* Every step is one that a Registry can take.
LEMMA StepIs == TreeHolds /\ Next => StepLike
<1> SUFFICES ASSUME TreeHolds, Next PROVE StepLike
  OBVIOUS
<1>1. ASSUME NEW v \in Values, AddValue(v) PROVE StepLike
  <2>1. Flat(cell') = Added(Flat(cell), KeyOf(v.path), v.name, v.data)
    BY <1>1, AddValueStep
  <2>2. op'.call = "add_value" /\ op'.arg = v /\ UNCHANGED <<cached, counter>>
    BY <1>1 DEF AddValue
  <2> QED BY <2>1, <2>2 DEF StepLike
<1>2. ASSUME NEW hive \in {"HKLM", "HKU"}, NEW p \in KeyPaths, AddKey(hive, p) PROVE StepLike
  BY <1>2 DEF AddKey, StepLike
<1>3. CASE Deeper
  <2>1. /\ DOMAIN Flat(cell') = DOMAIN Flat(cell) \cup {adding'.into}
        /\ Flat(cell') = [q \in DOMAIN Flat(cell') |-> ValuesOf(Flat(cell), q)]
    BY <1>3, DeeperStep
  <2>2. adding # Idle /\ UNCHANGED <<cached, counter>>
    BY <1>3, IdleIs DEF Deeper
  <2> QED BY <2>1, <2>2 DEF StepLike
<1>4. CASE Overflow \/ AddKeyReturns
  BY <1>4 DEF Overflow, AddKeyReturns, StepLike
<1>5. ASSUME NEW h \in HKCC .. MaxCounter, NEW name \in Opened, open_key(h, name) PROVE StepLike
  <2>1. UNCHANGED cell
    BY <1>5 DEF open_key
  <2>2. /\ UNCHANGED <<cached, counter>> \/ TestingRegistry!Opens(op'.h, op'.arg, reply'.val)
        /\ op'.call = "open_key"
    BY <1>5, OpenStep
  <2> QED BY <2>1, <2>2 DEF StepLike
<1>6. CASE AsksAny
  BY <1>6, AsksKeep DEF StepLike
<1> QED BY <1>1, <1>2, <1>3, <1>4, <1>5, <1>6, NextIs

(* What testing.rs keeps of its tree, its handles and an add_key on its way *)
(* is so after every step.                                                 *)
THEOREM TreeHoldsAlways == Spec => []TreeHolds
BY TreeInit, TreeStep, PTL DEF Spec

(* Every step of TestingRegistry is one that its map of keys takes.        *)
THEOREM StepsLikeAlways == Spec => StepsLikeRegistry
<1>1. TreeHolds /\ [Next]_vars => [StepLike]_vars
  BY StepIs
<1> QED BY <1>1, TreeHoldsAlways, PTL DEF Spec, StepsLikeRegistry
-----------------------------------------------------------------------------
(***************************************************************************)
(* What a call that changes nothing answers.                               *)
(***************************************************************************)
KeysAt(h) == Down(Tree(cell), KeyOf(cached[h])).keys
ValuesAt(h) == Down(Tree(cell), KeyOf(cached[h])).values
HasHive(h) == cached[h][1] \in DOMAIN cell

\* A handle is of a key that is there or of a hive that is not.
LEMMA HandleIs ==
  ASSUME TreeHolds, NEW h \in DOMAIN cached
  PROVE  /\ cached[h] \in DOMAIN Flat(cell) <=> HasHive(h)
         /\ ~HasHive(h) => DOMAIN KeysAt(h) = {} /\ DOMAIN ValuesAt(h) = {}
<1> DEFINE p == cached[h]
           c == Tree(cell)
<1>1. GoodTree(c) /\ p \in Seq(Name) /\ p # <<>> /\ (Len(p) = 1 \/ Has(c, p))
  BY DEF TreeHolds, HandlesHold
<1>2. p[1] \in Name /\ Len(p) \in Nat \ {0}
  BY <1>1
<1>3. <<p[1]>> \in Seq(Name) /\ (Has(c, <<p[1]>>) <=> p[1] \in DOMAIN cell)
  BY <1>2, HiveIs
<1>4. Begins(<<p[1]>>, p) /\ <<p[1]>> # <<>>
  BY <1>2 DEF Begins
<1>5. Len(p) = 1 => p = <<p[1]>>
  BY <1>1
<1>6. Has(c, p) => Has(c, <<p[1]>>)
  BY <1>1, <1>3, <1>4, HasAbove
<1>7. p \in DOMAIN Flat(cell) <=> Has(c, p)
  BY <1>1, FlatIs
<1> HIDE DEF p, c
<1>8. Has(c, p) <=> p[1] \in DOMAIN cell
  BY <1>1, <1>3, <1>5, <1>6
<1>9. ASSUME p[1] \notin DOMAIN cell PROVE Down(c, KeyOf(p)) = NewCell
  <2>1. Len(p) = 1 /\ ~Has(c, p)
    BY <1>1, <1>8, <1>9
  <2>2. KeyOf(p) = p
    BY <2>1 DEF KeyOf
  <2> QED BY <1>1, <2>1, <2>2, HasNot
<1> QED BY <1>7, <1>8, <1>9, NewCellIs DEF HasHive, KeysAt, ValuesAt, p, c

\* The names there are, in their order.
LEMMA SortedAreNames == Sorted \in Seq(Name) /\ OneEach(Sorted) /\ Range(Sorted) \subseteq Name
<1>1. Sorted \in Seq(Name) /\ OneEach(Sorted)
  BY TreeAssumption, PathsAreNames DEF OneEach
<1>2. \A i \in DOMAIN Sorted : Sorted[i] \in Name
  BY <1>1
<1> QED BY <1>1, <1>2 DEF Range

\* The names of a list, as many as there are.
LEMMA InIs ==
  ASSUME NEW map
  PROVE  /\ In(map) \in Seq(Name) /\ Len(In(map)) \in Nat
         /\ Range(In(map)) = DOMAIN map \cap Range(Sorted)
         /\ Len(In(map)) = Cardinality(DOMAIN map \cap Range(Sorted))
         /\ DOMAIN map = {} => Len(In(map)) = 0
<1>1. Sorted \in Seq(Name) /\ OneEach(Sorted)
  BY SortedAreNames
<1>2. /\ In(map) \in Seq(Name) /\ Range(In(map)) = DOMAIN map \cap Range(Sorted)
      /\ Len(In(map)) = Cardinality(DOMAIN map \cap Range(Sorted))
  BY <1>1, OnlyAre DEF In
<1>3. Len(In(map)) \in Nat
  BY <1>2
<1>4. ASSUME DOMAIN map = {} PROVE Len(In(map)) = 0
  <2>1. DOMAIN map \cap Range(Sorted) = {}
    BY <1>4
  <2> QED BY <1>2, <2>1, FS_EmptySet
<1> QED BY <1>2, <1>3, <1>4

\* What Registry says of a key with a name.
LEMMA RegistrySays ==
  ASSUME TreeHolds, NEW h \in DOMAIN cached, Last(cached[h]) # ""
  PROVE  /\ \A names : names \subseteq Range(Sorted) =>
              TestingRegistry!enumerate_keys(h, names) = DOMAIN KeysAt(h) \cap names
         /\ \A n : TestingRegistry!read_value(h, n) =
                     IF n \in DOMAIN ValuesAt(h) THEN ValuesAt(h)[n] ELSE TestingRegistry!Missing
         /\ \A n \in DOMAIN ValuesAt(h) : ValuesAt(h)[n] # TestingRegistry!Missing
<1> DEFINE p == cached[h]
           c == Tree(cell)
<1>1. GoodTree(c) /\ p \in Seq(Name) /\ p # <<>>
  BY DEF TreeHolds, HandlesHold
<1>2. KeyOf(p) = p
  BY <1>1, KeyOfIs
<1>3. KeysAt(h) = Down(c, p).keys /\ ValuesAt(h) = Down(c, p).values
  BY <1>2 DEF KeysAt, ValuesAt
<1>4. ASSUME NEW n \in Range(Sorted)
      PROVE  TestingRegistry!Found(h, <<n>>) <=> n \in DOMAIN KeysAt(h)
  <2>2. n \in Name
    BY SortedAreNames
  <2>3. p \o <<n>> = Append(p, n) /\ Append(p, n) \in Seq(Name)
    BY <1>1, <2>2, SingleSeq
  <2>4. Append(p, n) # <<>>
    BY <1>1, <2>2, FrontLastAppend
  <2>5. Has(c, Append(p, n)) <=> n \in DOMAIN Down(c, p).keys
    BY <1>1, <2>2, HasAppend
  <2>6. Append(p, n) \in DOMAIN Flat(cell) <=> Has(c, Append(p, n))
    BY <1>1, <2>3, <2>4, FlatIs
  <2> QED BY <1>3, <2>3, <2>5, <2>6 DEF TestingRegistry!Found
<1>5. ASSUME NEW names, names \subseteq Range(Sorted)
      PROVE  TestingRegistry!enumerate_keys(h, names) = DOMAIN KeysAt(h) \cap names
  BY <1>4, <1>5 DEF TestingRegistry!enumerate_keys
<1>6. /\ p \in DOMAIN Flat(cell) => Flat(cell)[p] = Down(c, p).values
      /\ p \notin DOMAIN Flat(cell) => Down(c, p).values = None
  BY <1>1, FlatIs DEF ValuesOf
<1>7. DOMAIN None = {}
  BY NewCellIs
<1>8. ASSUME NEW n
      PROVE  TestingRegistry!read_value(h, n) =
               IF n \in DOMAIN ValuesAt(h) THEN ValuesAt(h)[n] ELSE TestingRegistry!Missing
  BY <1>3, <1>6, <1>7 DEF TestingRegistry!read_value
<1>9. GoodValues(ValuesAt(h))
  BY <1>1, <1>3 DEF GoodTree, GoodCell
<1> QED BY <1>5, <1>8, <1>9 DEF GoodValues, TestingRegistry!Missing

(* ReadLikeRegistry of a call and an answer: by position, and by name.     *)
Positioned(o, r) ==
  LET names == In(IF o.call = "key_at" THEN KeysAt(o.h) ELSE ValuesAt(o.h))
  IN  /\ (r.is = "Ok") = (o.arg < Len(names))
      /\ r.is = "Ok" => r.val = names[o.arg + 1]
      /\ r = NoMoreData => o.arg > Len(names)
NamedAnswer(o, r) ==
  /\ o.call = "read_value" =>
       r = IF TestingRegistry!read_value(o.h, o.arg) = TestingRegistry!Missing THEN Err
           ELSE TestingRegistry!read_value(o.h, o.arg)
  /\ o.call \in {"enumerate_keys", "enumerate_values", "key_info", "list_users"} =>
       (r = Err) = (o.h \notin DOMAIN cached \/ cached[o.h] \notin DOMAIN Flat(cell))
  /\ o.call = "enumerate_keys" /\ r # Err =>
       Range(r.val) = TestingRegistry!enumerate_keys(o.h, Range(Sorted))
  /\ o.call = "list_users" /\ r # Err => Range(r.val) = TestingRegistry!enumerate_keys(o.h, Sid)
  /\ o.call = "key_info" /\ r # Err =>
       r.val.subkeys = Cardinality(TestingRegistry!enumerate_keys(o.h, Range(Sorted)))
Answers(o, r) ==
  /\ o.call \in {"key_at", "value_at"} /\ o.h \in DOMAIN cached => Positioned(o, r)
  /\ "h" \in DOMAIN o /\ Named(o.h) => NamedAnswer(o, r)

\* It is that, when the tree and the handles stay as they are.
LEMMA AnswersAre ==
  ASSUME cell' = cell, cached' = cached, Answers(op', reply')
  PROVE  ReadLikeRegistry'
<1>1. op'.call \in {"key_at", "value_at"} /\ op'.h \in DOMAIN cached => ListedByPosition'
  BY DEF Answers, Positioned, ListedByPosition, KeysAt, ValuesAt
<1>2. "h" \in DOMAIN op' /\ Named(op'.h) => NamedAnswer(op', reply')
  BY DEF Answers
<1> QED BY <1>1, <1>2
        DEF ReadLikeRegistry, NamedAnswer, Named, TestingRegistry!enumerate_keys,
            TestingRegistry!read_value, TestingRegistry!Found, TestingRegistry!Missing

\* Other calls are not asked what is there.
LEMMA NotAsked ==
  ASSUME op'.call \in {"add_value", "add_key", "open_key", "from"}
  PROVE  ReadLikeRegistry'
BY DEF ReadLikeRegistry

\* What the lists are that the answers are made of.
LEMMA GetIs ==
  ASSUME NEW h \in DOMAIN cached
  PROVE  /\ \A n : get_value(Path(h), n) = IF n \in DOMAIN ValuesAt(h) THEN ValuesAt(h)[n] ELSE Err
         /\ get_values(Path(h)) = IF HasHive(h) THEN Ok(In(ValuesAt(h))) ELSE Err
         /\ get_keys(Path(h)) = IF HasHive(h) THEN Ok(In(KeysAt(h))) ELSE Err
BY DEF get_value, get_values, get_keys, Path, ValuesAt, KeysAt, HasHive

\* An answer is an error or is not.
LEMMA OkIs ==
  /\ \A x : Ok(x) # Err /\ Ok(x).is = "Ok" /\ Ok(x).val = x
  /\ Err.is = "Err" /\ Panic.is = "panic" /\ NoMoreData.is = "NoMoreData"
BY DEF Ok, Err, Panic, NoMoreData

\* By position, each of a list is told, and no other.
LEMMA NthIs ==
  ASSUME NEW names \in Seq(Name), NEW pos \in Nat, NEW some \in BOOLEAN, ~some => Len(names) = 0,
         NEW list, list = (IF some THEN Ok(names) ELSE Err), NEW r, r = Nth(list, pos)
  PROVE  /\ (r.is = "Ok") = (pos < Len(names))
         /\ r.is = "Ok" => r.val = names[pos + 1]
         /\ r = NoMoreData => pos > Len(names)
<1>0. Len(names) \in Nat
  OBVIOUS
<1>1. CASE ~some
  <2>1. r = Err
    BY <1>1 DEF Nth
  <2>2. ~(pos < Len(names))
    BY <1>0, <1>1
  <2> QED BY <2>1, <2>2, OkIs
<1>2. CASE some /\ pos > Len(names)
  <2>1. list = Ok(names) /\ list # Err /\ list.val = names
    BY <1>2, OkIs
  <2>2. r = NoMoreData
    BY <1>2, <2>1 DEF Nth
  <2>3. ~(pos < Len(names))
    BY <1>0, <1>2
  <2> QED BY <1>2, <2>2, <2>3, OkIs
<1>3. CASE some /\ pos = Len(names)
  <2>1. list = Ok(names) /\ list # Err /\ list.val = names
    BY <1>3, OkIs
  <2>2. r = Panic
    BY <1>0, <1>3, <2>1 DEF Nth
  <2>3. ~(pos < Len(names))
    BY <1>0, <1>3
  <2> QED BY <2>2, <2>3, OkIs
<1>4. CASE some /\ pos < Len(names)
  <2>1. list = Ok(names) /\ list # Err /\ list.val = names
    BY <1>4, OkIs
  <2>2. r = Ok(names[pos + 1])
    BY <1>0, <1>4, <2>1 DEF Nth
  <2>3. r # NoMoreData
    BY <2>2, OkIs
  <2> QED BY <1>4, <2>2, <2>3, OkIs
<1> QED BY <1>0, <1>1, <1>2, <1>3, <1>4

\* So key_at and value_at tell them.
LEMMA PositionStep ==
  ASSUME TreeHolds, NEW h, NEW pos \in 0 .. Len(Sorted), key_at(h, pos) \/ value_at(h, pos)
  PROVE  Answers(op', reply')
<1>0. pos \in Nat
  BY SortedAreNames
<1>1. /\ op'.h = h /\ op'.arg = pos /\ op'.call \in {"key_at", "value_at"}
      /\ h \in DOMAIN cached =>
           reply' = Nth(IF op'.call = "key_at" THEN get_keys(Path(h)) ELSE get_values(Path(h)), pos)
  BY DEF key_at, value_at, Asks, If
<1>2. ASSUME h \in DOMAIN cached PROVE Positioned(op', reply')
  <2> DEFINE map == IF op'.call = "key_at" THEN KeysAt(h) ELSE ValuesAt(h)
             list == IF HasHive(h) THEN Ok(In(map)) ELSE Err
  <2>1. reply' = Nth(list, pos)
    BY <1>1, <1>2, GetIs
  <2>2. ~HasHive(h) => DOMAIN map = {}
    BY <1>2, HandleIs
  <2>3. op'.arg = pos /\ (IF op'.call = "key_at" THEN KeysAt(op'.h) ELSE ValuesAt(op'.h)) = map
    BY <1>1
  <2>4. HasHive(h) \in BOOLEAN
    BY DEF HasHive
  <2> HIDE DEF map
  <2>5. /\ In(map) \in Seq(Name) /\ (~HasHive(h) => Len(In(map)) = 0)
    BY <2>2, InIs
  <2>6. /\ (reply'.is = "Ok") = (pos < Len(In(map)))
        /\ reply'.is = "Ok" => reply'.val = In(map)[pos + 1]
        /\ reply' = NoMoreData => pos > Len(In(map))
    <3>1. PICK names : names = In(map)
      OBVIOUS
    <3>2. PICK some : some = HasHive(h)
      OBVIOUS
    <3>3. PICK r : r = reply'
      OBVIOUS
    <3>4. PICK l : l = list
      OBVIOUS
    <3>5. /\ names \in Seq(Name) /\ some \in BOOLEAN /\ (~some => Len(names) = 0)
          /\ l = (IF some THEN Ok(names) ELSE Err) /\ r = Nth(l, pos)
      BY <2>1, <2>4, <2>5, <3>1, <3>2, <3>3, <3>4
    <3>6. /\ (r.is = "Ok") = (pos < Len(names))
          /\ r.is = "Ok" => r.val = names[pos + 1]
          /\ r = NoMoreData => pos > Len(names)
      BY <1>0, <3>5, NthIs
    <3> QED BY <3>1, <3>3, <3>6
  <2> QED BY <2>3, <2>6 DEF Positioned
<1>3. NamedAnswer(op', reply')
  BY <1>1 DEF NamedAnswer
<1> QED BY <1>1, <1>2, <1>3 DEF Answers

\* read_value tells the value that Registry has.
LEMMA ReadStep ==
  ASSUME TreeHolds, NEW h, NEW n, read_value(h, n)
  PROVE  Answers(op', reply')
<1>1. /\ op'.h = h /\ op'.arg = n /\ op'.call = "read_value"
      /\ reply' = IF h \in DOMAIN cached THEN get_value(Path(h), n) ELSE Err
  BY DEF read_value, Asks, If
<1>2. ASSUME Named(h)
      PROVE  reply' = IF TestingRegistry!read_value(h, n) = TestingRegistry!Missing THEN Err
                      ELSE TestingRegistry!read_value(h, n)
  <2>1. CASE h \notin DOMAIN cached
    <3>1. TestingRegistry!read_value(h, n) = TestingRegistry!Missing
      BY <2>1 DEF TestingRegistry!read_value
    <3> QED BY <1>1, <2>1, <3>1
  <2>2. CASE h \in DOMAIN cached
    <3>1. Last(cached[h]) # ""
      BY <1>2, <2>2 DEF Named
    <3>2. /\ TestingRegistry!read_value(h, n) =
               IF n \in DOMAIN ValuesAt(h) THEN ValuesAt(h)[n] ELSE TestingRegistry!Missing
          /\ n \in DOMAIN ValuesAt(h) => ValuesAt(h)[n] # TestingRegistry!Missing
      BY <2>2, <3>1, RegistrySays
    <3>3. reply' = IF n \in DOMAIN ValuesAt(h) THEN ValuesAt(h)[n] ELSE Err
      BY <1>1, <2>2, GetIs
    <3> QED BY <3>2, <3>3
  <2> QED BY <2>1, <2>2
<1>3. ASSUME Named(h) PROVE NamedAnswer(op', reply')
  BY <1>1, <1>2, <1>3 DEF NamedAnswer
<1> QED BY <1>1, <1>3 DEF Answers

\* enumerate_values and enumerate_keys fail where Registry has no key, and list its keys.
LEMMA EnumerateStep ==
  ASSUME TreeHolds, NEW h, enumerate_values(h) \/ enumerate_keys(h)
  PROVE  Answers(op', reply')
<1>1. /\ op'.h = h /\ op'.call \in {"enumerate_values", "enumerate_keys"}
      /\ h \notin DOMAIN cached => reply' = Err
      /\ h \in DOMAIN cached =>
           reply' = IF op'.call = "enumerate_keys" THEN get_keys(Path(h)) ELSE get_values(Path(h))
  BY DEF enumerate_values, enumerate_keys, Asks, If
<1>2. (reply' = Err) = (h \notin DOMAIN cached \/ cached[h] \notin DOMAIN Flat(cell))
  <2>1. ASSUME h \in DOMAIN cached PROVE (reply' = Err) = ~HasHive(h)
    BY <1>1, <2>1, GetIs, OkIs
  <2> QED BY <1>1, <2>1, HandleIs
<1>3. ASSUME Named(h), op'.call = "enumerate_keys", reply' # Err
      PROVE  Range(reply'.val) = TestingRegistry!enumerate_keys(h, Range(Sorted))
  <2>1. h \in DOMAIN cached /\ Last(cached[h]) # ""
    BY <1>1, <1>3 DEF Named
  <2>2. TestingRegistry!enumerate_keys(h, Range(Sorted)) = DOMAIN KeysAt(h) \cap Range(Sorted)
    BY <2>1, RegistrySays
  <2>3. reply' = Ok(In(KeysAt(h)))
    BY <1>1, <1>3, <2>1, GetIs
  <2> QED BY <2>2, <2>3, InIs, OkIs
<1>4. ASSUME Named(h) PROVE NamedAnswer(op', reply')
  BY <1>1, <1>2, <1>3, <1>4 DEF NamedAnswer
<1> QED BY <1>1, <1>4 DEF Answers

\* list_users lists the keys of users.
LEMMA UsersStep ==
  ASSUME TreeHolds, list_users
  PROVE  Answers(op', reply')
<1>0. HKU \in DOMAIN cached
  BY DEF TreeHolds
<1>1. PICK keys : keys = get_keys(Path(HKU))
  OBVIOUS
<1>2. /\ op'.h = HKU /\ op'.call = "list_users"
      /\ reply' = IF keys = Err THEN Err ELSE Ok(Only(keys.val, Sid))
  BY <1>1 DEF list_users, Asks
<1>3. keys = IF HasHive(HKU) THEN Ok(In(KeysAt(HKU))) ELSE Err
  BY <1>0, <1>1, GetIs
<1>4. (reply' = Err) = (HKU \notin DOMAIN cached \/ cached[HKU] \notin DOMAIN Flat(cell))
  <2>1. (reply' = Err) = ~HasHive(HKU)
    BY <1>2, <1>3, OkIs
  <2> QED BY <1>0, <2>1, HandleIs
<1>5. ASSUME Named(HKU), reply' # Err PROVE Range(reply'.val) = TestingRegistry!enumerate_keys(HKU, Sid)
  <2>1. Last(cached[HKU]) # ""
    BY <1>0, <1>5 DEF Named
  <2>2. Sid \subseteq Range(Sorted)
    BY TreeAssumption
  <2>3. TestingRegistry!enumerate_keys(HKU, Sid) = DOMAIN KeysAt(HKU) \cap Sid
    BY <1>0, <2>1, <2>2, RegistrySays
  <2>4. PICK names : names = In(KeysAt(HKU))
    OBVIOUS
  <2>5. names \in Seq(Name) /\ Range(names) = DOMAIN KeysAt(HKU) \cap Range(Sorted)
    BY <2>4, InIs
  <2>6. reply' = Ok(Only(names, Sid))
    BY <1>2, <1>3, <1>5, <2>4, OkIs
  <2>7. Range(Only(names, Sid)) = Sid \cap Range(names)
    BY <2>5, OnlyAre
  <2> QED BY <2>2, <2>3, <2>5, <2>6, <2>7, OkIs
<1>6. ASSUME Named(HKU) PROVE NamedAnswer(op', reply')
  BY <1>2, <1>4, <1>5, <1>6 DEF NamedAnswer
<1> QED BY <1>2, <1>6 DEF Answers

\* key_info counts them.
LEMMA InfoStep ==
  ASSUME TreeHolds, NEW h, key_info(h)
  PROVE  Answers(op', reply')
<1>1. PICK keys : keys = get_keys(Path(h))
  OBVIOUS
<1>2. PICK values : values = get_values(Path(h))
  OBVIOUS
<1>3. /\ op'.h = h /\ op'.call = "key_info"
      /\ reply' = IF h \in DOMAIN cached THEN Info(keys, values) ELSE Err
  BY <1>1, <1>2 DEF key_info, Asks, If
<1>4. ASSUME h \in DOMAIN cached
      PROVE  /\ (reply' = Err) = ~HasHive(h)
             /\ HasHive(h) => reply'.val.subkeys = Len(In(KeysAt(h)))
  <2>1. keys = IF HasHive(h) THEN Ok(In(KeysAt(h))) ELSE Err
    BY <1>1, <1>4, GetIs
  <2>2. CASE ~HasHive(h)
    BY <1>3, <1>4, <2>1, <2>2 DEF Info
  <2>3. CASE HasHive(h)
    <3>1. keys # Err /\ keys.val = In(KeysAt(h))
      BY <2>1, <2>3, OkIs
    <3>2. PICK a, b, c : reply' = Ok([subkeys |-> Len(keys.val), max_subkey |-> a, values |-> b, max_value |-> c])
      BY <1>3, <1>4, <3>1 DEF Info
    <3> QED BY <2>3, <3>1, <3>2, OkIs
  <2> QED BY <2>2, <2>3
<1>5. (reply' = Err) = (h \notin DOMAIN cached \/ cached[h] \notin DOMAIN Flat(cell))
  BY <1>3, <1>4, HandleIs
<1>6. ASSUME Named(h), reply' # Err
      PROVE  reply'.val.subkeys = Cardinality(TestingRegistry!enumerate_keys(h, Range(Sorted)))
  <2>1. h \in DOMAIN cached /\ HasHive(h)
    BY <1>3, <1>4, <1>6
  <2>2. Last(cached[h]) # ""
    BY <1>6, <2>1 DEF Named
  <2>3. TestingRegistry!enumerate_keys(h, Range(Sorted)) = DOMAIN KeysAt(h) \cap Range(Sorted)
    BY <2>1, <2>2, RegistrySays
  <2> QED BY <1>4, <2>1, <2>3, InIs
<1>7. ASSUME Named(h) PROVE NamedAnswer(op', reply')
  BY <1>3, <1>5, <1>6, <1>7 DEF NamedAnswer
<1> QED BY <1>3, <1>7 DEF Answers

\* Every call is answered as Registry has it, and another call is none of those.
LEMMA AnsweredStep == TreeHolds /\ ReadLikeRegistry /\ [Next]_vars => ReadLikeRegistry'
<1> SUFFICES ASSUME TreeHolds, ReadLikeRegistry, [Next]_vars PROVE ReadLikeRegistry'
  OBVIOUS
<1>1. ASSUME NEW v \in Values, AddValue(v) PROVE ReadLikeRegistry'
  BY <1>1, NotAsked DEF AddValue
<1>2. ASSUME NEW hive \in {"HKLM", "HKU"}, NEW p \in KeyPaths, AddKey(hive, p) PROVE ReadLikeRegistry'
  BY <1>2, AddKeyBegins, NotAsked
<1>3. CASE Deeper \/ Overflow \/ AddKeyReturns
  <2>1. op' = op /\ adding # Idle
    BY <1>3, IdleIs DEF Deeper, Overflow, AddKeyReturns, Adding
  <2>2. op.call = "add_key"
    BY <2>1 DEF TreeHolds, AddingHolds
  <2> QED BY <2>1, <2>2, NotAsked
<1>4. ASSUME NEW h \in HKCC .. MaxCounter, NEW name \in Opened, open_key(h, name)
      PROVE  ReadLikeRegistry'
  BY <1>4, OpenStep, NotAsked
<1>5. CASE From
  BY <1>5, NotAsked DEF From, Asks
<1>6. CASE list_users
  <2>1. AsksAny
    BY <1>6 DEF AsksAny
  <2> QED BY <1>6, <2>1, AsksKeep, UsersStep, AnswersAre
<1>7. ASSUME NEW h \in HKCC .. MaxCounter, AsksOf(h) PROVE ReadLikeRegistry'
  <2>1. AsksAny
    BY <1>7 DEF AsksAny
  <2>2. cell' = cell /\ cached' = cached
    BY <2>1, AsksKeep
  <2>3. Answers(op', reply')
    BY <1>7, PositionStep, ReadStep, EnumerateStep, InfoStep DEF AsksOf
  <2> QED BY <2>2, <2>3, AnswersAre
<1>8. CASE UNCHANGED vars
  BY <1>8 DEF vars, ReadLikeRegistry, ListedByPosition, Named, TestingRegistry!enumerate_keys,
     TestingRegistry!read_value, TestingRegistry!Found, TestingRegistry!Missing
<1> QED BY <1>1, <1>2, <1>3, <1>4, <1>5, <1>6, <1>7, <1>8, NextIs DEF AsksAny

(* What is read through a handle is what Registry has.                     *)
THEOREM ReadLikeAlways == Spec => []ReadLikeRegistry
<1>1. Init => ReadLikeRegistry
  BY DEF Init, ReadLikeRegistry
<1> QED BY <1>1, AnsweredStep, TreeHoldsAlways, PTL DEF Spec
=============================================================================
