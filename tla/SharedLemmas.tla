----------------------------- MODULE SharedLemmas -----------------------------
(***************************************************************************)
(* What the proofs of several components rest on: induction over numbers   *)
(* and sequences, as facts about sets; what it shows of FlattenSeq, which  *)
(* SequencesExt defines by a recursion; and what the rewriting of          *)
(* KnownFolders comes to, for any variables.                               *)
(***************************************************************************)
EXTENDS KnownFolders, SequencesExt, FiniteSetTheorems, SequenceTheorems, TLAPS

(* Induction on sets of numbers and of sequences: a number that is missing *)
(* has one before it that is missing, and a finite set has no room for that.*)
LEMMA SetInduction ==
  ASSUME NEW S, 0 \in S, \A n \in S : n \in Nat => n + 1 \in S
  PROVE  \A n \in Nat : n \in S
<1> SUFFICES ASSUME NEW n \in Nat, n \notin S PROVE FALSE
  OBVIOUS
<1> DEFINE T == (0 .. n) \ S
<1> DEFINE f == [x \in T |-> x - 1]
<1>1. IsFiniteSet(T)
  <2>1. IsFiniteSet(0 .. n)
    BY FS_Interval
  <2> QED BY <2>1, FS_Subset
<1>2. f \in [T -> T \ {n}]
  OBVIOUS
<1>3. n \in T /\ (\A x, y \in T : f[x] = f[y] => x = y)
  OBVIOUS
<1> HIDE DEF T, f
<1>4. IsFiniteSet(T \ {n}) /\ Cardinality(T \ {n}) = Cardinality(T) - 1 /\ Cardinality(T) \in Nat
  BY <1>1, <1>3, FS_RemoveElement, FS_CardinalityType
<1>5. Cardinality(T \ {n}) < Cardinality(T)
  BY <1>4
<1>6. \E x, y \in T : x # y /\ f[x] = f[y]
  BY <1>1, <1>2, <1>4, <1>5, FS_PigeonHole
<1> QED BY <1>3, <1>6

\* Every nonempty set of naturals has a least element.
LEMMA Least ==
  ASSUME NEW S, S \subseteq Nat, S # {}
  PROVE  \E n \in S : \A m \in S : n <= m
<1> SUFFICES ASSUME \A n \in S : \E m \in S : m < n PROVE FALSE
  BY Z3
<1> DEFINE N == {n \in Nat : \A m \in 0 .. n : m \notin S}
<1>1. 0 \in N
  <2>1. 0 \notin S
    BY Z3
  <2> QED BY <2>1
<1>2. ASSUME NEW n \in N PROVE n + 1 \in N
  <2>1. n + 1 \notin S
    BY Z3
  <2> QED BY <2>1
<1> HIDE DEF N
<1>3. \A n \in Nat : n \in N
  BY <1>1, <1>2, SetInduction
<1>4. \A n \in Nat : n \notin S
  BY <1>3 DEF N
<1> QED BY <1>4

\* What the empty sequence has, and appending keeps, every sequence has.
LEMMA SeqInduction ==
  ASSUME NEW S, NEW Q, <<>> \in Q, \A s \in Seq(S), x \in S : s \in Q => Append(s, x) \in Q
  PROVE  \A s \in Seq(S) : s \in Q
<1> DEFINE N == {n \in Nat : \A s \in Seq(S) : Len(s) = n => s \in Q}
<1>1. 0 \in N
  OBVIOUS
<1>2. ASSUME NEW n \in N PROVE n + 1 \in N
  <2> SUFFICES ASSUME NEW s \in Seq(S), Len(s) = n + 1 PROVE s \in Q
    OBVIOUS
  <2> DEFINE t == SubSeq(s, 1, n)
  <2>1. t \in Seq(S) /\ Len(t) = n /\ s[n + 1] \in S
    OBVIOUS
  <2>2. s = Append(t, s[n + 1])
    OBVIOUS
  <2> HIDE DEF t
  <2> QED BY <2>1, <2>2
<1> HIDE DEF N
<1>3. \A n \in Nat : n \in N
  BY <1>1, <1>2, SetInduction
<1> QED BY <1>3 DEF N

(* A sequence of a single element.                                         *)
LEMMA SingleSeq ==
  ASSUME NEW S, NEW x \in S
  PROVE  /\ <<x>> \in Seq(S) /\ <<x>> = Append(<<>>, x) /\ <<>> \in Seq(S)
         /\ \A s \in Seq(S) : s \o <<x>> = Append(s, x) /\ Append(s, x) \in Seq(S)
OBVIOUS
-----------------------------------------------------------------------------
(* FlattenSeq, which is defined by a recursion over positions.             *)
Flattens(ss, f) == f = [i \in 1 .. Len(ss) |-> IF i = 1 THEN ss[i] ELSE f[i - 1] \o ss[i]]

\* A list of prefixes of a concatenation goes on by one.
LEMMA FlattensAppend ==
  ASSUME NEW S, NEW ss \in Seq(S), NEW s \in S, NEW f, Flattens(ss, f)
  PROVE  \E g : /\ Flattens(Append(ss, s), g)
                /\ g[Len(ss) + 1] = IF ss = <<>> THEN s ELSE f[Len(ss)] \o s
<1> DEFINE n == Len(ss)
<1> DEFINE g == [i \in 1 .. n + 1 |-> IF i = n + 1 THEN (IF i = 1 THEN s ELSE f[i - 1] \o s) ELSE f[i]]
<1>1. n \in Nat /\ Len(Append(ss, s)) = n + 1 /\ Append(ss, s)[n + 1] = s
      /\ \A i \in 1 .. n : Append(ss, s)[i] = ss[i]
  OBVIOUS
<1>2. \A i \in 1 .. n : f[i] = IF i = 1 THEN ss[i] ELSE f[i - 1] \o ss[i]
  BY DEF Flattens
<1>3. \A i \in 1 .. n + 1 : g[i] = IF i = 1 THEN Append(ss, s)[i] ELSE g[i - 1] \o Append(ss, s)[i]
  <2> SUFFICES ASSUME NEW i \in 1 .. n + 1
               PROVE g[i] = IF i = 1 THEN Append(ss, s)[i] ELSE g[i - 1] \o Append(ss, s)[i]
    OBVIOUS
  <2>1. CASE i = n + 1
    BY <1>1, <2>1
  <2>2. CASE i # n + 1
    <3>1. i \in 1 .. n /\ g[i] = f[i] /\ (i # 1 => g[i - 1] = f[i - 1])
      BY <1>1, <2>2
    <3> HIDE DEF g
    <3> QED BY <1>1, <1>2, <3>1
  <2> QED BY <2>1, <2>2
<1>4. Flattens(Append(ss, s), g)
  BY <1>1, <1>3, ZenonT(60) DEF Flattens
<1>5. g[n + 1] = IF ss = <<>> THEN s ELSE f[n] \o s
  BY <1>1
<1> HIDE DEF g
<1> QED BY <1>4, <1>5

\* So every sequence of sequences has one.
LEMMA FlattensExists ==
  ASSUME NEW S
  PROVE  \A ss \in Seq(S) : \E f : Flattens(ss, f)
<1> DEFINE Q == {ss \in Seq(S) : \E f : Flattens(ss, f)}
<1>1. <<>> \in Q
  <2>1. Flattens(<<>>, [i \in 1 .. 0 |-> 0])
    BY DEF Flattens
  <2> QED BY <2>1
<1>2. ASSUME NEW ss \in Seq(S), NEW s \in S, ss \in Q PROVE Append(ss, s) \in Q
  BY <1>2, FlattensAppend
<1> HIDE DEF Q
<1>3. \A ss \in Seq(S) : ss \in Q
  BY <1>1, <1>2, SeqInduction
<1> QED BY <1>3 DEF Q

\* It has only one.
LEMMA FlattensUnique ==
  ASSUME NEW S, NEW ss \in Seq(S), NEW f, NEW g, Flattens(ss, f), Flattens(ss, g)
  PROVE  f = g
<1> DEFINE N == {n \in Nat : n \in 1 .. Len(ss) => f[n] = g[n]}
<1>1. 0 \in N
  OBVIOUS
<1>2. ASSUME NEW n \in N PROVE n + 1 \in N
  <2> SUFFICES ASSUME n + 1 \in 1 .. Len(ss) PROVE f[n + 1] = g[n + 1]
    OBVIOUS
  <2>1. /\ f[n + 1] = IF n + 1 = 1 THEN ss[n + 1] ELSE f[(n + 1) - 1] \o ss[n + 1]
        /\ g[n + 1] = IF n + 1 = 1 THEN ss[n + 1] ELSE g[(n + 1) - 1] \o ss[n + 1]
    BY DEF Flattens
  <2> QED BY <2>1
<1> HIDE DEF N
<1>3. \A n \in Nat : n \in N
  BY <1>1, <1>2, SetInduction
<1>4. \A n \in 1 .. Len(ss) : f[n] = g[n]
  BY <1>3 DEF N
<1> QED BY <1>4 DEF Flattens

\* FlattenSeq is the last of it.
LEMMA FlattenIs ==
  ASSUME NEW S, NEW ss \in Seq(S), ss # <<>>, NEW f, Flattens(ss, f)
  PROVE  FlattenSeq(ss) = f[Len(ss)]
<1> DEFINE g == CHOOSE h : Flattens(ss, h)
<1>1. Flattens(ss, g)
  OBVIOUS
<1>2. FlattenSeq(ss) = g[Len(ss)]
  BY DEF FlattenSeq, Flattens
<1> HIDE DEF g
<1> QED BY <1>1, <1>2, FlattensUnique

\* Nothing concatenates to nothing.
LEMMA FlattenEmpty == FlattenSeq(<<>>) = <<>>
BY DEF FlattenSeq

\* One more sequence goes at the end, even of the first.
LEMMA FlattenAppends ==
  ASSUME NEW S, NEW ss \in Seq(S), NEW s \in S
  PROVE  FlattenSeq(Append(ss, s)) = IF ss = <<>> THEN s ELSE FlattenSeq(ss) \o s
<1>1. PICK f : Flattens(ss, f)
  BY FlattensExists
<1>2. PICK g : /\ Flattens(Append(ss, s), g)
               /\ g[Len(ss) + 1] = IF ss = <<>> THEN s ELSE f[Len(ss)] \o s
  BY <1>1, FlattensAppend
<1>3. Append(ss, s) \in Seq(S) /\ Len(Append(ss, s)) = Len(ss) + 1 /\ Append(ss, s) # <<>>
  BY AppendProperties
<1>4. FlattenSeq(Append(ss, s)) = g[Len(ss) + 1]
  BY <1>2, <1>3, FlattenIs
<1>5. ss # <<>> => FlattenSeq(ss) = f[Len(ss)]
  BY <1>1, FlattenIs
<1> QED BY <1>2, <1>4, <1>5

(* What it does with sequences of sequences.                               *)
LEMMA FlattenType ==
  ASSUME NEW S
  PROVE  \A ss \in Seq(Seq(S)) : FlattenSeq(ss) \in Seq(S)
<1> DEFINE Q == {ss \in Seq(Seq(S)) : FlattenSeq(ss) \in Seq(S)}
<1>1. <<>> \in Q
  <2>1. <<>> \in Seq(S) /\ <<>> \in Seq(Seq(S))
    OBVIOUS
  <2> QED BY <2>1, FlattenEmpty
<1>2. ASSUME NEW ss \in Seq(Seq(S)), NEW s \in Seq(S), ss \in Q PROVE Append(ss, s) \in Q
  <2>1. FlattenSeq(Append(ss, s)) = IF ss = <<>> THEN s ELSE FlattenSeq(ss) \o s
    BY FlattenAppends
  <2>2. FlattenSeq(Append(ss, s)) \in Seq(S)
    BY <1>2, <2>1
  <2>3. Append(ss, s) \in Seq(Seq(S))
    OBVIOUS
  <2> QED BY <2>2, <2>3
<1> HIDE DEF Q
<1>3. \A ss \in Seq(Seq(S)) : ss \in Q
  BY <1>1, <1>2, SeqInduction
<1> QED BY <1>3 DEF Q

\* One more sequence goes at the end.
LEMMA FlattenAppend ==
  ASSUME NEW S, NEW ss \in Seq(Seq(S)), NEW s \in Seq(S)
  PROVE  FlattenSeq(Append(ss, s)) = FlattenSeq(ss) \o s
<1>1. FlattenSeq(Append(ss, s)) = IF ss = <<>> THEN s ELSE FlattenSeq(ss) \o s
  BY FlattenAppends
<1>2. ss = <<>> => FlattenSeq(ss) \o s = s
  BY FlattenEmpty
<1> QED BY <1>1, <1>2

\* Concatenations of two lists follow one another.
LEMMA FlattenConcat ==
  ASSUME NEW S, NEW ss \in Seq(Seq(S))
  PROVE  \A tt \in Seq(Seq(S)) : FlattenSeq(ss \o tt) = FlattenSeq(ss) \o FlattenSeq(tt)
<1> DEFINE Q == {tt \in Seq(Seq(S)) : FlattenSeq(ss \o tt) = FlattenSeq(ss) \o FlattenSeq(tt)}
<1>0. FlattenSeq(ss) \in Seq(S)
  BY FlattenType
<1>1. <<>> \in Q
  <2>1. ss \o <<>> = ss /\ FlattenSeq(ss) \o <<>> = FlattenSeq(ss)
    BY <1>0
  <2>2. <<>> \in Seq(Seq(S))
    OBVIOUS
  <2> QED BY <2>1, <2>2, FlattenEmpty
<1>2. ASSUME NEW tt \in Seq(Seq(S)), NEW t \in Seq(S), tt \in Q PROVE Append(tt, t) \in Q
  <2>1. ss \o Append(tt, t) = Append(ss \o tt, t) /\ ss \o tt \in Seq(Seq(S))
    OBVIOUS
  <2>2. /\ FlattenSeq(Append(ss \o tt, t)) = FlattenSeq(ss \o tt) \o t
        /\ FlattenSeq(Append(tt, t)) = FlattenSeq(tt) \o t
    BY <2>1, FlattenAppend
  <2>3. FlattenSeq(tt) \in Seq(S)
    BY FlattenType
  <2>4. (FlattenSeq(ss) \o FlattenSeq(tt)) \o t = FlattenSeq(ss) \o (FlattenSeq(tt) \o t)
    BY <1>0, <2>3
  <2>5. FlattenSeq(ss \o Append(tt, t)) = FlattenSeq(ss) \o FlattenSeq(Append(tt, t))
    BY <1>2, <2>1, <2>2, <2>4
  <2>6. Append(tt, t) \in Seq(Seq(S))
    OBVIOUS
  <2> QED BY <2>5, <2>6
<1> HIDE DEF Q
<1>3. \A tt \in Seq(Seq(S)) : tt \in Q
  BY <1>1, <1>2, SeqInduction
<1> QED BY <1>3 DEF Q

\* One sequence alone is its own concatenation.
LEMMA FlattenSingle ==
  ASSUME NEW S, NEW s \in Seq(S)
  PROVE  FlattenSeq(<<s>>) = s
<1>1. <<s>> = Append(<<>>, s) /\ <<>> \in Seq(Seq(S))
  BY SingleSeq
<1>2. FlattenSeq(Append(<<>>, s)) = FlattenSeq(<<>>) \o s
  BY <1>1, FlattenAppend
<1> QED BY <1>1, <1>2, FlattenEmpty, ConcatEmptySeq
-----------------------------------------------------------------------------
(* The images of the elements of a sequence, one after the other.          *)
FlatMap(g, s) == FlattenSeq([i \in DOMAIN s |-> g[s[i]]])
Maps(g, S, T) == g \in [S -> Seq(T)]

\* No element, nothing mapped.
LEMMA FlatMapEmpty == ASSUME NEW g PROVE FlatMap(g, <<>>) = <<>>
<1>1. [i \in DOMAIN <<>> |-> g[<<>>[i]]] = <<>>
  OBVIOUS
<1> QED BY <1>1, FlattenEmpty DEF FlatMap

\* A sequence of images.
LEMMA MapType ==
  ASSUME NEW S, NEW T, NEW g \in [S -> T], NEW s \in Seq(S)
  PROVE  /\ [i \in DOMAIN s |-> g[s[i]]] \in Seq(T)
         /\ Len([i \in DOMAIN s |-> g[s[i]]]) = Len(s)
<1>1. \A i \in 1 .. Len(s) : g[s[i]] \in T
  OBVIOUS
<1>2. [i \in 1 .. Len(s) |-> g[s[i]]] \in Seq(T) /\ Len([i \in 1 .. Len(s) |-> g[s[i]]]) = Len(s)
  BY <1>1
<1> QED BY <1>2

\* The image of one more element goes at the end.
LEMMA MapAppend ==
  ASSUME NEW S, NEW T, NEW g \in [S -> T], NEW s \in Seq(S), NEW x \in S
  PROVE  [i \in DOMAIN Append(s, x) |-> g[Append(s, x)[i]]] = Append([i \in DOMAIN s |-> g[s[i]]], g[x])
<1> DEFINE m == [i \in DOMAIN s |-> g[s[i]]]
           n == [i \in DOMAIN Append(s, x) |-> g[Append(s, x)[i]]]
<1>1. /\ Append(s, x) \in Seq(S) /\ Len(Append(s, x)) = Len(s) + 1 /\ Len(s) \in Nat
      /\ \A i \in 1 .. Len(s) : Append(s, x)[i] = s[i]
      /\ Append(s, x)[Len(s) + 1] = x
  BY AppendProperties
<1>2. m \in Seq(T) /\ Len(m) = Len(s) /\ n \in Seq(T) /\ Len(n) = Len(s) + 1
  BY <1>1, MapType
<1>3. \A i \in 1 .. Len(s) : n[i] = m[i]
  BY <1>1
<1>4. n[Len(s) + 1] = g[x]
  BY <1>1
<1> HIDE DEF m, n
<1>5. /\ Append(m, g[x]) \in Seq(T) /\ Len(Append(m, g[x])) = Len(s) + 1
      /\ \A i \in 1 .. Len(s) : Append(m, g[x])[i] = m[i]
      /\ Append(m, g[x])[Len(s) + 1] = g[x]
  BY <1>2, AppendProperties
<1>6. n = Append(m, g[x])
  BY <1>1, <1>2, <1>3, <1>4, <1>5
<1> QED BY <1>6 DEF m, n

\* A sequence of elements, each mapped to a sequence, is a sequence.
LEMMA FlatMapType ==
  ASSUME NEW S, NEW T, NEW g, Maps(g, S, T), NEW s \in Seq(S)
  PROVE  FlatMap(g, s) \in Seq(T)
<1> DEFINE m == [i \in DOMAIN s |-> g[s[i]]]
<1>1. m \in Seq(Seq(T))
  BY MapType DEF Maps
<1> HIDE DEF m
<1>2. FlattenSeq(m) \in Seq(T)
  BY <1>1, FlattenType
<1> QED BY <1>2 DEF FlatMap, m

\* What one more element is mapped to goes at the end.
LEMMA FlatMapAppend ==
  ASSUME NEW S, NEW T, NEW g, Maps(g, S, T), NEW s \in Seq(S), NEW x \in S
  PROVE  FlatMap(g, Append(s, x)) = FlatMap(g, s) \o g[x]
<1>1. [i \in DOMAIN s |-> g[s[i]]] \in Seq(Seq(T)) /\ g[x] \in Seq(T)
  BY MapType DEF Maps
<1>2. FlattenSeq(Append([i \in DOMAIN s |-> g[s[i]]], g[x])) = FlattenSeq([i \in DOMAIN s |-> g[s[i]]]) \o g[x]
  BY <1>1, FlattenAppend
<1>3. [i \in DOMAIN Append(s, x) |-> g[Append(s, x)[i]]] = Append([i \in DOMAIN s |-> g[s[i]]], g[x])
  BY MapAppend DEF Maps
<1> QED BY <1>2, <1>3 DEF FlatMap

\* Two sequences are mapped one after the other.
LEMMA FlatMapConcat ==
  ASSUME NEW S, NEW T, NEW g, Maps(g, S, T), NEW s \in Seq(S), NEW u \in Seq(S)
  PROVE  FlatMap(g, s \o u) = FlatMap(g, s) \o FlatMap(g, u)
<1> DEFINE Q == {t \in Seq(S) : FlatMap(g, s \o t) = FlatMap(g, s) \o FlatMap(g, t)}
<1>0. FlatMap(g, s) \in Seq(T)
  BY FlatMapType
<1>1. <<>> \in Q
  <2>1. s \o <<>> = s /\ FlatMap(g, s) \o <<>> = FlatMap(g, s) /\ <<>> \in Seq(S)
    BY <1>0
  <2> QED BY <2>1, FlatMapEmpty
<1>2. ASSUME NEW t \in Seq(S), NEW x \in S, t \in Q PROVE Append(t, x) \in Q
  <2>1. s \o Append(t, x) = Append(s \o t, x) /\ s \o t \in Seq(S) /\ Append(t, x) \in Seq(S)
    OBVIOUS
  <2>2. /\ FlatMap(g, Append(s \o t, x)) = FlatMap(g, s \o t) \o g[x]
        /\ FlatMap(g, Append(t, x)) = FlatMap(g, t) \o g[x]
    <3> DEFINE st == s \o t
    <3>1. st \in Seq(S)
      BY <2>1
    <3> HIDE DEF st
    <3>2. FlatMap(g, Append(st, x)) = FlatMap(g, st) \o g[x]
      BY <3>1, FlatMapAppend
    <3> QED BY <3>2, FlatMapAppend DEF st
  <2>3. FlatMap(g, t) \in Seq(T) /\ g[x] \in Seq(T)
    BY FlatMapType DEF Maps
  <2>4. (FlatMap(g, s) \o FlatMap(g, t)) \o g[x] = FlatMap(g, s) \o (FlatMap(g, t) \o g[x])
    <3> DEFINE a == FlatMap(g, s)
               b == FlatMap(g, t)
               c == g[x]
    <3>1. a \in Seq(T) /\ b \in Seq(T) /\ c \in Seq(T)
      BY <1>0, <2>3
    <3> HIDE DEF a, b, c
    <3>2. (a \o b) \o c = a \o (b \o c)
      BY <3>1, ConcatAssociative, SMTT(60)
    <3> QED BY <3>2 DEF a, b, c
  <2>5. FlatMap(g, s \o Append(t, x)) = FlatMap(g, s) \o FlatMap(g, Append(t, x))
    BY <1>2, <2>1, <2>2, <2>4
  <2> QED BY <2>1, <2>5
<1> HIDE DEF Q
<1>3. \A t \in Seq(S) : t \in Q
  BY <1>1, <1>2, SeqInduction
<1> QED BY <1>3 DEF Q

(* Of a sequence of sequences, all at once or one after the other.         *)
LEMMA FlatMapNested ==
  ASSUME NEW S, NEW T, NEW g, Maps(g, S, T)
  PROVE  \A ss \in Seq(Seq(S)) :
           FlatMap(g, FlattenSeq(ss)) = FlatMap([s \in Seq(S) |-> FlatMap(g, s)], ss)
<1> DEFINE h == [s \in Seq(S) |-> FlatMap(g, s)]
<1> DEFINE Q == {ss \in Seq(Seq(S)) : FlatMap(g, FlattenSeq(ss)) = FlatMap(h, ss)}
<1>0. Maps(h, Seq(S), T) /\ \A s \in Seq(S) : h[s] = FlatMap(g, s)
  BY FlatMapType DEF Maps
<1> HIDE DEF h
<1>1. <<>> \in Q
  <2>1. <<>> \in Seq(Seq(S))
    OBVIOUS
  <2> QED BY <2>1, FlattenEmpty, FlatMapEmpty
<1>2. ASSUME NEW ss \in Seq(Seq(S)), NEW s \in Seq(S), ss \in Q PROVE Append(ss, s) \in Q
  <2>1. FlattenSeq(Append(ss, s)) = FlattenSeq(ss) \o s /\ FlattenSeq(ss) \in Seq(S)
    BY FlattenAppend, FlattenType
  <2>2. FlatMap(g, FlattenSeq(ss) \o s) = FlatMap(g, FlattenSeq(ss)) \o FlatMap(g, s)
    <3> DEFINE t == FlattenSeq(ss)
    <3>1. t \in Seq(S)
      BY <2>1
    <3> HIDE DEF t
    <3>2. FlatMap(g, t \o s) = FlatMap(g, t) \o FlatMap(g, s)
      BY <3>1, FlatMapConcat
    <3> QED BY <3>2 DEF t
  <2>3. FlatMap(h, Append(ss, s)) = FlatMap(h, ss) \o h[s]
    BY <1>0, FlatMapAppend
  <2>4. FlatMap(g, FlattenSeq(Append(ss, s))) = FlatMap(h, Append(ss, s))
    BY <1>0, <1>2, <2>1, <2>2, <2>3
  <2>5. Append(ss, s) \in Seq(Seq(S))
    OBVIOUS
  <2> QED BY <2>4, <2>5
<1> HIDE DEF Q
<1>3. \A ss \in Seq(Seq(S)) : ss \in Q
  BY <1>1, <1>2, SeqInduction
<1> QED BY <1>3 DEF Q, h
-----------------------------------------------------------------------------
(* Tuples of one and two, joined with a tuple of one: what a path of keys, *)
(* written at once, is part by part.                                       *)
LEMMA JoinedTwo ==
  ASSUME NEW S, NEW a \in S, NEW b \in S
  PROVE  <<a>> \o <<b>> = <<a, b>>
<1> DEFINE s == <<a>>
           t == <<b>>
           u == <<a, b>>
<1>1. /\ s \in Seq(S) /\ t \in Seq(S) /\ Len(s) = 1 /\ s[1] = a /\ Len(t) = 1 /\ t[1] = b
      /\ u \in Seq(S) /\ Len(u) = 2 /\ u[1] = a /\ u[2] = b
  OBVIOUS
<1> HIDE DEF s, t, u
<1>2. s \o t \in Seq(S) /\ Len(s \o t) = 2 /\ (s \o t)[1] = a /\ (s \o t)[2] = b
  BY <1>1, ConcatProperties
<1>3. \A i \in 1 .. 2 : (s \o t)[i] = u[i]
  BY <1>1, <1>2
<1>4. s \o t = u
  BY <1>1, <1>2, <1>3, SeqEqual
<1> QED  BY <1>4 DEF s, t, u

\* And of three.
LEMMA JoinedThree ==
  ASSUME NEW S, NEW a \in S, NEW b \in S, NEW c \in S
  PROVE  <<a, b>> \o <<c>> = <<a, b, c>>
<1> DEFINE s == <<a, b>>
           t == <<c>>
           u == <<a, b, c>>
<1>1. /\ s \in Seq(S) /\ t \in Seq(S) /\ Len(s) = 2 /\ s[1] = a /\ s[2] = b
      /\ Len(t) = 1 /\ t[1] = c
  OBVIOUS
<1>2. u \in Seq(S) /\ Len(u) = 3 /\ u[1] = a /\ u[2] = b /\ u[3] = c
  OBVIOUS
<1> HIDE DEF s, t, u
<1>3. /\ s \o t \in Seq(S) /\ Len(s \o t) = Len(s) + Len(t)
      /\ \A i \in 1 .. Len(s) + Len(t) :
           (s \o t)[i] = IF i <= Len(s) THEN s[i] ELSE t[i - Len(s)]
  <2>1. s \in Seq(S) /\ t \in Seq(S)
    BY <1>1
  <2> QED  BY <2>1, ConcatProperties, Zenon
<1>4. /\ Len(s \o t) = 3 /\ (s \o t)[1] = s[1] /\ (s \o t)[2] = s[2] /\ (s \o t)[3] = t[1]
  BY <1>1, <1>3
<1>5. \A i \in 1 .. 3 : (s \o t)[i] = u[i]
  BY <1>1, <1>2, <1>4
<1>6. s \o t = u
  BY <1>2, <1>3, <1>4, <1>5, SeqEqual
<1> QED  BY <1>6 DEF s, t, u
-----------------------------------------------------------------------------
(* The rewriting of KnownFolders: its steps, the last of them, and what a   *)
(* text that still leads says of the variables.                            *)

\* More variables in a row than there are come back to one of them.
LEMMA RoundAgain ==
  ASSUME NEW env, IsFiniteSet(DOMAIN env), NEW n \in Nat, NEW h \in [1 .. n -> DOMAIN env],
         Cardinality(DOMAIN env) < n,
         \A i \in 1 .. n - 1 : Leads(env[h[i]]) /\ VarOf[env[h[i]][1]] = h[i + 1],
         NEW txt, Leads(txt), VarOf[txt[1]] = h[1]
  PROVE  Circular(txt, env)
<1>1. PICK i, j \in 1 .. n : i < j /\ h[i] = h[j]
  <2>1. IsFiniteSet(1 .. n) /\ Cardinality(1 .. n) = n
    BY FS_Interval
  <2>2. \E x, y \in 1 .. n : x # y /\ h[x] = h[y]
    BY <2>1, FS_PigeonHole
  <2> QED BY <2>2
<1> DEFINE vs == {h[k] : k \in 1 .. j - 1}
<1>2. vs \in SUBSET DOMAIN env
  OBVIOUS
<1>3. VarOf[txt[1]] \in vs
  BY <1>1
<1>4. \A v \in vs : Leads(env[v]) /\ VarOf[env[v][1]] \in vs
  <2> SUFFICES ASSUME NEW k \in 1 .. j - 1
               PROVE Leads(env[h[k]]) /\ VarOf[env[h[k]][1]] \in vs
    OBVIOUS
  <2>1. Leads(env[h[k]]) /\ VarOf[env[h[k]][1]] = h[k + 1]
    OBVIOUS
  <2>2. h[k + 1] \in vs
    <3>1. CASE k + 1 = j
      <4>1. i \in 1 .. j - 1 /\ h[k + 1] = h[i]
        BY <1>1, <3>1
      <4> QED BY <4>1
    <3>2. CASE k + 1 # j
      BY <3>2
    <3> QED BY <3>1, <3>2
  <2> QED BY <2>1, <2>2
<1> QED BY <1>2, <1>3, <1>4 DEF Circular

-----------------------------------------------------------------------------
\* Rewritten, which is defined by a recursion: its steps, all of them, and the last.
Led(t, env) == Leads(t) /\ VarOf[t[1]] \in DOMAIN env
StepOf(t, env) ==
  IF Led(t, env) THEN env[VarOf[t[1]]] \o Tail(t) ELSE t
Steps(txt, env, last, r) == r = [n \in 0 .. last |-> IF n = 0 THEN txt ELSE StepOf(r[n - 1], env)]
LastOf(env) == Cardinality(DOMAIN env) + 1

\* There is a list of every prefix of the rewriting.
LEMMA StepsExist ==
  ASSUME NEW txt, NEW env
  PROVE  \A last \in Nat : \E r : Steps(txt, env, last, r)
<1> DEFINE N == {last \in Nat : \E r : Steps(txt, env, last, r)}
<1>1. 0 \in N
  <2> DEFINE r == [n \in 0 .. 0 |-> txt]
  <2>1. r = [n \in 0 .. 0 |-> IF n = 0 THEN txt ELSE StepOf(r[n - 1], env)]
    OBVIOUS
  <2> HIDE DEF r
  <2>2. Steps(txt, env, 0, r)
    BY <2>1 DEF Steps
  <2> QED BY <2>2
<1>2. ASSUME NEW k \in N PROVE k + 1 \in N
  <2>1. PICK r : Steps(txt, env, k, r)
    OBVIOUS
  <2> DEFINE q == [n \in 0 .. k + 1 |-> IF n = k + 1 THEN StepOf(r[k], env) ELSE r[n]]
  <2>2. \A n \in 0 .. k : r[n] = IF n = 0 THEN txt ELSE StepOf(r[n - 1], env)
    BY <2>1 DEF Steps
  <2>3. \A n \in 0 .. k + 1 : q[n] = IF n = 0 THEN txt ELSE StepOf(q[n - 1], env)
    <3> TAKE n \in 0 .. k + 1
    <3>1. CASE n = k + 1
      <4>1. n # 0 /\ n - 1 = k /\ q[n] = StepOf(r[k], env) /\ q[k] = r[k]
        BY <3>1
      <4> HIDE DEF q
      <4> QED BY <4>1
    <3>2. CASE n # k + 1
      <4>1. n \in 0 .. k /\ q[n] = r[n] /\ (n # 0 => q[n - 1] = r[n - 1])
        BY <3>2
      <4> HIDE DEF q
      <4> QED BY <2>2, <4>1
    <3> QED BY <3>1, <3>2
  <2>4. q = [n \in 0 .. k + 1 |-> q[n]]
    OBVIOUS
  <2> HIDE DEF q
  <2>5. Steps(txt, env, k + 1, q)
    BY <2>3, <2>4 DEF Steps
  <2> QED BY <2>5
<1> HIDE DEF N
<1>3. \A n \in Nat : n \in N
  BY <1>1, <1>2, SetInduction
<1> QED BY <1>3 DEF N

\* Such a list is a function, and each text in it comes from the one before.
LEMMA StepsAre ==
  ASSUME NEW txt, NEW env, NEW last \in Nat, NEW r, Steps(txt, env, last, r)
  PROVE  /\ r = [n \in 0 .. last |-> r[n]] /\ r[0] = txt
         /\ \A n \in 1 .. last : r[n] = StepOf(r[n - 1], env)
BY DEF Steps

\* There is only one.
LEMMA StepsUnique ==
  ASSUME NEW txt, NEW env, NEW last \in Nat, NEW r, NEW q,
         Steps(txt, env, last, r), Steps(txt, env, last, q)
  PROVE  r = q
<1> DEFINE N == {n \in Nat : n \in 0 .. last => r[n] = q[n]}
<1>0. /\ r = [n \in 0 .. last |-> IF n = 0 THEN txt ELSE StepOf(r[n - 1], env)]
      /\ q = [n \in 0 .. last |-> IF n = 0 THEN txt ELSE StepOf(q[n - 1], env)]
  BY DEF Steps
<1>1. 0 \in N
  BY <1>0
<1>2. ASSUME NEW n \in N PROVE n + 1 \in N
  <2> SUFFICES ASSUME n + 1 \in 0 .. last PROVE r[n + 1] = q[n + 1]
    OBVIOUS
  <2>1. n + 1 \in 1 .. last /\ n \in 0 .. last /\ (n + 1) - 1 = n
    OBVIOUS
  <2>2. r[n + 1] = StepOf(r[n], env) /\ q[n + 1] = StepOf(q[n], env)
    BY <1>0, <2>1
  <2> QED BY <2>1, <2>2
<1> HIDE DEF N
<1>3. \A n \in Nat : n \in N
  BY <1>1, <1>2, SetInduction
<1>4. \A n \in 0 .. last : r[n] = q[n]
  BY <1>3 DEF N
<1> QED BY <1>0, <1>4

\* So Rewritten, a function of its own recursion, is the last of the list.
LEMMA RewrittenIs ==
  ASSUME NEW txt, NEW env, LastOf(env) \in Nat, NEW r, Steps(txt, env, LastOf(env), r)
  PROVE  Rewritten(txt, env) = r[LastOf(env)]
<1> DEFINE q == CHOOSE h : Steps(txt, env, LastOf(env), h)
<1>1. Steps(txt, env, LastOf(env), q)
  OBVIOUS
<1>2. Rewritten(txt, env) = q[LastOf(env)]
  BY DEF Rewritten, Steps, StepOf, Led, LastOf
<1> HIDE DEF q
<1> QED BY <1>1, <1>2, StepsUnique

\* What is not rewritten any further is what comes out.
LEMMA StepsSettle ==
  ASSUME NEW txt, NEW env, NEW last \in Nat, NEW r, Steps(txt, env, last, r),
         NEW k \in 0 .. last, ~Led(r[k], env)
  PROVE  r[last] = r[k]
<1> DEFINE N == {n \in Nat : k + n \in 0 .. last => r[k + n] = r[k]}
<1>1. 0 \in N
  OBVIOUS
<1>2. ASSUME NEW n \in N PROVE n + 1 \in N
  <2> SUFFICES ASSUME k + (n + 1) \in 0 .. last PROVE r[k + (n + 1)] = r[k]
    OBVIOUS
  <2>1. k + (n + 1) \in 1 .. last /\ k + n \in 0 .. last /\ (k + (n + 1)) - 1 = k + n
    OBVIOUS
  <2>2. r[k + (n + 1)] = StepOf(r[k + n], env)
    BY <2>1, StepsAre
  <2>3. r[k + n] = r[k]
    BY <2>1
  <2> QED BY <2>2, <2>3 DEF StepOf
<1> HIDE DEF N
<1>3. last - k \in Nat /\ k + (last - k) = last
  OBVIOUS
<1>4. last - k \in N
  BY <1>1, <1>2, <1>3, SetInduction
<1> QED BY <1>3, <1>4 DEF N

\* The values that may be put in front are texts.
GivesTexts(env, S) ==
  \A part \in DOMAIN VarOf : VarOf[part] \in DOMAIN env => env[VarOf[part]] \in Seq(S)

\* Every text on the way is a text.
LEMMA StepsTyped ==
  ASSUME NEW S, NEW txt \in Seq(S), NEW env, GivesTexts(env, S),
         NEW last \in Nat, NEW r, Steps(txt, env, last, r)
  PROVE  \A n \in 0 .. last : r[n] \in Seq(S)
<1> DEFINE N == {n \in Nat : n \in 0 .. last => r[n] \in Seq(S)}
<1>0. r[0] = txt /\ \A n \in 1 .. last : r[n] = StepOf(r[n - 1], env)
  BY StepsAre
<1>1. 0 \in N
  BY <1>0
<1>2. ASSUME NEW n \in N PROVE n + 1 \in N
  <2> SUFFICES ASSUME n + 1 \in 0 .. last PROVE r[n + 1] \in Seq(S)
    OBVIOUS
  <2> DEFINE t == r[n]
  <2>1. n + 1 \in 1 .. last /\ n \in 0 .. last /\ (n + 1) - 1 = n
    OBVIOUS
  <2>2. r[n + 1] = StepOf(t, env)
    BY <1>0, <2>1
  <2>3. t \in Seq(S)
    BY <2>1
  <2> HIDE DEF t
  <2>4. CASE Led(t, env)
    <3>1. env[VarOf[t[1]]] \in Seq(S) /\ Tail(t) \in Seq(S)
      BY <2>3, <2>4, HeadTailProperties DEF Led, Leads, GivesTexts
    <3>2. env[VarOf[t[1]]] \o Tail(t) \in Seq(S)
      BY <3>1, ConcatProperties
    <3> QED BY <2>2, <2>4, <3>2 DEF StepOf
  <2>5. CASE ~Led(t, env)
    BY <2>2, <2>3, <2>5 DEF StepOf
  <2> QED BY <2>4, <2>5
<1> HIDE DEF N
<1>3. \A n \in Nat : n \in N
  BY <1>1, <1>2, SetInduction, SMTT(60)
<1> QED BY <1>3 DEF N

\* As long as values are put in front that are not empty, a text begins like the last.
LEMMA StepBegins ==
  ASSUME NEW S, NEW txt \in Seq(S), NEW env, GivesTexts(env, S), ~Hidden(env),
         NEW last \in Nat, NEW r, Steps(txt, env, last, r), NEW n \in 1 .. last, Led(r[n - 1], env)
  PROVE  r[n] # <<>> /\ r[n][1] = env[VarOf[r[n - 1][1]]][1]
<1> DEFINE t == r[n - 1]
           v == env[VarOf[t[1]]]
<1>1. n - 1 \in 0 .. last
  OBVIOUS
<1>2. t \in Seq(S)
  BY <1>1, StepsTyped
<1>3. r[n] = StepOf(t, env)
  BY StepsAre
<1>4. t # <<>> /\ t[1] \in DOMAIN VarOf /\ VarOf[t[1]] \in DOMAIN env
  BY DEF Led, Leads
<1>5. v \in Seq(S) /\ v # <<>>
  BY <1>4 DEF GivesTexts, Hidden
<1>6. r[n] = v \o Tail(t)
  BY <1>3 DEF StepOf
<1> HIDE DEF v, t
<1>7. Tail(t) \in Seq(S)
  BY <1>2, <1>4, HeadTailProperties
<1>8. (v \o Tail(t))[1] = v[1] /\ v \o Tail(t) # <<>>
  BY <1>5, <1>7
<1> QED BY <1>6, <1>8 DEF v, t

(* A text that led somewhere at first and leads somewhere in the end was   *)
(* caught in a circle, or has come to a variable that only a value names.  *)
LEMMA StillLeads ==
  ASSUME NEW S, NEW txt \in Seq(S), NEW env, IsFiniteSet(DOMAIN env), GivesTexts(env, S), ~Hidden(env),
         Led(txt, env), Leads(Rewritten(txt, env)), ~Circular(txt, env)
  PROVE  /\ VarOf[Rewritten(txt, env)[1]] \notin DOMAIN env
         /\ \E v \in DOMAIN env : Leads(env[v]) /\ env[v][1] = Rewritten(txt, env)[1]
<1> DEFINE last == LastOf(env)
<1>1. last \in Nat /\ last > 0 /\ Cardinality(DOMAIN env) < last
  BY FS_CardinalityType DEF LastOf
<1> HIDE DEF last
<1>2. PICK r : Steps(txt, env, last, r)
  BY <1>1, StepsExist
<1>3. Rewritten(txt, env) = r[last]
  BY <1>1, <1>2, RewrittenIs DEF last
<1>4. r[0] = txt
  BY <1>1, <1>2, StepsAre
<1> DEFINE N == {n \in 0 .. last - 1 : ~Led(r[n], env)}
<1>5. N # {}
  <2> SUFFICES ASSUME N = {} PROVE FALSE
    OBVIOUS
  <2> DEFINE h == [i \in 1 .. last |-> VarOf[r[i - 1][1]]]
  <2>1. \A n \in 0 .. last - 1 : Led(r[n], env)
    OBVIOUS
  <2>2. \A i \in 1 .. last : i - 1 \in 0 .. last - 1
    BY <1>1
  <2>3. \A i \in 1 .. last : Led(r[i - 1], env)
    BY <2>1, <2>2
  <2>4. h \in [1 .. last -> DOMAIN env]
    BY <2>3 DEF Led
  <2>5. \A i \in 1 .. last : h[i] = VarOf[r[i - 1][1]]
    OBVIOUS
  <2> HIDE DEF h, N
  <2>6. ASSUME NEW i \in 1 .. last - 1
        PROVE  Leads(env[h[i]]) /\ VarOf[env[h[i]][1]] = h[i + 1]
    <3>1. i \in 1 .. last /\ i + 1 \in 1 .. last /\ (i + 1) - 1 = i /\ i \in 0 .. last - 1
      BY <1>1
    <3>2. r[i] # <<>> /\ r[i][1] = env[h[i]][1]
      BY <1>1, <1>2, <2>3, <2>5, <3>1, StepBegins
    <3>3. h[i + 1] = VarOf[r[i][1]] /\ Led(r[i], env)
      BY <2>1, <2>5, <3>1
    <3>4. env[h[i]] # <<>>
      <4>1. Led(r[i - 1], env) /\ h[i] = VarOf[r[i - 1][1]]
        BY <2>3, <2>5, <3>1
      <4> QED BY <4>1 DEF Led, Leads, Hidden
    <3> QED BY <3>2, <3>3, <3>4 DEF Led, Leads
  <2>7. VarOf[txt[1]] = h[1]
    BY <1>1, <1>4, <2>5
  <2> QED BY <1>1, <2>4, <2>6, <2>7, RoundAgain DEF Led
<1>6. N \subseteq Nat
  BY <1>1
<1>7. PICK n \in N : \A m \in N : n <= m
  BY <1>5, <1>6, Least
<1>8. n \in 0 .. last - 1 /\ ~Led(r[n], env) /\ n # 0
  BY <1>4, <1>7
<1>9. n - 1 \in 0 .. last - 1 /\ n \in 1 .. last /\ n \in 0 .. last
  BY <1>1, <1>8
<1>10. Led(r[n - 1], env)
  <2>1. n - 1 \notin N
    BY <1>7, <1>9
  <2> QED BY <1>9, <2>1
<1> HIDE DEF N
<1>11. r[last] = r[n]
  BY <1>1, <1>2, <1>8, <1>9, StepsSettle
<1>12. r[n][1] = env[VarOf[r[n - 1][1]]][1]
  BY <1>1, <1>2, <1>9, <1>10, StepBegins
<1> DEFINE v == VarOf[r[n - 1][1]]
<1>13. v \in DOMAIN env /\ env[v] # <<>> /\ env[v][1] = Rewritten(txt, env)[1]
  BY <1>3, <1>10, <1>11, <1>12 DEF Led, Leads, Hidden
<1> HIDE DEF v
<1>14. Leads(env[v])
  BY <1>13 DEF Leads
<1>15. VarOf[Rewritten(txt, env)[1]] \notin DOMAIN env
  BY <1>3, <1>8, <1>11 DEF Led
<1> QED BY <1>13, <1>14, <1>15
=============================================================================
