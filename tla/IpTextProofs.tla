----------------------------- MODULE IpTextProofs ------------------------------
(***************************************************************************)
(* ipv6_from_str uses no index out of bounds, what it answers is what the  *)
(* text means, and an address that was written is read back: for every     *)
(* text and whatever the numbers of hextets and of their digits.           *)
(***************************************************************************)
EXTENDS IpTextProps, SharedLemmas

\* What a step needs to know: a text in the loop has a length (Begin looked).
Reading ==
  /\ IndexInBounds
  /\ at \in {"loop", "last"} => Len(text) \in Nat

\* The length limit is a number.
LEMMA LimitIsInt == Limit \in Int
  BY IpAssumption DEF Limit

\* read_hextet reads within the text.
LEMMA HextetInText ==
  ASSUME NEW n \in 1 .. Digits, Reads(n)
  PROVE  offset + n <= Len(text)
  BY IpAssumption DEF Reads, Digit

\* Nothing is read when the function is called.
LEMMA ReadingInit == Init => Reading
  BY DEF Init, Reading, IndexInBounds

\* A return leaves the loop.
LEMMA ReturnsReading == ASSUME NEW answer, Returns(answer) PROVE Reading'
  BY DEF Returns, Reading, IndexInBounds

\* Every way an iteration of the loop goes keeps the offset in the text and the
\* index of the next hextet below their number.
LEMMA ReadingStep == Reading /\ [Next]_vars => Reading'
<1> SUFFICES ASSUME Reading, [Next]_vars PROVE Reading'
  OBVIOUS
<1> USE IpAssumption
<1>1. CASE Short
  BY <1>1, ReturnsReading DEF Short
<1>2. CASE Begin
  <2>1. at' = "loop" /\ hextet_index' = 0 /\ text' = text
    BY <1>2 DEF Begin
  <2>2. Len(text) \in Nat /\ Len(text) >= 2
    BY <1>2, LimitIsInt DEF Begin
  <2>3. offset' \in {0, 2} /\ ellipsis' \in {None, 0}
    BY <1>2 DEF Begin
  <2> QED
    BY <2>1, <2>2, <2>3 DEF Reading, IndexInBounds, None
<1>3. CASE EndOfText
  BY <1>3 DEF EndOfText, Reading, IndexInBounds, locals
<1>4. CASE Ellipsis
  <2>1. CASE ellipsis # None
    BY <1>4, <2>1, ReturnsReading DEF Ellipsis
  <2>2. CASE ellipsis = None
    BY <1>4, <2>2 DEF Ellipsis, Reading, IndexInBounds
  <2> QED
    BY <2>1, <2>2
<1>5. CASE NoHextet
  BY <1>5, ReturnsReading DEF NoHextet
<1>6. ASSUME NEW n \in 1 .. Digits, ReadHextet(n) PROVE Reading'
  <2>1. offset + n <= Len(text)
    BY <1>6, HextetInText DEF ReadHextet
  <2>2. CASE at' = "last" /\ offset' = offset + n
    BY <1>6, <2>1, <2>2 DEF ReadHextet, Reading, IndexInBounds
  <2>3. CASE at' = "loop" /\ offset' = offset + n + 1
    BY <1>6, <2>1, <2>3 DEF ReadHextet, Reading, IndexInBounds
  <2> QED
    BY <1>6, <2>2, <2>3 DEF ReadHextet
<1>7. ASSUME NEW n \in 1 .. Digits, ReadIpv4(n) PROVE Reading'
  <2>1. CASE Len(text) - offset # 4
    BY <1>7, <2>1, ReturnsReading DEF ReadIpv4
  <2>2. CASE Len(text) - offset = 4
    BY <1>7, <2>2, HextetInText DEF ReadIpv4, Reading, IndexInBounds
  <2> QED
    BY <2>1, <2>2
<1>8. ASSUME NEW n \in 1 .. Digits, Unexpected(n) PROVE Reading'
  BY <1>8, ReturnsReading DEF Unexpected
<1>9. CASE Finish
  BY <1>9, ReturnsReading DEF Finish
<1>10. CASE Relay
  BY <1>10 DEF Relay, Reading, IndexInBounds
<1>11. CASE UNCHANGED vars
  BY <1>11 DEF vars, locals, Reading, IndexInBounds
<1> QED
  BY <1>1, <1>2, <1>3, <1>4, <1>5, <1>6, <1>7, <1>8, <1>9, <1>10, <1>11
  DEF Next, Step

(* No index of ipv6_from_str (utils.rs:80-237) is out of the bounds of the *)
(* text or of the array of hextets, so that it never panics.               *)
THEOREM NeverOutOfBounds == Spec => []IndexInBounds
<1>1. Reading => IndexInBounds
  BY DEF Reading
<1> QED
  BY ReadingInit, ReadingStep, <1>1, PTL DEF Spec
-----------------------------------------------------------------------------
(* What the recursions of the model compute.                               *)

\* A part of a recursion over numbers: up to n.
Goes(S, x, F, n, g) ==
  /\ g \in [0 .. n -> S] /\ g[0] = x
  /\ \A k \in 0 .. n - 1 : g[k + 1] = F[<<k + 1, g[k]>>]

\* The whole of it.
Recurs(S, x, F, f) ==
  f \in [Nat -> S] /\ f[0] = x /\ \A k \in Nat : f[k + 1] = F[<<k + 1, f[k]>>]

\* Two parts agree as far as both go.
LEMMA GoesAlike ==
  ASSUME NEW S, NEW x \in S, NEW F, NEW m \in Nat, NEW n \in Nat, NEW g, NEW h,
         Goes(S, x, F, m, g), Goes(S, x, F, n, h)
  PROVE  \A k \in Nat : k <= m /\ k <= n => g[k] = h[k]
<1> DEFINE N == {k \in Nat : k <= m /\ k <= n => g[k] = h[k]}
<1>1. 0 \in N
  BY DEF Goes
<1>2. ASSUME NEW k \in N PROVE k + 1 \in N
  <2> SUFFICES ASSUME k + 1 <= m, k + 1 <= n PROVE g[k + 1] = h[k + 1]
    OBVIOUS
  <2>1. k \in 0 .. m - 1 /\ k \in 0 .. n - 1 /\ g[k] = h[k]
    BY <1>2
  <2> HIDE DEF N
  <2> QED BY <2>1 DEF Goes
<1> HIDE DEF N
<1>3. \A k \in Nat : k \in N
  BY <1>1, <1>2, SetInduction
<1> QED BY <1>3 DEF N

\* Every recursion over numbers has a function.
LEMMA RecursionExists ==
  ASSUME NEW S, NEW x \in S, NEW F \in [Nat \X S -> S]
  PROVE  \E f : Recurs(S, x, F, f)
<1> DEFINE N == {n \in Nat : \E g : Goes(S, x, F, n, g)}
<1>1. 0 \in N
  <2>1. Goes(S, x, F, 0, [k \in 0 .. 0 |-> x])
    BY DEF Goes
  <2> QED BY <2>1
<1>2. ASSUME NEW n \in N PROVE n + 1 \in N
  <2>1. PICK g : Goes(S, x, F, n, g)
    OBVIOUS
  <2> DEFINE h == [k \in 0 .. n + 1 |-> IF k = n + 1 THEN F[<<n + 1, g[n]>>] ELSE g[k]]
  <2>2. h \in [0 .. n + 1 -> S] /\ h[0] = x
    BY <2>1 DEF Goes
  <2>3. ASSUME NEW k \in 0 .. (n + 1) - 1 PROVE h[k + 1] = F[<<k + 1, h[k]>>]
    <3>1. h[k] = g[k]
      OBVIOUS
    <3>2. CASE k = n
      <4>1. h[n + 1] = F[<<n + 1, g[n]>>]
        OBVIOUS
      <4> HIDE DEF h
      <4> QED BY <3>1, <3>2, <4>1
    <3>3. CASE k # n
      <4>1. k \in 0 .. n - 1 /\ h[k + 1] = g[k + 1]
        BY <3>3
      <4> HIDE DEF h
      <4> QED BY <2>1, <3>1, <4>1 DEF Goes
    <3> QED BY <3>2, <3>3
  <2> HIDE DEF h
  <2>4. Goes(S, x, F, n + 1, h)
    BY <2>2, <2>3 DEF Goes
  <2> QED BY <2>4
<1> HIDE DEF N
<1>3. \A n \in Nat : n \in N
  BY <1>1, <1>2, SetInduction
<1> DEFINE G(n) == CHOOSE g : Goes(S, x, F, n, g)
           f == [n \in Nat |-> G(n)[n]]
<1>4. \A n \in Nat : Goes(S, x, F, n, G(n))
  BY <1>3 DEF N
<1> HIDE DEF G
<1>5. f \in [Nat -> S]
  BY <1>4 DEF Goes
<1>6. f[0] = x
  BY <1>4 DEF Goes
<1>7. ASSUME NEW k \in Nat PROVE f[k + 1] = F[<<k + 1, f[k]>>]
  <2>1. G(k + 1)[k] = G(k)[k]
    BY <1>4, GoesAlike
  <2>2. G(k + 1)[k + 1] = F[<<k + 1, G(k + 1)[k]>>]
    BY <1>4 DEF Goes
  <2> QED BY <2>1, <2>2
<1> HIDE DEF f
<1>8. Recurs(S, x, F, f)
  BY <1>5, <1>6, <1>7 DEF Recurs
<1> QED BY <1>8

\* Places are those of a number of base 16.
LEMMA PlaceIs ==
  /\ Place[0] = 1
  /\ \A i \in Nat : Place[i] \in Nat \ {0} /\ Place[i + 1] = 16 * Place[i]
<1> DEFINE S == Nat \ {0}
           F == [p \in Nat \X S |-> 16 * p[2]]
<1>1. F \in [Nat \X S -> S]
  OBVIOUS
<1>2. \A k \in Nat, v \in S : F[<<k, v>>] = 16 * v
  OBVIOUS
<1>0. 1 \in S
  OBVIOUS
<1> HIDE DEF F, S
<1> PICK f : Recurs(S, 1, F, f)
  BY <1>0, <1>1, RecursionExists
<1>3. f \in [Nat -> S] /\ f[0] = 1 /\ \A k \in Nat : f[k + 1] = F[<<k + 1, f[k]>>]
  BY DEF Recurs
<1>4. f = [i \in Nat |-> IF i = 0 THEN 1 ELSE 16 * f[i - 1]]
  <2>1. ASSUME NEW i \in Nat PROVE f[i] = IF i = 0 THEN 1 ELSE 16 * f[i - 1]
    <3>1. CASE i = 0
      BY <1>3, <3>1
    <3>2. CASE i # 0
      <4>1. PICK k \in Nat : k = i - 1
        BY <3>2
      <4>2. f[k + 1] = F[<<k + 1, f[k]>>] /\ k + 1 \in Nat /\ f[k] \in S
        BY <1>3
      <4>3. f[k + 1] = 16 * f[k]
        BY <1>2, <4>2
      <4> QED BY <3>2, <4>1, <4>3
    <3> QED BY <3>1, <3>2
  <2> QED BY <1>3, <2>1
<1>5. Place = [i \in Nat |-> IF i = 0 THEN 1 ELSE 16 * Place[i - 1]]
  BY <1>4 DEF Place
<1>6. Place[0] = 1 /\ \A i \in Nat : Place[i + 1] = 16 * Place[i]
  BY <1>5
<1> DEFINE N == {n \in Nat : Place[n] \in Nat \ {0}}
<1>7. 0 \in N /\ \A n \in N : n + 1 \in N
  BY <1>6
<1> HIDE DEF N
<1>8. \A n \in Nat : n \in N
  BY <1>7, SetInduction
<1> QED BY <1>6, <1>8 DEF N

\* The way to a number of digits.
Accumulates(base, d, n) ==
  /\ n \in [0 .. Len(d) -> Nat] /\ n[0] = 0
  /\ \A k \in 1 .. Len(d) : n[k] = n[k - 1] * base + d[k]

\* What a number of digits comes to, digit by digit.
LEMMA AccumulatedIs ==
  ASSUME NEW base \in {10, 16}, NEW d \in Seq(Nat)
  PROVE  \E n : Accumulates(base, d, n) /\ Accumulated(base, d) = n[Len(d)]
<1> DEFINE F == [p \in Nat \X Nat |-> p[2] * base + IF p[1] \in DOMAIN d THEN d[p[1]] ELSE 0]
           Is(n) == n = [k \in 0 .. Len(d) |-> IF k = 0 THEN 0 ELSE n[k - 1] * base + d[k]]
           n == CHOOSE m : Is(m)
<1>1. F \in [Nat \X Nat -> Nat]
  <2>1. ASSUME NEW p \in Nat \X Nat PROVE F[p] \in Nat
    <3>1. p[2] * base \in Nat
      OBVIOUS
    <3> QED BY <3>1
  <2> QED BY <2>1
<1>2. \A k \in Nat, v \in Nat : k \in DOMAIN d => F[<<k, v>>] = v * base + d[k]
  OBVIOUS
<1>0. 0 \in Nat /\ Len(d) \in Nat /\ DOMAIN d = 1 .. Len(d)
  OBVIOUS
<1> HIDE DEF F
<1> PICK f : Recurs(Nat, 0, F, f)
  BY <1>0, <1>1, RecursionExists
<1>3. f \in [Nat -> Nat] /\ f[0] = 0 /\ \A k \in Nat : f[k + 1] = F[<<k + 1, f[k]>>]
  BY DEF Recurs
<1> DEFINE g == [k \in 0 .. Len(d) |-> f[k]]
<1>4. Is(g)
  <2>1. ASSUME NEW k \in 0 .. Len(d) PROVE g[k] = IF k = 0 THEN 0 ELSE g[k - 1] * base + d[k]
    <3>1. CASE k = 0
      BY <1>3, <3>1
    <3>2. CASE k # 0
      <4>1. PICK j \in Nat : j = k - 1
        BY <3>2
      <4>2. f[j + 1] = F[<<j + 1, f[j]>>] /\ j + 1 \in Nat /\ f[j] \in Nat /\ j + 1 \in DOMAIN d
        <5>1. f[j + 1] = F[<<j + 1, f[j]>>] /\ f[j] \in Nat
          BY <1>3
        <5>2. j + 1 \in Nat /\ j + 1 \in 1 .. Len(d)
          BY <1>0, <3>2, <4>1
        <5> QED BY <1>0, <5>1, <5>2
      <4>3. f[j + 1] = f[j] * base + d[j + 1]
        BY <1>2, <4>2
      <4> QED BY <3>2, <4>1, <4>3
    <3> QED BY <3>1, <3>2
  <2> QED BY <2>1
<1> HIDE DEF g
<1>5. Is(n)
  BY <1>4
<1>6. Accumulated(base, d) = n[Len(d)]
  BY DEF Accumulated
<1> HIDE DEF n
<1>7. n[0] = 0 /\ \A k \in 1 .. Len(d) : n[k] = n[k - 1] * base + d[k]
  BY <1>0, <1>5, SMTT(60)
<1> DEFINE N == {k \in Nat : k <= Len(d) => n[k] \in Nat}
<1>8. 0 \in N
  BY <1>7
<1>9. ASSUME NEW k \in N PROVE k + 1 \in N
  <2> SUFFICES ASSUME k + 1 <= Len(d) PROVE n[k + 1] \in Nat
    OBVIOUS
  <2>1. n[k] \in Nat /\ d[k + 1] \in Nat
    BY <1>0
  <2>2. n[k + 1] = n[(k + 1) - 1] * base + d[k + 1]
    BY <1>0, <1>7
  <2>3. n[k] * base \in Nat
    BY <2>1
  <2> QED BY <2>1, <2>2, <2>3, SMTT(60)
<1> HIDE DEF N
<1>10. \A k \in Nat : k \in N
  BY <1>8, <1>9, SetInduction
<1>11. \A k \in 0 .. Len(d) : n[k] \in Nat
  BY <1>0, <1>10 DEF N
<1>12. n \in [0 .. Len(d) -> Nat]
  BY <1>5, <1>11
<1>13. Accumulates(base, d, n)
  BY <1>7, <1>12 DEF Accumulates
<1> QED BY <1>6, <1>13

\* A hexadecimal digit is one of sixteen.
LEMMA DigitType == ASSUME NEW b, is_hex_digit(b) PROVE b \in Nat /\ hex_to_digit(b) \in 0 .. 15
<1>1. CASE b \in 48 .. 57
  BY <1>1 DEF hex_to_digit
<1>2. CASE b \in 97 .. 102
  BY <1>2 DEF hex_to_digit
<1>3. CASE b \in 65 .. 70
  BY <1>3 DEF hex_to_digit
<1> QED BY <1>1, <1>2, <1>3 DEF is_hex_digit

\* The digits' values of a text.
Worth(t) == [i \in 1 .. Len(t) |-> hex_to_digit(t[i])]

\* The worth of digits is a number.
LEMMA WorthType ==
  ASSUME NEW t \in Seq(Nat), \A i \in DOMAIN t : is_hex_digit(t[i])
  PROVE  Worth(t) \in Seq(Nat) /\ Len(Worth(t)) = Len(t)
<1>1. ASSUME NEW i \in 1 .. Len(t) PROVE hex_to_digit(t[i]) \in Nat
  <2>1. is_hex_digit(t[i])
    OBVIOUS
  <2>2. hex_to_digit(t[i]) \in 0 .. 15
    BY <2>1, DigitType
  <2> QED BY <2>2, SMTT(60)
<1> QED BY <1>1 DEF Worth

\* Counted digit by digit from the front, or by their places from the back, digits
\* come to the same.
LEMMA ValueIs ==
  ASSUME NEW t \in Seq(Nat), \A i \in DOMAIN t : is_hex_digit(t[i])
  PROVE  ValueOf(t) = Accumulated(16, Worth(t)) /\ ValueOf(t) \in Nat
<1> DEFINE L == Len(t)
           w == Worth(t)
           Is(f) == f = [i \in 0 .. Len(t) |->
                           IF i = 0 THEN 0
                           ELSE f[i - 1] + hex_to_digit(t[Len(t) - i + 1]) * Place[i - 1]]
           last == CHOOSE f : Is(f)
           F == [p \in Nat \X Nat |-> p[2] + IF p[1] \in 1 .. L THEN w[L - p[1] + 1] * Place[p[1] - 1]
                                            ELSE 0]
<1>0. w \in Seq(Nat) /\ Len(w) = L /\ L \in Nat /\ 0 \in Nat /\ \A i \in 1 .. L : w[i] = hex_to_digit(t[i])
  BY WorthType DEF Worth
<1> HIDE DEF w
<1>1. \A k \in 1 .. L : w[L - k + 1] \in Nat /\ Place[k - 1] \in Nat /\ w[L - k + 1] * Place[k - 1] \in Nat
  <2> SUFFICES ASSUME NEW k \in 1 .. L
               PROVE  w[L - k + 1] \in Nat /\ Place[k - 1] \in Nat /\ w[L - k + 1] * Place[k - 1] \in Nat
    OBVIOUS
  <2>1. L - k + 1 \in 1 .. L /\ k - 1 \in Nat
    BY <1>0
  <2>3. PICK j \in Nat : j = k - 1
    BY <2>1
  <2>4. w[L - k + 1] \in Nat
    BY <1>0, <2>1
  <2>5. Place[j] \in Nat
    BY PlaceIs
  <2>2. w[L - k + 1] \in Nat /\ Place[k - 1] \in Nat
    BY <2>3, <2>4, <2>5
  <2> QED BY <2>2
<1>2. F \in [Nat \X Nat -> Nat]
  <2>1. ASSUME NEW p \in Nat \X Nat PROVE F[p] \in Nat
    BY <1>1, SMTT(60)
  <2> QED BY <2>1
<1>3. \A k \in Nat, v \in Nat : k \in 1 .. L => F[<<k, v>>] = v + w[L - k + 1] * Place[k - 1]
  OBVIOUS
<1> HIDE DEF F
<1> PICK f : Recurs(Nat, 0, F, f)
  BY <1>0, <1>2, RecursionExists
<1>4. f \in [Nat -> Nat] /\ f[0] = 0 /\ \A k \in Nat : f[k + 1] = F[<<k + 1, f[k]>>]
  BY DEF Recurs
<1> DEFINE g == [k \in 0 .. Len(t) |-> f[k]]
<1>5. Is(g)
  <2>1. ASSUME NEW i \in 0 .. Len(t)
        PROVE  g[i] = IF i = 0 THEN 0 ELSE g[i - 1] + hex_to_digit(t[Len(t) - i + 1]) * Place[i - 1]
    <3>1. CASE i = 0
      BY <1>4, <3>1
    <3>2. CASE i # 0
      <4>1. PICK j \in Nat : j = i - 1
        BY <3>2
      <4>2. f[j + 1] = F[<<j + 1, f[j]>>] /\ j + 1 \in Nat /\ f[j] \in Nat /\ j + 1 \in 1 .. L
        <5>1. f[j + 1] = F[<<j + 1, f[j]>>] /\ f[j] \in Nat
          BY <1>4
        <5>2. j + 1 \in Nat /\ j + 1 \in 1 .. L
          BY <1>0, <3>2, <4>1
        <5> QED BY <5>1, <5>2
      <4>3. f[j + 1] = f[j] + w[L - (j + 1) + 1] * Place[(j + 1) - 1]
        BY <1>3, <4>2
      <4>4. w[L - i + 1] = hex_to_digit(t[Len(t) - i + 1])
        BY <1>0, <3>2, SMTT(60)
      <4>5. g[i] = f[j + 1] /\ g[i - 1] = f[j] /\ i = j + 1 /\ (j + 1) - 1 = i - 1
        BY <3>2, <4>1
      <4> HIDE DEF g
      <4> QED BY <3>2, <4>3, <4>4, <4>5
    <3> QED BY <3>1, <3>2
  <2> QED BY <2>1
<1> HIDE DEF g
<1>6. Is(last)
  BY <1>5
<1>7. ValueOf(t) = last[Len(t)]
  BY DEF ValueOf
<1> HIDE DEF last
<1>8. last[0] = 0 /\ \A i \in 1 .. L : last[i] = last[i - 1] + w[L - i + 1] * Place[i - 1]
  <2>1. last[0] = 0 /\ \A i \in 1 .. L : last[i] = last[i - 1] + hex_to_digit(t[Len(t) - i + 1]) * Place[i - 1]
    <3>1. 0 \in 0 .. Len(t) /\ \A i \in 1 .. Len(t) : i \in 0 .. Len(t) /\ i # 0
      BY <1>0
    <3> HIDE DEF L
    <3>2. \A i \in 0 .. Len(t) :
            last[i] = IF i = 0 THEN 0 ELSE last[i - 1] + hex_to_digit(t[Len(t) - i + 1]) * Place[i - 1]
      BY <1>6, Zenon
    <3> QED BY <3>1, <3>2 DEF L
  <2>2. \A i \in 1 .. L : L - i + 1 \in 1 .. L
    OBVIOUS
  <2> QED BY <1>0, <2>1, <2>2
<1> PICK n : Accumulates(16, w, n) /\ Accumulated(16, w) = n[Len(w)]
  BY <1>0, AccumulatedIs
<1>9. /\ n \in [0 .. L -> Nat] /\ n[0] = 0 /\ Accumulated(16, w) = n[L]
      /\ \A k \in 1 .. L : n[k] = n[k - 1] * 16 + w[k]
  BY <1>0 DEF Accumulates
<1> DEFINE N == {j \in Nat : j <= L => last[j] \in Nat /\ n[L - j] * Place[j] + last[j] = n[L]}
<1>10. 0 \in N
  <2>1. L - 0 = L /\ n[L] \in Nat /\ Place[0] = 1 /\ last[0] = 0
    <3> HIDE DEF L
    <3>1. L - 0 = L /\ L \in 0 .. L
      BY <1>0
    <3>2. n[L] \in Nat
      BY <1>9, <3>1
    <3> QED BY <1>8, <3>1, <3>2, PlaceIs
  <2>2. n[L - 0] * Place[0] + last[0] = n[L]
    BY <2>1
  <2> QED BY <2>1, <2>2
<1>11. ASSUME NEW j \in N PROVE j + 1 \in N
  <2> SUFFICES ASSUME j + 1 <= L
               PROVE  last[j + 1] \in Nat /\ n[L - (j + 1)] * Place[j + 1] + last[j + 1] = n[L]
    OBVIOUS
  <2>1. last[j] \in Nat /\ n[L - j] * Place[j] + last[j] = n[L]
    BY <1>0
  <2>2. PICK k \in 1 .. L : k = L - j
    BY <1>0
  <2>3. n[k] = n[k - 1] * 16 + w[k] /\ n[k - 1] \in Nat /\ w[k] \in Nat /\ n[k] \in Nat
    <3>1. k - 1 \in 0 .. L /\ k \in 0 .. L
      BY <1>0
    <3> HIDE DEF L
    <3>2. n[k] = n[k - 1] * 16 + w[k]
      BY <1>9
    <3>3. n[k - 1] \in Nat /\ n[k] \in Nat
      BY <1>9, <3>1
    <3>4. w[k] \in Nat
      BY <1>0, SMTT(60)
    <3> QED BY <3>2, <3>3, <3>4
  <2>4. Place[j] \in Nat /\ Place[j + 1] = 16 * Place[j]
    BY PlaceIs
  <2>5. last[j + 1] = last[j] + w[k] * Place[j]
    <3>1. j + 1 \in 1 .. L /\ L - (j + 1) + 1 = k /\ (j + 1) - 1 = j
      BY <1>0, <2>2
    <3>2. last[j + 1] = last[(j + 1) - 1] + w[L - (j + 1) + 1] * Place[(j + 1) - 1]
      BY <1>8, <3>1
    <3> QED BY <3>1, <3>2
  <2>6. L - (j + 1) = k - 1
    BY <2>2
  <2> HIDE DEF N, L
  <2> DEFINE a == n[k - 1]
             p == Place[j]
             c == w[k]
             l == last[j]
  <2>7. a \in Nat /\ p \in Nat /\ c \in Nat /\ l \in Nat /\ (a * 16 + c) * p + l = n[L]
    BY <2>1, <2>2, <2>3, <2>4
  <2>8. last[j + 1] = l + c * p /\ Place[j + 1] = 16 * p /\ n[L - (j + 1)] = a
    BY <2>4, <2>5, <2>6
  <2> HIDE DEF a, p, c, l
  <2>9. l + c * p \in Nat /\ a * (16 * p) + (l + c * p) = (a * 16 + c) * p + l
    <3>1. c * p \in Nat /\ a * p \in Nat /\ (a * 16 + c) * p = 16 * (a * p) + c * p /\ a * (16 * p) = 16 * (a * p)
      BY <2>7
    <3> QED BY <2>7, <3>1
  <2> QED BY <2>7, <2>8, <2>9
<1> HIDE DEF N
<1>12. \A j \in Nat : j \in N
  BY <1>10, <1>11, SetInduction
<1>13. last[L] \in Nat /\ n[0] * Place[L] + last[L] = n[L]
  <2>1. L - L = 0 /\ L \in N
    BY <1>0, <1>12
  <2> QED BY <1>0, <2>1 DEF N
<1>14. n[0] * Place[L] = 0
  <2>1. Place[L] \in Nat
    BY <1>0, PlaceIs
  <2> QED BY <1>9, <2>1
<1>15. n[L] \in Nat
  BY <1>0, <1>9
<1>16. last[L] = n[L]
  BY <1>13, <1>14, <1>15
<1> QED BY <1>7, <1>9, <1>13, <1>16 DEF w
-----------------------------------------------------------------------------
(* str::split, by the positions it cuts at.                                *)

\* Between a and b the text t has n pieces, that end at c[1] .. c[n].
Cut(t, a, b, byte, n, c) ==
  /\ n \in Nat \ {0} /\ c \in [0 .. n -> a .. b] /\ c[0] = a /\ c[n] = b
  /\ \A k \in 1 .. n : c[k - 1] < c[k]
  /\ \A k \in 1 .. n - 1 : t[c[k]] = byte
  /\ \A k \in 1 .. n : \A j \in c[k - 1] + 1 .. c[k] - 1 : t[j] # byte

Pieces(t, n, c) == [k \in 1 .. n |-> SubSeq(t, c[k - 1] + 1, c[k] - 1)]

\* Steps that go up go up over any distance, and leave no gap.
LEMMA StepsUp ==
  ASSUME NEW n \in Nat, NEW c \in [0 .. n -> Int], \A k \in 1 .. n : c[k - 1] < c[k]
  PROVE  /\ \A i, j \in 0 .. n : i < j => c[i] < c[j]
         /\ \A x \in c[0] .. c[n] - 1 : \E k \in 1 .. n : x \in c[k - 1] .. c[k] - 1
<1> DEFINE N == {m \in Nat : m <= n =>
                   /\ \A i \in 0 .. m : i # m => c[i] < c[m]
                   /\ \A x \in c[0] .. c[m] - 1 : \E k \in 1 .. m : x \in c[k - 1] .. c[k] - 1}
<1>1. 0 \in N
  OBVIOUS
<1>2. ASSUME NEW m \in N PROVE m + 1 \in N
  <2> SUFFICES ASSUME m + 1 <= n
               PROVE  /\ \A i \in 0 .. m + 1 : i # m + 1 => c[i] < c[m + 1]
                      /\ \A x \in c[0] .. c[m + 1] - 1 :
                           \E k \in 1 .. m + 1 : x \in c[k - 1] .. c[k] - 1
    OBVIOUS
  <2>1. /\ \A i \in 0 .. m : i # m => c[i] < c[m]
        /\ \A x \in c[0] .. c[m] - 1 : \E k \in 1 .. m : x \in c[k - 1] .. c[k] - 1
    OBVIOUS
  <2>2. m + 1 \in 1 .. n /\ (m + 1) - 1 = m /\ m \in Nat
    OBVIOUS
  <2> HIDE DEF N
  <2>3. c[m] < c[m + 1] /\ c[m] \in Int /\ c[m + 1] \in Int /\ c[0] \in Int
    BY <2>2
  <2>4. ASSUME NEW i \in 0 .. m + 1, i # m + 1 PROVE c[i] < c[m + 1]
    <3>1. i \in 0 .. n /\ i \in 0 .. m
      BY <2>2, <2>4
    <3>2. c[i] \in Int
      BY <3>1
    <3>3. c[i] <= c[m]
      <4>1. CASE i = m
        BY <2>3, <4>1
      <4>2. CASE i # m
        <5>1. c[i] < c[m]
          BY <2>1, <3>1, <4>2
        <5> QED BY <2>3, <3>2, <5>1
      <4> QED BY <4>1, <4>2
    <3> QED BY <2>3, <3>2, <3>3
  <2>5. ASSUME NEW x \in c[0] .. c[m + 1] - 1
        PROVE  \E k \in 1 .. m + 1 : x \in c[k - 1] .. c[k] - 1
    <3>1. CASE x < c[m]
      <4>1. x \in c[0] .. c[m] - 1
        BY <2>3, <3>1
      <4>2. PICK k \in 1 .. m : x \in c[k - 1] .. c[k] - 1
        BY <2>1, <4>1
      <4>3. k \in 1 .. m + 1
        BY <2>2
      <4> QED BY <4>2, <4>3
    <3>2. CASE ~(x < c[m])
      <4>1. x \in c[(m + 1) - 1] .. c[m + 1] - 1
        BY <2>2, <2>3, <3>2
      <4>2. m + 1 \in 1 .. m + 1
        BY <2>2
      <4> QED BY <4>1, <4>2
    <3> QED BY <3>1, <3>2
  <2> QED BY <2>4, <2>5
<1> HIDE DEF N
<1>3. \A m \in Nat : m \in N
  BY <1>1, <1>2, SetInduction
<1>4. ASSUME NEW i \in 0 .. n, NEW j \in 0 .. n, i < j PROVE c[i] < c[j]
  <2>1. j \in N /\ j <= n /\ i \in 0 .. j /\ i # j
    BY <1>3, <1>4
  <2> QED BY <2>1 DEF N
<1>5. n \in N /\ n <= n
  BY <1>3
<1> QED BY <1>4, <1>5 DEF N

\* A piece follows from the one before.
LEMMA CutGrows ==
  ASSUME NEW t, NEW a \in Nat, NEW b \in Nat, NEW byte, a <= b, b > a => \E n, c : Cut(t, a, b, byte, n, c)
  PROVE  \E n, c : Cut(t, a, b + 1, byte, n, c)
<1>1. CASE a = b
  <2> DEFINE c == [k \in 0 .. 1 |-> IF k = 0 THEN a ELSE a + 1]
  <2>1. c \in [0 .. 1 -> a .. b + 1] /\ c[0] = a /\ c[1] = b + 1
    BY <1>1
  <2> HIDE DEF c
  <2>2. Cut(t, a, b + 1, byte, 1, c)
    BY <1>1, <2>1 DEF Cut
  <2> QED BY <2>2
<1>2. CASE a # b
  <2>1. PICK n, c : Cut(t, a, b, byte, n, c)
    BY <1>2
  <2>2. /\ n \in Nat \ {0} /\ c \in [0 .. n -> a .. b] /\ c[0] = a /\ c[n] = b
        /\ \A k \in 1 .. n : c[k - 1] < c[k]
        /\ \A k \in 1 .. n - 1 : t[c[k]] = byte
        /\ \A k \in 1 .. n : \A j \in c[k - 1] + 1 .. c[k] - 1 : t[j] # byte
    BY <2>1 DEF Cut
  <2>3. CASE t[b] = byte
    <3> DEFINE d == [k \in 0 .. n + 1 |-> IF k = n + 1 THEN b + 1 ELSE c[k]]
    <3>1. d \in [0 .. n + 1 -> a .. b + 1] /\ d[0] = a /\ d[n + 1] = b + 1 /\ \A k \in 0 .. n : d[k] = c[k]
      BY <2>2
    <3> HIDE DEF d
    <3>2. ASSUME NEW k \in 1 .. n + 1 PROVE d[k - 1] < d[k] /\ \A j \in d[k - 1] + 1 .. d[k] - 1 : t[j] # byte
      <4>1. CASE k = n + 1
        <5>1. d[k - 1] = b /\ d[k] = b + 1
          <6>1. k - 1 = n /\ n \in 0 .. n
            BY <2>2, <4>1
          <6> QED BY <2>2, <3>1, <4>1, <6>1
        <5> QED BY <5>1
      <4>2. CASE k # n + 1
        <5>1. k \in 1 .. n /\ k - 1 \in 0 .. n /\ k \in 0 .. n
          BY <2>2, <4>2
        <5>2. d[k - 1] = c[k - 1] /\ d[k] = c[k]
          BY <3>1, <5>1
        <5> QED BY <2>2, <5>1, <5>2
      <4> QED BY <4>1, <4>2
    <3>3. ASSUME NEW k \in 1 .. (n + 1) - 1 PROVE t[d[k]] = byte
      <4>1. k \in 1 .. n /\ k \in 0 .. n
        BY <2>2
      <4>2. CASE k = n
        BY <2>2, <2>3, <3>1, <4>1, <4>2
      <4>3. CASE k # n
        <5>1. k \in 1 .. n - 1
          BY <2>2, <4>1, <4>3
        <5> QED BY <2>2, <3>1, <4>1, <5>1
      <4> QED BY <4>2, <4>3
    <3>4. n + 1 \in Nat \ {0}
      BY <2>2
    <3>5. Cut(t, a, b + 1, byte, n + 1, d)
      BY <3>1, <3>2, <3>3, <3>4 DEF Cut
    <3> QED BY <3>5
  <2>4. CASE t[b] # byte
    <3> DEFINE d == [k \in 0 .. n |-> IF k = n THEN b + 1 ELSE c[k]]
    <3>1. d \in [0 .. n -> a .. b + 1] /\ d[0] = a /\ d[n] = b + 1 /\ \A k \in 0 .. n - 1 : d[k] = c[k]
      BY <2>2
    <3> HIDE DEF d
    <3>2. ASSUME NEW k \in 1 .. n PROVE d[k - 1] < d[k] /\ \A j \in d[k - 1] + 1 .. d[k] - 1 : t[j] # byte
      <4>0. k - 1 \in 0 .. n - 1 /\ d[k - 1] = c[k - 1] /\ c[k - 1] \in Int /\ c[k - 1] < c[k]
        <5>1. k - 1 \in 0 .. n - 1 /\ k - 1 \in 0 .. n
          BY <2>2
        <5>2. c[k - 1] \in a .. b
          BY <2>2, <5>1
        <5> QED BY <2>2, <3>1, <5>1, <5>2
      <4>1. CASE k = n
        <5>1. d[k] = b + 1 /\ c[k] = b
          BY <2>2, <3>1, <4>1
        <5>2. ASSUME NEW j \in d[k - 1] + 1 .. d[k] - 1 PROVE t[j] # byte
          <6>1. CASE j = b
            BY <2>4, <6>1
          <6>2. CASE j # b
            <7>1. j \in c[k - 1] + 1 .. c[k] - 1
              BY <4>0, <5>1, <6>2
            <7> QED BY <2>2, <7>1
          <6> QED BY <6>1, <6>2
        <5> QED BY <4>0, <5>1, <5>2
      <4>2. CASE k # n
        <5>1. k \in 0 .. n - 1
          BY <2>2, <4>2
        <5>2. d[k] = c[k]
          BY <3>1, <5>1
        <5> QED BY <2>2, <4>0, <5>2
      <4> QED BY <4>1, <4>2
    <3>3. ASSUME NEW k \in 1 .. n - 1 PROVE t[d[k]] = byte
      <4>1. k \in 0 .. n - 1
        BY <2>2
      <4> QED BY <2>2, <3>1, <4>1
    <3>5. Cut(t, a, b + 1, byte, n, d)
      BY <2>2, <3>1, <3>2, <3>3 DEF Cut
    <3> QED BY <3>5
  <2> QED BY <2>3, <2>4
<1> QED BY <1>1, <1>2

\* Every text has pieces.
LEMMA CutExists ==
  ASSUME NEW t, NEW a \in Nat, NEW b \in Nat, a < b, NEW byte
  PROVE  \E n, c : Cut(t, a, b, byte, n, c)
<1> DEFINE N == {m \in Nat : m > 0 => \E n, c : Cut(t, a, a + m, byte, n, c)}
<1>1. 0 \in N
  OBVIOUS
<1>2. ASSUME NEW m \in N PROVE m + 1 \in N
  <2> PICK e \in Nat : e = a + m
    OBVIOUS
  <2>1. e > a => \E n, c : Cut(t, a, e, byte, n, c)
    OBVIOUS
  <2>2. a <= e /\ a + (m + 1) = e + 1
    OBVIOUS
  <2> HIDE DEF N
  <2>3. \E n, c : Cut(t, a, e + 1, byte, n, c)
    BY <2>1, <2>2, CutGrows
  <2> QED BY <2>2, <2>3 DEF N
<1> HIDE DEF N
<1>3. \A m \in Nat : m \in N
  BY <1>1, <1>2, SetInduction
<1>4. PICK m \in Nat : m = b - a
  OBVIOUS
<1>5. m \in N /\ m > 0 /\ a + m = b
  BY <1>3, <1>4
<1> QED BY <1>5 DEF N

\* The positions where str::split cuts are those of the pieces, and it takes them
\* in their order.
LEMMA SplitAt ==
  ASSUME NEW s, Len(s) \in Nat, DOMAIN s = 1 .. Len(s), NEW byte, NEW n, NEW c,
         Cut(s, 0, Len(s) + 1, byte, n, c)
  PROVE  Split(s, byte) = Pieces(s, n, c)
<1> DEFINE L == Len(s)
           cuts == {i \in DOMAIN s : s[i] = byte} \cup {0, Len(s) + 1}
           below(i) == {j \in cuts : j < i}
           cut(k) == CHOOSE i \in cuts : Cardinality({j \in cuts : j < i}) = k
<1>1. /\ n \in Nat \ {0} /\ n \in Nat /\ c \in [0 .. n -> 0 .. L + 1] /\ c[0] = 0 /\ c[n] = L + 1
      /\ \A k \in 1 .. n : c[k - 1] < c[k]
      /\ \A k \in 1 .. n - 1 : s[c[k]] = byte
      /\ \A k \in 1 .. n : \A j \in c[k - 1] + 1 .. c[k] - 1 : s[j] # byte
  BY DEF Cut
<1>2. c \in [0 .. n -> Int]
  BY <1>1
<1>3. /\ \A i, j \in 0 .. n : i < j => c[i] < c[j]
      /\ \A x \in c[0] .. c[n] - 1 : \E k \in 1 .. n : x \in c[k - 1] .. c[k] - 1
  BY <1>1, <1>2, StepsUp
<1>4. ASSUME NEW k \in 0 .. n PROVE c[k] \in cuts
  <2>1. CASE k = 0 \/ k = n
    BY <1>1, <2>1
  <2>2. CASE k # 0 /\ k # n
    <3>1. k \in 1 .. n - 1 /\ 0 \in 0 .. n /\ n \in 0 .. n
      BY <1>1, <2>2
    <3>2. c[0] < c[k] /\ c[k] < c[n] /\ c[k] \in 0 .. L + 1
      BY <1>1, <1>3, <3>1, SMTT(60)
    <3>3. c[k] \in 1 .. L
      BY <1>1, <3>2
    <3> QED BY <1>1, <3>1, <3>3
  <2> QED BY <2>1, <2>2
<1>5. ASSUME NEW i \in cuts PROVE \E k \in 0 .. n : i = c[k]
  <2>1. CASE i = L + 1
    <3>1. n \in 0 .. n
      BY <1>1
    <3> QED BY <1>1, <2>1, <3>1
  <2>2. CASE i # L + 1
    <3>1. i \in c[0] .. c[n] - 1
      BY <1>1, <2>2
    <3>2. PICK k \in 1 .. n : i \in c[k - 1] .. c[k] - 1
      BY <1>3, <3>1
    <3>3. k - 1 \in 0 .. n
      BY <1>1
    <3>4. CASE i = c[k - 1]
      BY <3>3, <3>4
    <3>5. CASE i # c[k - 1]
      <4>1. c[k - 1] \in Int /\ c[k - 1] >= 0
        BY <1>1, <3>3
      <4>2. i \in c[k - 1] + 1 .. c[k] - 1 /\ i > 0
        BY <3>2, <3>5, <4>1
      <4>3. s[i] # byte
        BY <1>1, <4>2
      <4>4. s[i] = byte
        BY <2>2, <4>2
      <4> QED BY <4>3, <4>4
    <3> QED BY <3>4, <3>5
  <2> QED BY <2>1, <2>2
<1>6. cuts \subseteq Nat
  OBVIOUS
<1> HIDE DEF cuts
<1> DEFINE N == {m \in Nat : m <= n => IsFiniteSet(below(c[m])) /\ Cardinality(below(c[m])) = m}
<1>7. 0 \in N
  <2>1. below(c[0]) = {}
    <3>1. ASSUME NEW j \in cuts, j < c[0] PROVE FALSE
      <4>1. j \in Nat
        BY <1>6
      <4> QED BY <1>1, <3>1, <4>1
    <3> QED BY <3>1
  <2> QED BY <2>1, FS_EmptySet
<1>8. ASSUME NEW m \in N PROVE m + 1 \in N
  <2> SUFFICES ASSUME m + 1 <= n
               PROVE  IsFiniteSet(below(c[m + 1])) /\ Cardinality(below(c[m + 1])) = m + 1
    OBVIOUS
  <2>1. m \in Nat /\ m \in 0 .. n /\ m + 1 \in 0 .. n /\ IsFiniteSet(below(c[m])) /\ Cardinality(below(c[m])) = m
    BY <1>1
  <2> HIDE DEF N
  <2>2. below(c[m + 1]) = below(c[m]) \cup {c[m]}
    <3>1. c[m] < c[m + 1] /\ c[m] \in cuts /\ c[m] \in Int /\ c[m + 1] \in Int
      BY <1>2, <1>3, <1>4, <2>1
    <3>2. ASSUME NEW j \in cuts, j < c[m + 1] PROVE j < c[m] \/ j = c[m]
      <4>1. PICK k \in 0 .. n : j = c[k]
        BY <1>5
      <4>2. k <= m
        <5>1. CASE k = m + 1
          BY <3>1, <3>2, <4>1, <5>1
        <5>2. CASE k > m + 1
          <6>1. c[m + 1] < c[k] /\ c[k] \in Int
            BY <1>2, <1>3, <2>1, <5>2
          <6> QED BY <3>1, <3>2, <4>1, <6>1
        <5> QED BY <1>1, <2>1, <5>1, <5>2
      <4>3. CASE k = m
        BY <4>1, <4>3
      <4>4. CASE k < m
        BY <1>3, <2>1, <4>1, <4>4
      <4> QED BY <2>1, <4>2, <4>3, <4>4
    <3>3. ASSUME NEW j \in cuts, j < c[m] PROVE j < c[m + 1]
      <4>1. j \in Int
        BY <1>6
      <4> QED BY <3>1, <3>3, <4>1
    <3> QED BY <3>1, <3>2, <3>3
  <2>3. c[m] \notin below(c[m])
    <3>1. c[m] \in Int
      BY <1>2, <2>1
    <3> QED BY <3>1
  <2> DEFINE B == below(c[m])
  <2> HIDE DEF below
  <2>4. IsFiniteSet(B \cup {c[m]}) /\ Cardinality(B \cup {c[m]}) = Cardinality(B) + 1
    BY <2>1, <2>3, FS_AddElement
  <2> QED BY <2>1, <2>2, <2>4
<1> HIDE DEF N
<1>9. \A m \in Nat : m \in N
  BY <1>7, <1>8, SetInduction
<1>10. ASSUME NEW k \in 0 .. n PROVE IsFiniteSet(below(c[k])) /\ Cardinality(below(c[k])) = k
  <2>1. k \in N /\ k <= n
    BY <1>1, <1>9
  <2> HIDE DEF below
  <2> QED BY <2>1 DEF N
<1>11. ASSUME NEW k \in 0 .. n PROVE cut(k) = c[k]
  <2>1. c[k] \in cuts /\ Cardinality(below(c[k])) = k
    BY <1>4, <1>10
  <2>2. ASSUME NEW i \in cuts, Cardinality(below(i)) = k PROVE i = c[k]
    <3>1. PICK j \in 0 .. n : i = c[j]
      BY <1>5
    <3>2. Cardinality(below(c[j])) = j
      BY <1>10
    <3> HIDE DEF below
    <3>3. j = k
      BY <2>2, <3>1, <3>2
    <3> QED BY <3>1, <3>3
  <2> QED BY <2>1, <2>2
<1>12. Cardinality(cuts) = n + 1
  <2>0. n \in 0 .. n
    BY <1>1
  <2> PICK last : last = c[n]
    OBVIOUS
  <2>1. cuts = below(last) \cup {last}
    <3>1. ASSUME NEW i \in cuts PROVE i < last \/ i = last
      <4>1. PICK k \in 0 .. n : i = c[k]
        BY <1>5
      <4>2. CASE k = n
        BY <4>1, <4>2
      <4>3. CASE k # n
        <5>1. k < n
          BY <1>1, <4>3
        <5> QED BY <1>3, <2>0, <4>1, <5>1
      <4> QED BY <4>2, <4>3
    <3>2. last \in cuts
      BY <1>4, <2>0
    <3> QED BY <3>1, <3>2
  <2>2. last \notin below(last)
    <3>1. last \in Int
      BY <1>2, <2>0
    <3> QED BY <3>1
  <2>3. IsFiniteSet(below(last)) /\ Cardinality(below(last)) = n
    BY <1>10, <2>0
  <2> DEFINE B == below(last)
  <2> HIDE DEF below
  <2>4. Cardinality(B \cup {last}) = Cardinality(B) + 1
    BY <2>2, <2>3, FS_AddElement
  <2> QED BY <2>1, <2>3, <2>4
<1>13. Split(s, byte) = [k \in 1 .. Cardinality(cuts) - 1 |-> SubSeq(s, cut(k - 1) + 1, cut(k) - 1)]
  BY DEF Split, cuts
<1> HIDE DEF cut
<1>14. 1 .. Cardinality(cuts) - 1 = 1 .. n
  BY <1>1, <1>12
<1>15. ASSUME NEW k \in 1 .. n PROVE cut(k) = c[k] /\ cut(k - 1) = c[k - 1]
  <2>1. k \in 0 .. n /\ k - 1 \in 0 .. n
    BY <1>1
  <2> QED BY <1>11, <2>1
<1> QED BY <1>13, <1>14, <1>15 DEF Pieces

\* A part of a text: its bytes, and the parts of it.
LEMMA PartIs ==
  ASSUME NEW t \in Seq(Nat), NEW a \in Nat, NEW b \in Nat, a < b, b <= Len(t) + 1
  PROVE  LET s == SubSeq(t, a + 1, b - 1)
         IN  /\ s \in Seq(Nat) /\ Len(s) = b - 1 - a /\ Len(s) \in Nat /\ DOMAIN s = 1 .. Len(s)
             /\ \A i \in 1 .. Len(s) : s[i] = t[a + i]
             /\ \A i, j \in 0 .. Len(s) + 1 : i < j => SubSeq(s, i + 1, j - 1) = SubSeq(t, a + i + 1, a + j - 1)
<1> PICK s : s = SubSeq(t, a + 1, b - 1)
  OBVIOUS
<1>1. /\ s \in Seq(Nat) /\ Len(s) = b - 1 - a /\ Len(s) \in Nat /\ DOMAIN s = 1 .. Len(s)
      /\ \A i \in 1 .. Len(s) : s[i] = t[a + i]
  <2> PICK m \in Nat : m = a + 1
    OBVIOUS
  <2> PICK n \in Nat : n = b - 1
    OBVIOUS
  <2>1. m \in 1 .. Len(t) + 1 /\ n \in m - 1 .. Len(t) /\ s = SubSeq(t, m, n)
    OBVIOUS
  <2>2. /\ s \in Seq(Nat) /\ Len(s) = n - m + 1
        /\ \A i \in 1 .. n - m + 1 : s[i] = t[m + i - 1]
    <3>1. m \in Int /\ n \in Int /\ \A i \in m .. n : t[i] \in Nat
      OBVIOUS
    <3>2. /\ s \in Seq(Nat) /\ Len(s) = IF m <= n THEN n - m + 1 ELSE 0
          /\ \A i \in 1 .. n - m + 1 : s[i] = t[m + i - 1]
      <4>1. /\ SubSeq(t, m, n) \in Seq(Nat)
            /\ Len(SubSeq(t, m, n)) = IF m <= n THEN n - m + 1 ELSE 0
            /\ \A i \in 1 .. n - m + 1 : SubSeq(t, m, n)[i] = t[m + i - 1]
        BY <3>1, SubSeqProperties
      <4> QED BY <2>1, <4>1
    <3> QED BY <2>1, <3>2
  <2>3. n - m + 1 = b - 1 - a /\ b - 1 - a \in Nat /\ \A i \in Nat : m + i - 1 = a + i
    OBVIOUS
  <2>4. /\ s \in Seq(Nat) /\ Len(s) = b - 1 - a
        /\ \A i \in 1 .. b - 1 - a : s[i] = t[a + i]
    <3>1. ASSUME NEW i \in 1 .. b - 1 - a PROVE s[i] = t[a + i]
      <4>1. i \in 1 .. n - m + 1 /\ m + i - 1 = a + i
        BY <2>3
      <4>2. s[i] = t[m + i - 1]
        BY <2>2, <4>1
      <4> QED BY <4>1, <4>2
    <3> QED BY <2>2, <2>3, <3>1
  <2>5. DOMAIN s = 1 .. Len(s)
    BY <2>2
  <2> QED BY <2>3, <2>4, <2>5
<1>2. ASSUME NEW i \in 0 .. Len(s) + 1, NEW j \in 0 .. Len(s) + 1, i < j
      PROVE  SubSeq(s, i + 1, j - 1) = SubSeq(t, a + i + 1, a + j - 1)
  <2> DEFINE u == SubSeq(s, i + 1, j - 1)
             v == SubSeq(t, a + i + 1, a + j - 1)
  <2>1. u \in Seq(Nat) /\ Len(u) = j - 1 - i /\ \A k \in 1 .. j - 1 - i : u[k] = s[i + k]
    <3>1. i + 1 \in 1 .. Len(s) + 1 /\ j - 1 \in (i + 1) - 1 .. Len(s)
      BY <1>1, <1>2
    <3>2. /\ u \in Seq(Nat) /\ Len(u) = (j - 1) - (i + 1) + 1
          /\ \A k \in 1 .. (j - 1) - (i + 1) + 1 : u[k] = s[(i + 1) + k - 1]
      BY <1>1, <3>1, SubSeqProperties
    <3>3. (j - 1) - (i + 1) + 1 = j - 1 - i /\ \A k \in Nat : (i + 1) + k - 1 = i + k
      BY <1>1
    <3> QED BY <3>2, <3>3
  <2>2. v \in Seq(Nat) /\ Len(v) = j - 1 - i /\ \A k \in 1 .. j - 1 - i : v[k] = t[a + i + k]
    BY <1>1, <1>2
  <2> HIDE DEF u, v
  <2>3. \A k \in 1 .. j - 1 - i : u[k] = v[k]
    <3> SUFFICES ASSUME NEW k \in 1 .. j - 1 - i PROVE u[k] = v[k]
      OBVIOUS
    <3>1. u[k] = s[i + k] /\ v[k] = t[a + i + k]
      BY <2>1, <2>2
    <3>2. i + k \in 1 .. Len(s) /\ a + (i + k) = a + i + k
      BY <1>1, <1>2
    <3> QED BY <1>1, <3>1, <3>2
  <2>4. Len(u) = Len(v) /\ \A k \in 1 .. Len(u) : u[k] = v[k]
    BY <2>1, <2>2, <2>3
  <2>5. u = v
    BY <2>1, <2>2, <2>4, SeqEqual
  <2> QED BY <2>5 DEF u, v
<1> QED BY <1>1, <1>2

\* Positions counted from the beginning of a part.
LEMMA Shifted ==
  ASSUME NEW a \in Nat, NEW b \in Nat, NEW x \in a .. b, NEW y \in a .. b, x < y, NEW L, L = b - 1 - a,
         NEW u, u = x - a, NEW v, v = y - a
  PROVE  /\ u \in 0 .. L + 1 /\ v \in 0 .. L + 1 /\ u < v
         /\ a + u + 1 = x + 1 /\ a + v - 1 = y - 1
         /\ \A j \in u + 1 .. v - 1 : a + j \in x + 1 .. y - 1 /\ j \in 1 .. L
OBVIOUS

\* The pieces of a part of a text.
LEMMA SplitPart ==
  ASSUME NEW t \in Seq(Nat), NEW a \in Nat, NEW b \in Nat, a < b, b <= Len(t) + 1,
         NEW byte, NEW n, NEW c, Cut(t, a, b, byte, n, c)
  PROVE  Split(SubSeq(t, a + 1, b - 1), byte) = Pieces(t, n, c)
<1> PICK s : s = SubSeq(t, a + 1, b - 1)
  OBVIOUS
<1>1. /\ Len(s) = b - 1 - a /\ Len(s) \in Nat /\ DOMAIN s = 1 .. Len(s)
      /\ \A i \in 1 .. Len(s) : s[i] = t[a + i]
      /\ \A i, j \in 0 .. Len(s) + 1 : i < j => SubSeq(s, i + 1, j - 1) = SubSeq(t, a + i + 1, a + j - 1)
  BY PartIs
<1>2. /\ n \in Nat \ {0} /\ c \in [0 .. n -> a .. b] /\ c[0] = a /\ c[n] = b
      /\ \A k \in 1 .. n : c[k - 1] < c[k]
      /\ \A k \in 1 .. n - 1 : t[c[k]] = byte
      /\ \A k \in 1 .. n : \A j \in c[k - 1] + 1 .. c[k] - 1 : t[j] # byte
  BY DEF Cut
<1>3. /\ \A i, j \in 0 .. n : i < j => c[i] < c[j]
  <2>1. c \in [0 .. n -> Int] /\ n \in Nat
    BY <1>2
  <2> QED BY <1>2, <2>1, StepsUp
<1> DEFINE d == [k \in 0 .. n |-> c[k] - a]
<1>4. \A k \in 0 .. n : d[k] = c[k] - a /\ c[k] \in a .. b /\ d[k] \in 0 .. Len(s) + 1
  BY <1>1, <1>2, SMTT(60)
<1>5. d \in [0 .. n -> 0 .. Len(s) + 1] /\ d[0] = 0 /\ d[n] = Len(s) + 1
  <2>1. d \in [0 .. n -> 0 .. Len(s) + 1]
    BY <1>4
  <2>2. 0 \in 0 .. n /\ n \in 0 .. n /\ a - a = 0 /\ b - a = Len(s) + 1
    BY <1>1, <1>2
  <2> HIDE DEF d
  <2> QED BY <1>2, <1>4, <2>1, <2>2
<1> HIDE DEF d
<1>6. ASSUME NEW k \in 1 .. n
      PROVE  /\ d[k - 1] < d[k] /\ \A j \in d[k - 1] + 1 .. d[k] - 1 : s[j] # byte
             /\ SubSeq(s, d[k - 1] + 1, d[k] - 1) = SubSeq(t, c[k - 1] + 1, c[k] - 1)
  <2> DEFINE x == c[k - 1]
             y == c[k]
             u == d[k - 1]
             v == d[k]
  <2>1. k - 1 \in 0 .. n /\ k \in 0 .. n
    BY <1>2
  <2>2. u = x - a /\ x \in a .. b /\ v = y - a /\ y \in a .. b /\ x < y
    BY <1>2, <1>4, <2>1
  <2> HIDE DEF x, y, u, v
  <2>3. /\ u \in 0 .. Len(s) + 1 /\ v \in 0 .. Len(s) + 1 /\ u < v
        /\ a + u + 1 = x + 1 /\ a + v - 1 = y - 1
        /\ \A j \in u + 1 .. v - 1 : a + j \in x + 1 .. y - 1 /\ j \in 1 .. Len(s)
    BY <1>1, <2>2, Shifted
  <2>4. ASSUME NEW j \in u + 1 .. v - 1 PROVE s[j] # byte
    <3>1. t[a + j] # byte
      BY <1>2, <2>3 DEF x, y
    <3> QED BY <1>1, <2>3, <3>1
  <2>5. SubSeq(s, u + 1, v - 1) = SubSeq(t, a + u + 1, a + v - 1)
    BY <1>1, <2>3
  <2> QED BY <2>3, <2>4, <2>5 DEF x, y, u, v
<1>7. ASSUME NEW k \in 1 .. n - 1 PROVE s[d[k]] = byte
  <2>1. k \in 0 .. n /\ 0 \in 0 .. n /\ n \in 0 .. n /\ 0 < k /\ k < n
    BY <1>2
  <2>2. c[0] < c[k] /\ c[k] < c[n] /\ c[k] \in Int
    BY <1>3, <1>4, <2>1
  <2>3. d[k] \in 1 .. Len(s) /\ a + d[k] = c[k]
    <3> PICK y : y = c[k]
      OBVIOUS
    <3>1. d[k] = y - a /\ y \in Int /\ a < y /\ y < b /\ Len(s) = b - 1 - a
      BY <1>1, <1>2, <1>4, <2>1, <2>2
    <3>2. y - a \in 1 .. Len(s) /\ a + (y - a) = y
      BY <3>1
    <3> QED BY <3>1, <3>2
  <2>4. s[d[k]] = t[a + d[k]]
    BY <1>1, <2>3
  <2> QED BY <1>2, <2>3, <2>4
<1>8. Cut(s, 0, Len(s) + 1, byte, n, d)
  BY <1>2, <1>5, <1>6, <1>7 DEF Cut
<1>9. Split(s, byte) = Pieces(s, n, d)
  <2>1. Len(s) \in Nat /\ DOMAIN s = 1 .. Len(s)
    BY <1>1
  <2> QED BY <2>1, <1>8, SplitAt
<1>10. Pieces(s, n, d) = Pieces(t, n, c)
  BY <1>6 DEF Pieces
<1> QED BY <1>9, <1>10

\* A part of a text between colons that are cut.
LEMMA PieceIs ==
  ASSUME NEW t \in Seq(Nat), NEW a \in Nat, NEW b \in Nat, a < b, b <= Len(t) + 1,
         NEW n, NEW c, Cut(t, a, b, Colon, n, c), NEW k \in 1 .. n
  PROVE  LET p == SubSeq(t, c[k - 1] + 1, c[k] - 1)
         IN  /\ c[k - 1] \in Nat /\ c[k] \in Nat /\ c[k - 1] < c[k] /\ a <= c[k - 1] /\ c[k] <= b
             /\ p \in Seq(Nat) /\ Len(p) = c[k] - 1 - c[k - 1]
             /\ IsHextet(p) <=> /\ c[k - 1] + 1 < c[k] /\ c[k] <= c[k - 1] + 1 + Digits
                                /\ \A j \in c[k - 1] + 1 .. c[k] - 1 : is_hex_digit(t[j])
<1> DEFINE x == c[k - 1]
           y == c[k]
<1>1. x \in Nat /\ y \in Nat /\ x < y /\ a <= x /\ y <= b
  <2>1. n \in Nat /\ k - 1 \in 0 .. n /\ k \in 0 .. n /\ c \in [0 .. n -> a .. b] /\ c[k - 1] < c[k]
    BY DEF Cut
  <2>2. c[k - 1] \in a .. b /\ c[k] \in a .. b
    BY <2>1
  <2> QED BY <2>1, <2>2
<1> HIDE DEF x, y
<1> PICK p : p = SubSeq(t, x + 1, y - 1)
  OBVIOUS
<1>2. x < y /\ y <= Len(t) + 1
  BY <1>1
<1>3. p \in Seq(Nat) /\ Len(p) = y - 1 - x /\ DOMAIN p = 1 .. Len(p) /\ \A i \in 1 .. Len(p) : p[i] = t[x + i]
  BY <1>1, <1>2, PartIs
<1>4. Len(p) \in 1 .. Digits <=> x + 1 < y /\ y <= x + 1 + Digits
  BY <1>1, <1>3, IpAssumption
<1>5. (\A i \in DOMAIN p : is_hex_digit(p[i])) <=> \A j \in x + 1 .. y - 1 : is_hex_digit(t[j])
  <2>1. ASSUME \A i \in DOMAIN p : is_hex_digit(p[i]), NEW j \in x + 1 .. y - 1 PROVE is_hex_digit(t[j])
    <3>1. PICK i \in 1 .. Len(p) : j = x + i
      <4>1. j - x \in 1 .. Len(p) /\ j = x + (j - x)
        BY <1>1, <1>3
      <4> QED BY <4>1
    <3>2. p[i] = t[j] /\ i \in DOMAIN p
      BY <1>3, <3>1
    <3> QED BY <2>1, <3>2
  <2>2. ASSUME \A j \in x + 1 .. y - 1 : is_hex_digit(t[j]), NEW i \in DOMAIN p PROVE is_hex_digit(p[i])
    <3>0. i \in 1 .. Len(p) /\ Len(p) = y - 1 - x
      BY <1>3
    <3>3. p[i] = t[x + i]
      BY <1>3
    <3>1. x + i \in x + 1 .. y - 1 /\ p[i] = t[x + i]
      BY <1>1, <3>0, <3>3, SMTT(60)
    <3>2. is_hex_digit(t[x + i])
      BY <2>2, <3>1
    <3> QED BY <3>1, <3>2
  <2> QED BY <2>1, <2>2
<1>6. IsHextet(p) <=> /\ x + 1 < y /\ y <= x + 1 + Digits
                      /\ \A j \in x + 1 .. y - 1 : is_hex_digit(t[j])
  BY <1>4, <1>5 DEF IsHextet
<1> QED BY <1>1, <1>3, <1>6 DEF x, y

\* What can be seen of hextets between colons, without cutting them: bytes, no colon
\* at either end or next to another, no more digits in a row than a hextet has.
Shape(t, a, b) ==
  /\ \A j \in a + 1 .. b - 1 : is_hex_digit(t[j]) \/ t[j] = Colon
  /\ t[a + 1] # Colon /\ t[b - 1] # Colon
  /\ \A j \in a + 1 .. b - 2 : ~(t[j] = Colon /\ t[j + 1] = Colon)
  /\ \A j \in Nat : a + 1 <= j /\ j + Digits <= b - 1 => \E i \in j .. j + Digits : ~is_hex_digit(t[i])

\* A colon is no digit.
LEMMA ColonIsNone == ~is_hex_digit(Colon) /\ ~is_hex_digit(Dot) /\ Colon # Dot
  BY DEF is_hex_digit, Colon, Dot

\* Where all pieces are hextets.
HextetsAt(t, a, b, n, c) ==
  /\ Cut(t, a, b, Colon, n, c)
  /\ \A k \in 1 .. n : /\ c[k - 1] + 1 < c[k] /\ c[k] <= c[k - 1] + 1 + Digits
                       /\ \A j \in c[k - 1] + 1 .. c[k] - 1 : is_hex_digit(t[j])

\* The pieces at the colons are hextets where the cuts are so far apart.
LEMMA HextetsSplit ==
  ASSUME NEW t \in Seq(Nat), NEW a \in Nat, NEW b \in Nat, a < b, b <= Len(t) + 1,
         NEW n, NEW c, Cut(t, a, b, Colon, n, c)
  PROVE  LET fs == Split(SubSeq(t, a + 1, b - 1), Colon)
         IN  /\ fs = Pieces(t, n, c) /\ Len(fs) = n /\ n \in Nat \ {0}
             /\ AreHextets(fs) <=> HextetsAt(t, a, b, n, c)
<1> PICK fs : fs = Split(SubSeq(t, a + 1, b - 1), Colon)
  OBVIOUS
<1>1. fs = Pieces(t, n, c)
  BY SplitPart
<1>2. n \in Nat \ {0}
  BY DEF Cut
<1>3. Len(fs) = n /\ DOMAIN fs = 1 .. n /\ \A k \in 1 .. n : fs[k] = SubSeq(t, c[k - 1] + 1, c[k] - 1)
  BY <1>1, <1>2 DEF Pieces
<1>4. ASSUME NEW k \in 1 .. n
      PROVE  IsHextet(fs[k]) <=> /\ c[k - 1] + 1 < c[k] /\ c[k] <= c[k - 1] + 1 + Digits
                                 /\ \A j \in c[k - 1] + 1 .. c[k] - 1 : is_hex_digit(t[j])
  <2> DEFINE p == SubSeq(t, c[k - 1] + 1, c[k] - 1)
  <2>1. IsHextet(p) <=> /\ c[k - 1] + 1 < c[k] /\ c[k] <= c[k - 1] + 1 + Digits
                        /\ \A j \in c[k - 1] + 1 .. c[k] - 1 : is_hex_digit(t[j])
    BY PieceIs
  <2>2. fs[k] = p
    BY <1>3
  <2> HIDE DEF p
  <2> QED BY <2>1, <2>2
<1>5. AreHextets(fs) <=> HextetsAt(t, a, b, n, c)
  BY <1>3, <1>4 DEF AreHextets, HextetsAt
<1> QED BY <1>1, <1>2, <1>3, <1>5

\* All positions of such a part are in a hextet or a colon.
LEMMA HextetsShape ==
  ASSUME NEW t \in Seq(Nat), NEW a \in Nat, NEW b \in Nat, a < b, b <= Len(t) + 1,
         NEW n, NEW c, HextetsAt(t, a, b, n, c)
  PROVE  Shape(t, a, b) /\ a + 1 < b
<1>1. /\ n \in Nat \ {0} /\ c \in [0 .. n -> a .. b] /\ c[0] = a /\ c[n] = b
      /\ \A k \in 1 .. n : c[k - 1] < c[k]
      /\ \A k \in 1 .. n - 1 : t[c[k]] = Colon
      /\ \A k \in 1 .. n : /\ c[k - 1] + 1 < c[k] /\ c[k] <= c[k - 1] + 1 + Digits
                           /\ \A j \in c[k - 1] + 1 .. c[k] - 1 : is_hex_digit(t[j])
  BY DEF HextetsAt, Cut
<1>2. c \in [0 .. n -> Int] /\ n \in Nat
  BY <1>1
<1>3. \A x \in a .. b - 1 : \E k \in 1 .. n : x \in c[k - 1] .. c[k] - 1
  BY <1>1, <1>2, StepsUp
<1>4. Digits \in Nat \ {0}
  BY IpAssumption
<1>5. ASSUME NEW k \in 1 .. n
      PROVE  /\ c[k - 1] \in a .. b /\ c[k] \in a .. b /\ c[k - 1] + 1 < c[k] /\ c[k] <= c[k - 1] + 1 + Digits
             /\ \A j \in c[k - 1] + 1 .. c[k] - 1 : is_hex_digit(t[j])
             /\ k # 1 => t[c[k - 1]] = Colon /\ c[k - 1] > a
             /\ k = 1 => c[k - 1] = a
             /\ k # n => t[c[k]] = Colon
             /\ k = n => c[k] = b
  <2>1. k - 1 \in 0 .. n /\ k \in 0 .. n
    BY <1>1
  <2>2. c[k - 1] \in a .. b /\ c[k] \in a .. b
    BY <1>1, <2>1
  <2>3. CASE k = 1
    <3>1. k - 1 = 0
      BY <2>3
    <3>2. k # n => k \in 1 .. n - 1
      BY <1>1
    <3> QED BY <1>1, <2>2, <2>3, <3>1, <3>2
  <2>4. CASE k # 1
    <3>1. k - 1 \in 1 .. n - 1 /\ (k # n => k \in 1 .. n - 1)
      BY <1>1, <2>4
    <3>2. 0 \in 0 .. n /\ 0 < k - 1
      BY <1>1, <2>4
    <3>3. c[0] < c[k - 1]
      BY <1>1, <1>2, <2>1, <3>2, StepsUp
    <3> QED BY <1>1, <2>2, <2>4, <3>1, <3>3
  <2> QED BY <2>3, <2>4
<1>6. ASSUME NEW j \in a + 1 .. b - 1
      PROVE  \E k \in 1 .. n : \/ j = c[k - 1] /\ k # 1
                               \/ j \in c[k - 1] + 1 .. c[k] - 1
  <2>1. PICK k \in 1 .. n : j \in c[k - 1] .. c[k] - 1
    BY <1>3, SMTT(60)
  <2>2. c[k - 1] \in a .. b /\ c[k] \in a .. b
    BY <1>5
  <2>3. j # c[k - 1] => j \in c[k - 1] + 1 .. c[k] - 1
    BY <2>1, <2>2
  <2>4. k = 1 => j # c[k - 1]
    BY <1>1
  <2> QED BY <2>3, <2>4
<1>7. ASSUME NEW j \in a + 1 .. b - 1 PROVE is_hex_digit(t[j]) \/ t[j] = Colon
  <2>1. PICK k \in 1 .. n : \/ j = c[k - 1] /\ k # 1
                            \/ j \in c[k - 1] + 1 .. c[k] - 1
    BY <1>6
  <2>2. CASE j = c[k - 1] /\ k # 1
    BY <1>5, <2>2
  <2>3. CASE j \in c[k - 1] + 1 .. c[k] - 1
    BY <1>5, <2>3
  <2> QED BY <2>1, <2>2, <2>3
<1>8. t[a + 1] # Colon /\ t[b - 1] # Colon /\ a + 1 < b
  <2>1. 1 \in 1 .. n /\ n \in 1 .. n
    BY <1>1
  <2>2. is_hex_digit(t[a + 1]) /\ a + 1 < b
    <3>1. c[1 - 1] = a /\ c[1 - 1] + 1 < c[1] /\ c[1] \in a .. b
      BY <1>5, <2>1
    <3>2. a + 1 \in c[1 - 1] + 1 .. c[1] - 1
      BY <3>1
    <3> QED BY <1>5, <2>1, <3>1, <3>2
  <2>3. is_hex_digit(t[b - 1])
    <3>1. c[n] = b /\ c[n - 1] + 1 < c[n] /\ c[n - 1] \in a .. b
      BY <1>5, <2>1
    <3>2. b - 1 \in c[n - 1] + 1 .. c[n] - 1
      BY <3>1
    <3> QED BY <1>5, <2>1, <3>2
  <2> QED BY <2>2, <2>3, ColonIsNone
<1>9. ASSUME NEW j \in a + 1 .. b - 2 PROVE ~(t[j] = Colon /\ t[j + 1] = Colon)
  <2>1. j \in a + 1 .. b - 1
    OBVIOUS
  <2>2. PICK k \in 1 .. n : \/ j = c[k - 1] /\ k # 1
                            \/ j \in c[k - 1] + 1 .. c[k] - 1
    BY <1>6, <2>1
  <2>3. CASE j = c[k - 1]
    <3>1. j + 1 \in c[k - 1] + 1 .. c[k] - 1
      BY <1>5, <2>3, SMTT(60)
    <3>2. is_hex_digit(t[j + 1])
      BY <1>5, <3>1
    <3> QED BY <3>2, ColonIsNone
  <2>4. CASE j \in c[k - 1] + 1 .. c[k] - 1
    <3>1. is_hex_digit(t[j])
      BY <1>5, <2>4
    <3> QED BY <3>1, ColonIsNone
  <2> QED BY <2>2, <2>3, <2>4
<1>10. ASSUME NEW j \in Nat, a + 1 <= j, j + Digits <= b - 1
       PROVE  \E i \in j .. j + Digits : ~is_hex_digit(t[i])
  <2>1. j \in a + 1 .. b - 1
    BY <1>4, <1>10
  <2>2. PICK k \in 1 .. n : \/ j = c[k - 1] /\ k # 1
                            \/ j \in c[k - 1] + 1 .. c[k] - 1
    BY <1>6, <2>1
  <2>3. CASE j = c[k - 1] /\ k # 1
    <3>1. t[j] = Colon
      BY <1>5, <2>3
    <3>2. j \in j .. j + Digits
      BY <1>4
    <3> QED BY <3>1, <3>2, ColonIsNone
  <2>4. CASE j \in c[k - 1] + 1 .. c[k] - 1
    <3> DEFINE x == c[k - 1]
               y == c[k]
    <3>1. x \in Int /\ y \in Int /\ x + 1 <= j /\ j <= y - 1 /\ y <= x + 1 + Digits
      BY <1>5, <2>4
    <3>2. k # n => t[y] = Colon
      BY <1>5
    <3>3. k = n => y = b
      BY <1>5
    <3> HIDE DEF x, y
    <3>4. y \in j .. j + Digits
      BY <1>4, <3>1
    <3>5. y <= b - 1
      BY <1>4, <1>10, <3>4
    <3>6. t[y] = Colon
      BY <3>2, <3>3, <3>5
    <3> QED BY <3>4, <3>6, ColonIsNone
  <2> QED BY <2>2, <2>3, <2>4
<1> QED BY <1>7, <1>8, <1>9, <1>10 DEF Shape

\* There are more pieces than colons.
LEMMA ColonsCount ==
  ASSUME NEW t \in Seq(Nat), NEW a \in Nat, NEW b \in Nat, a < b, b <= Len(t) + 1,
         NEW m \in Nat, NEW q \in [1 .. m -> a + 1 .. b - 1],
         \A i, j \in 1 .. m : i < j => q[i] < q[j], \A i \in 1 .. m : t[q[i]] = Colon
  PROVE  Len(Split(SubSeq(t, a + 1, b - 1), Colon)) > m
<1>1. PICK n, c : Cut(t, a, b, Colon, n, c)
  BY CutExists
<1>2. Len(Split(SubSeq(t, a + 1, b - 1), Colon)) = n
  BY <1>1, HextetsSplit
<1>3. /\ n \in Nat \ {0} /\ n \in Nat /\ c \in [0 .. n -> a .. b] /\ c[0] = a /\ c[n] = b
      /\ \A k \in 1 .. n : c[k - 1] < c[k]
      /\ \A k \in 1 .. n : \A j \in c[k - 1] + 1 .. c[k] - 1 : t[j] # Colon
  BY <1>1 DEF Cut
<1>4. c \in [0 .. n -> Int]
  BY <1>3
<1>5. /\ \A i, j \in 0 .. n : i < j => c[i] < c[j]
      /\ \A x \in a .. b - 1 : \E k \in 1 .. n : x \in c[k - 1] .. c[k] - 1
  BY <1>3, <1>4, StepsUp
<1>6. ASSUME NEW i \in 1 .. m PROVE \E k \in 0 .. n - 1 : q[i] = c[k]
  <2>1. q[i] \in a + 1 .. b - 1 /\ q[i] \in a .. b - 1 /\ t[q[i]] = Colon
    OBVIOUS
  <2>2. PICK k \in 1 .. n : q[i] \in c[k - 1] .. c[k] - 1
    BY <1>5, <2>1
  <2>3. k - 1 \in 0 .. n - 1 /\ c[k - 1] \in Int
    BY <1>3
  <2>4. q[i] \notin c[k - 1] + 1 .. c[k] - 1
    BY <1>3, <2>1
  <2>5. q[i] = c[k - 1]
    BY <2>2, <2>3, <2>4, SMTT(60)
  <2> QED BY <2>3, <2>5
<1> DEFINE N == {i \in Nat : i \in 1 .. m => \E k \in i .. n - 1 : q[i] = c[k]}
<1>7. 0 \in N
  OBVIOUS
<1>8. ASSUME NEW i \in N PROVE i + 1 \in N
  <2> SUFFICES ASSUME i + 1 \in 1 .. m PROVE \E k \in i + 1 .. n - 1 : q[i + 1] = c[k]
    OBVIOUS
  <2>0. i \in Nat
    OBVIOUS
  <2>1. PICK k \in 0 .. n - 1 : q[i + 1] = c[k]
    BY <1>6
  <2>2. CASE i = 0
    <3>1. q[i + 1] > a /\ q[i + 1] \in Int
      BY <2>2
    <3>2. k # 0
      BY <1>3, <2>1, <3>1
    <3>3. k \in i + 1 .. n - 1
      BY <1>3, <2>2, <3>2
    <3> QED BY <2>1, <3>3
  <2>3. CASE i # 0
    <3>1. i \in 1 .. m /\ i < i + 1
      BY <2>0, <2>3
    <3>2. PICK l \in i .. n - 1 : q[i] = c[l]
      BY <3>1
    <3> HIDE DEF N
    <3>3. q[i] < q[i + 1] /\ q[i] \in Int /\ q[i + 1] \in Int
      BY <2>0, <3>1, SMTT(60)
    <3>4. k \in 0 .. n /\ l \in 0 .. n /\ l \in Int /\ k \in Int
      BY <1>3, <2>0
    <3>5. ~(k < l) /\ k # l
      <4>1. CASE k < l
        <5>1. c[k] < c[l]
          BY <1>5, <3>4, <4>1
        <5>2. c[k] \in Int /\ c[l] \in Int
          BY <1>4, <3>4
        <5> QED BY <2>1, <3>2, <3>3, <5>1, <5>2, SMTT(60)
      <4>2. CASE k = l
        BY <2>1, <3>2, <3>3, <4>2, SMTT(60)
      <4> QED BY <4>1, <4>2
    <3>6. k \in i + 1 .. n - 1
      BY <1>3, <2>0, <3>4, <3>5
    <3> QED BY <2>1, <3>6
  <2> QED BY <2>2, <2>3
<1> HIDE DEF N
<1>9. \A i \in Nat : i \in N
  BY <1>7, <1>8, SetInduction
<1>10. n > m
  <2>1. CASE m = 0
    BY <1>3, <2>1
  <2>2. CASE m # 0
    <3>1. m \in 1 .. m /\ m \in N
      BY <1>9, <2>2
    <3>2. PICK k \in m .. n - 1 : q[m] = c[k]
      BY <3>1 DEF N
    <3> QED BY <1>3, <3>2
  <2> QED BY <2>1, <2>2
<1> QED BY <1>2, <1>10
-----------------------------------------------------------------------------
(* What a text has that stands for an address.                             *)

Plain(t) == Len(Fields(t)) = Hextets /\ AreHextets(Fields(t))
Front1(t, i) == Fields(SubSeq(t, 1, i - 1))
Behind(t, i) == Fields(SubSeq(t, i + 2, Len(t)))
Around(t, i) ==
  /\ i \in 1 .. Len(t) - 1 /\ t[i] = Colon /\ t[i + 1] = Colon
  /\ AreHextets(Front1(t, i)) /\ AreHextets(Behind(t, i))
  /\ Len(Front1(t, i)) + Len(Behind(t, i)) < Hextets
Filled(f, g) == ValuesOf(f) \o [i \in 1 .. Hextets - Len(f) - Len(g) |-> 0] \o ValuesOf(g)

\* What is meant by a text, by its ellipsis or without one.
LEMMA MeantIs ==
  ASSUME NEW t, NEW h
  PROVE  h \in Meant(t) <=> \/ Plain(t) /\ h = ValuesOf(Fields(t))
                            \/ \E i : Around(t, i) /\ h = Filled(Front1(t, i), Behind(t, i))
<1> DEFINE P == {ValuesOf(fs) : fs \in {f \in {Fields(t)} : Len(f) = Hextets /\ AreHextets(f)}}
           E == {j \in 1 .. Len(t) - 1 : t[j] = Colon /\ t[j + 1] = Colon}
           D == {f \in {<<Front1(t, i), Behind(t, i)>> : i \in E} :
                   AreHextets(f[1]) /\ AreHextets(f[2]) /\ Len(f[1]) + Len(f[2]) < Hextets}
           Q == {Filled(fs[1], fs[2]) : fs \in D}
<1>1. Meant(t) = P \cup Q
  BY DEF Meant, Filled, Front1, Behind
<1>2. h \in P <=> Plain(t) /\ h = ValuesOf(Fields(t))
  BY DEF Plain
<1>3. ASSUME h \in Q PROVE \E i : Around(t, i) /\ h = Filled(Front1(t, i), Behind(t, i))
  <2>1. PICK fs \in D : h = Filled(fs[1], fs[2])
    BY <1>3
  <2>2. PICK i \in E : fs = <<Front1(t, i), Behind(t, i)>>
    OBVIOUS
  <2>3. fs[1] = Front1(t, i) /\ fs[2] = Behind(t, i)
    BY <2>2
  <2>4. Around(t, i)
    BY <2>3 DEF Around
  <2> QED BY <2>1, <2>3, <2>4
<1>4. ASSUME NEW i, Around(t, i), h = Filled(Front1(t, i), Behind(t, i)) PROVE h \in Q
  <2> PICK fs : fs = <<Front1(t, i), Behind(t, i)>>
    OBVIOUS
  <2>1. fs[1] = Front1(t, i) /\ fs[2] = Behind(t, i)
    OBVIOUS
  <2>2. i \in E
    BY <1>4 DEF Around
  <2>3. fs \in D
    BY <1>4, <2>1, <2>2 DEF Around
  <2> HIDE DEF D
  <2> QED BY <1>4, <2>1, <2>3
<1> HIDE DEF P, Q
<1> QED BY <1>1, <1>2, <1>3, <1>4

\* The fields of a part of a text.
LEMMA PartFields ==
  ASSUME NEW t \in Seq(Nat), NEW a \in Nat, NEW b \in Nat, a < b, b <= Len(t) + 1
  PROVE  LET fs == Fields(SubSeq(t, a + 1, b - 1))
         IN  /\ a + 1 = b => fs = <<>>
             /\ a + 1 < b => /\ fs = Split(SubSeq(t, a + 1, b - 1), Colon)
                             /\ AreHextets(fs) => Shape(t, a, b)
<1> PICK s : s = SubSeq(t, a + 1, b - 1)
  OBVIOUS
<1>1. s \in Seq(Nat) /\ Len(s) = b - 1 - a
  BY PartIs
<1>2. CASE a + 1 = b
  <2>1. s = <<>>
    BY <1>1, <1>2
  <2> QED BY <1>2, <2>1 DEF Fields
<1>3. CASE a + 1 < b
  <2>1. s # <<>>
    BY <1>1, <1>3, SMTT(60)
  <2>2. Fields(s) = Split(s, Colon)
    BY <2>1 DEF Fields
  <2>3. PICK n, c : Cut(t, a, b, Colon, n, c)
    BY CutExists
  <2>4. ASSUME AreHextets(Split(s, Colon)) PROVE Shape(t, a, b)
    <3>1. HextetsAt(t, a, b, n, c)
      BY <2>3, <2>4, HextetsSplit
    <3> QED BY <3>1, HextetsShape
  <2> QED BY <1>3, <2>2, <2>4
<1> QED BY <1>2, <1>3

\* A text is a part of itself.
LEMMA WholeIs == ASSUME NEW t \in Seq(Nat) PROVE SubSeq(t, 0 + 1, (Len(t) + 1) - 1) = t
OBVIOUS

\* The bytes of a text without an ellipsis that means something.
LEMMA PlainShape ==
  ASSUME NEW t \in Seq(Nat), Plain(t) PROVE Len(t) > 0 /\ Shape(t, 0, Len(t) + 1)
<1>1. Len(t) > 0
  <2>1. CASE t = <<>>
    BY <2>1, IpAssumption DEF Plain, Fields
  <2> QED BY <2>1
<1>2. 0 \in Nat /\ Len(t) + 1 \in Nat /\ 0 < Len(t) + 1 /\ Len(t) + 1 <= Len(t) + 1 /\ 0 + 1 < Len(t) + 1
  BY <1>1
<1>3. AreHextets(Fields(SubSeq(t, 0 + 1, (Len(t) + 1) - 1)))
  BY WholeIs DEF Plain
<1> QED BY <1>1, <1>2, <1>3, PartFields

\* The bytes of one with an ellipsis.
LEMMA AroundShape ==
  ASSUME NEW t \in Seq(Nat), NEW i, Around(t, i)
  PROVE  /\ i \in Nat /\ i >= 1 /\ i + 1 <= Len(t) /\ t[i] = Colon /\ t[i + 1] = Colon
         /\ i # 1 => Shape(t, 0, i)
         /\ i + 1 # Len(t) => Shape(t, i + 1, Len(t) + 1)
<1>1. i \in Nat /\ i >= 1 /\ i + 1 <= Len(t) /\ t[i] = Colon /\ t[i + 1] = Colon /\ Len(t) \in Nat
  BY DEF Around
<1>2. ASSUME i # 1 PROVE Shape(t, 0, i)
  <2>1. 0 < i /\ i <= Len(t) + 1 /\ 0 + 1 < i /\ 0 \in Nat
    BY <1>1, <1>2
  <2>2. AreHextets(Fields(SubSeq(t, 0 + 1, i - 1)))
    BY DEF Around, Front1
  <2> QED BY <1>1, <2>1, <2>2, PartFields
<1>3. ASSUME i + 1 # Len(t) PROVE Shape(t, i + 1, Len(t) + 1)
  <2> PICK a \in Nat : a = i + 1
    BY <1>1
  <2> PICK b \in Nat : b = Len(t) + 1
    BY <1>1
  <2>1. a < b /\ b <= Len(t) + 1 /\ a + 1 < b /\ a + 1 = i + 2 /\ b - 1 = Len(t)
    BY <1>1, <1>3
  <2>2. AreHextets(Fields(SubSeq(t, a + 1, b - 1)))
    BY <2>1 DEF Around, Behind
  <2>3. Shape(t, a, b)
    BY <2>1, <2>2, PartFields
  <2> QED BY <2>3
<1> QED BY <1>1, <1>2, <1>3

\* What is true of every text that stands for an address.
Well(t) ==
  /\ \A j \in 1 .. Len(t) : is_hex_digit(t[j]) \/ t[j] = Colon
  /\ \A i, j \in 1 .. Len(t) - 1 :
       t[i] = Colon /\ t[i + 1] = Colon /\ t[j] = Colon /\ t[j + 1] = Colon => i = j
  /\ \A j \in 1 .. Len(t) - Digits : \E i \in j .. j + Digits : ~is_hex_digit(t[i])
  /\ Len(t) > 1
  /\ t[1] = Colon => t[2] = Colon
  /\ t[Len(t)] = Colon => t[Len(t) - 1] = Colon

\* There is no ellipsis but the one the text is read around.
LEMMA OneEllipsis ==
  ASSUME NEW t \in Seq(Nat), NEW i, Around(t, i), NEW j \in 1 .. Len(t) - 1,
         t[j] = Colon, t[j + 1] = Colon
  PROVE  j = i
<1>1. /\ i \in Nat /\ i >= 1 /\ i + 1 <= Len(t) /\ Len(t) \in Nat /\ j \in Nat
      /\ i # 1 => Shape(t, 0, i)
      /\ i + 1 # Len(t) => Shape(t, i + 1, Len(t) + 1)
  BY AroundShape
<1>2. CASE j < i
  <2>1. Shape(t, 0, i)
    BY <1>1, <1>2
  <2>2. CASE j = i - 1
    <3>1. t[i - 1] # Colon
      BY <2>1 DEF Shape
    <3> QED BY <2>2, <3>1
  <2>3. CASE j # i - 1
    <3>1. j \in 0 + 1 .. i - 2
      BY <1>1, <1>2, <2>3
    <3> QED BY <2>1, <3>1 DEF Shape
  <2> QED BY <2>2, <2>3
<1>3. CASE j > i
  <2>1. Shape(t, i + 1, Len(t) + 1)
    BY <1>1, <1>3
  <2>2. CASE j = i + 1
    <3>1. t[(i + 1) + 1] # Colon
      BY <2>1 DEF Shape
    <3> QED BY <1>1, <2>2, <3>1
  <2>3. CASE j # i + 1
    <3>1. j \in (i + 1) + 1 .. (Len(t) + 1) - 2
      BY <1>1, <1>3, <2>3
    <3> QED BY <2>1, <3>1 DEF Shape
  <2> QED BY <2>2, <2>3
<1> QED BY <1>1, <1>2, <1>3

\* A text of one hextet, or none, has no eight of them.
LEMMA PlainLong == ASSUME NEW t \in Seq(Nat), Plain(t) PROVE Len(t) > 1
<1>1. Len(t) > 0 /\ Len(t) \in Nat
  BY PlainShape
<1>2. ASSUME Len(t) = 1 PROVE FALSE
  <2>0. 0 \in Nat /\ 2 \in Nat /\ 0 < 2
    OBVIOUS
  <2>1. PICK n, c : Cut(t, 0, 2, Colon, n, c)
    BY <2>0, CutExists
  <2>2. n \in Nat /\ n >= 1 /\ c \in [0 .. n -> 0 .. 2] /\ c[0] = 0 /\ c[n] = 2 /\ \A k \in 1 .. n : c[k - 1] < c[k]
    BY <2>1 DEF Cut
  <2>3. t # <<>> /\ SubSeq(t, 0 + 1, 2 - 1) = t /\ 2 <= Len(t) + 1
    BY <1>2, SMTT(60)
  <2>4. Len(Split(t, Colon)) = n
    <3> QED BY <2>0, <2>1, <2>3, HextetsSplit
  <2>5. n = Hextets /\ n >= 3
    BY <2>3, <2>4, IpAssumption DEF Plain, Fields
  <2>6. /\ 0 \in 0 .. n /\ 1 \in 0 .. n /\ 2 \in 0 .. n /\ 3 \in 0 .. n
        /\ 1 - 1 = 0 /\ 2 - 1 = 1 /\ 3 - 1 = 2 /\ 1 \in 1 .. n /\ 2 \in 1 .. n /\ 3 \in 1 .. n
    <3>1. n \in Nat /\ n >= 3
      BY <2>2, <2>5
    <3> QED BY <3>1
  <2>7. c[0] < c[1] /\ c[1] < c[2] /\ c[2] < c[3] /\ c[0] \in 0 .. 2 /\ c[1] \in 0 .. 2 /\ c[2] \in 0 .. 2 /\ c[3] \in 0 .. 2
    BY <2>2, <2>6
  <2> QED BY <2>7
<1>3. Len(t) # 1
  BY <1>2
<1>4. \A m \in Nat : m > 0 /\ m # 1 => m > 1
  OBVIOUS
<1> QED BY <1>1, <1>3, <1>4

\* What is read as an address looks like one.
LEMMA MeantWell ==
  ASSUME NEW t \in Seq(Nat), NEW h \in Meant(t) PROVE Well(t)
<1>0. Digits \in Nat \ {0} /\ Len(t) \in Nat
  BY IpAssumption
<1>1. CASE Plain(t)
  <2>1. Len(t) > 1 /\ Shape(t, 0, Len(t) + 1)
    BY <1>1, PlainShape, PlainLong
  <2> PICK e \in Nat : e = Len(t) + 1
    BY <1>0
  <2>2. /\ \A j \in 0 + 1 .. e - 1 : is_hex_digit(t[j]) \/ t[j] = Colon
        /\ t[0 + 1] # Colon /\ t[e - 1] # Colon
        /\ \A j \in 0 + 1 .. e - 2 : ~(t[j] = Colon /\ t[j + 1] = Colon)
        /\ \A j \in Nat : 0 + 1 <= j /\ j + Digits <= e - 1 => \E i \in j .. j + Digits : ~is_hex_digit(t[i])
    BY <2>1 DEF Shape
  <2>3. e - 1 = Len(t) /\ e - 2 = Len(t) - 1 /\ 0 + 1 = 1
    BY <1>0
  <2>4. \A j \in 1 .. Len(t) - Digits : j \in Nat /\ 1 <= j /\ j + Digits <= Len(t)
    BY <1>0
  <2> QED BY <2>1, <2>2, <2>3, <2>4 DEF Well
<1>2. CASE ~Plain(t)
  <2>1. PICK m : Around(t, m)
    BY <1>2, MeantIs
  <2>2. /\ m \in Nat /\ m >= 1 /\ m + 1 <= Len(t) /\ t[m] = Colon /\ t[m + 1] = Colon
        /\ m # 1 => Shape(t, 0, m)
        /\ m + 1 # Len(t) => Shape(t, m + 1, Len(t) + 1)
    BY <2>1, AroundShape
  <2>3. ASSUME NEW j \in 1 .. Len(t) PROVE is_hex_digit(t[j]) \/ t[j] = Colon
    <3>1. CASE j = m \/ j = m + 1
      BY <2>2, <3>1
    <3>2. CASE j < m
      <4>1. j \in 0 + 1 .. m - 1 /\ m # 1
        BY <2>2, <3>2
      <4> QED BY <2>2, <4>1 DEF Shape
    <3>3. CASE j > m + 1
      <4>1. j \in (m + 1) + 1 .. (Len(t) + 1) - 1 /\ m + 1 # Len(t)
        BY <1>0, <2>2, <3>3
      <4> QED BY <2>2, <4>1 DEF Shape
    <3> QED BY <2>2, <3>1, <3>2, <3>3
  <2>4. ASSUME NEW i \in 1 .. Len(t) - 1, NEW j \in 1 .. Len(t) - 1,
               t[i] = Colon, t[i + 1] = Colon, t[j] = Colon, t[j + 1] = Colon
        PROVE  i = j
    BY <2>1, <2>4, OneEllipsis
  <2>5. ASSUME NEW j \in 1 .. Len(t) - Digits PROVE \E i \in j .. j + Digits : ~is_hex_digit(t[i])
    <3>0. j \in Nat /\ 1 <= j /\ j + Digits <= Len(t)
      BY <1>0
    <3>1. CASE j + Digits < m
      <4>1. 0 + 1 <= j /\ j + Digits <= m - 1 /\ m # 1
        BY <1>0, <2>2, <3>0, <3>1
      <4>2. Shape(t, 0, m)
        BY <2>2, <4>1
      <4> QED BY <3>0, <4>1, <4>2 DEF Shape
    <3>2. CASE j > m + 1
      <4>1. (m + 1) + 1 <= j /\ j + Digits <= (Len(t) + 1) - 1 /\ m + 1 # Len(t)
        BY <1>0, <2>2, <3>0, <3>2
      <4>2. Shape(t, m + 1, Len(t) + 1)
        BY <2>2, <4>1
      <4> QED BY <3>0, <4>1, <4>2 DEF Shape
    <3>3. CASE j <= m + 1 /\ j + Digits >= m
      <4>1. m \in j .. j + Digits \/ m + 1 \in j .. j + Digits
        BY <1>0, <2>2, <3>0, <3>3
      <4> QED BY <2>2, <4>1, ColonIsNone
    <3> QED BY <1>0, <2>2, <3>0, <3>1, <3>2, <3>3
  <2>6. t[1] = Colon => t[2] = Colon
    <3>1. CASE m = 1
      BY <2>2, <3>1
    <3>2. CASE m # 1
      BY <2>2, <3>2 DEF Shape
    <3> QED BY <3>1, <3>2
  <2>7. t[Len(t)] = Colon => t[Len(t) - 1] = Colon
    <3>1. CASE m + 1 = Len(t)
      <4>1. m = Len(t) - 1
        BY <2>2, <3>1
      <4> QED BY <2>2, <4>1
    <3>2. CASE m + 1 # Len(t)
      <4>1. t[(Len(t) + 1) - 1] # Colon
        BY <2>2, <3>2 DEF Shape
      <4>2. (Len(t) + 1) - 1 = Len(t)
        BY <1>0
      <4> QED BY <4>1, <4>2
    <3> QED BY <3>1, <3>2
  <2>8. Len(t) > 1
    BY <1>0, <2>2
  <2> QED BY <2>3, <2>4, <2>5, <2>6, <2>7, <2>8 DEF Well
<1> QED BY <1>1, <1>2
-----------------------------------------------------------------------------
(* What has been read of a text.                                           *)

\* The numbers of addr, from e on, are what the hextets say.
Valued(t, n, c, addr, e) == \A k \in 1 .. n : addr[e + k - 1] = ValueOf(SubSeq(t, c[k - 1] + 1, c[k] - 1))

\* n hextets between a and b, read to addr from e on.
HextetsTo(t, a, b, n, addr, e) ==
  \/ n = 0 /\ a = b
  \/ \E c : HextetsAt(t, a, b, n, c) /\ Valued(t, n, c, addr, e)

\* A hextet of the digits behind x.
OneHextet(t, x, y) ==
  /\ x + 1 < y /\ y <= x + 1 + Digits
  /\ \A j \in x + 1 .. y - 1 : is_hex_digit(t[j])

\* Digits are no colons.
LEMMA HextetColonless ==
  ASSUME NEW t, NEW x, NEW y, OneHextet(t, x, y)
  PROVE  \A j \in x + 1 .. y - 1 : t[j] # Colon
  BY ColonIsNone DEF OneHextet

\* The first hextet of a part.
LEMMA FirstHextet ==
  ASSUME NEW t, NEW o \in Nat, NEW y \in Nat, OneHextet(t, o, y)
  PROVE  \E c : HextetsAt(t, o, y, 1, c) /\ c[0] = o /\ c[1] = y
<1> PICK c : c = [k \in 0 .. 1 |-> IF k = 0 THEN o ELSE y]
  OBVIOUS
<1>1. o < y
  BY DEF OneHextet
<1>2. c \in [0 .. 1 -> o .. y] /\ c[0] = o /\ c[1] = y
  BY <1>1
<1>3. \A k \in 1 .. 1 : k = 1 /\ k - 1 = 0
  OBVIOUS
<1>4. Cut(t, o, y, Colon, 1, c)
  BY <1>1, <1>2, <1>3, HextetColonless DEF Cut
<1>5. HextetsAt(t, o, y, 1, c)
  BY <1>2, <1>3, <1>4 DEF HextetsAt, OneHextet
<1> QED BY <1>2, <1>5

\* One more hextet behind a colon.
LEMMA NextHextet ==
  ASSUME NEW t, NEW a \in Nat, NEW o \in Nat, NEW y \in Nat, NEW n, NEW c, HextetsAt(t, a, o, n, c),
         t[o] = Colon, OneHextet(t, o, y)
  PROVE  \E d : /\ HextetsAt(t, a, y, n + 1, d)
                /\ \A k \in 0 .. n : d[k] = c[k]
                /\ d[n + 1] = y
<1>1. /\ n \in Nat \ {0} /\ c \in [0 .. n -> a .. o] /\ c[0] = a /\ c[n] = o
      /\ \A k \in 1 .. n : c[k - 1] < c[k]
      /\ \A k \in 1 .. n - 1 : t[c[k]] = Colon
      /\ \A k \in 1 .. n : \A j \in c[k - 1] + 1 .. c[k] - 1 : t[j] # Colon
      /\ \A k \in 1 .. n : /\ c[k - 1] + 1 < c[k] /\ c[k] <= c[k - 1] + 1 + Digits
                           /\ \A j \in c[k - 1] + 1 .. c[k] - 1 : is_hex_digit(t[j])
  BY DEF HextetsAt, Cut
<1>2. PICK m \in Nat : m = n + 1
  BY <1>1
<1>3. /\ 0 \in 0 .. n /\ n \in 0 .. n /\ m \in Nat \ {0} /\ m \notin 0 .. n /\ 0 .. m = 0 .. n \cup {m}
      /\ 0 .. n \subseteq 0 .. m /\ m - 1 = n /\ 1 .. m = 1 .. n \cup {m}
  BY <1>1, <1>2, SMTT(60)
<1> PICK d : d = [k \in 0 .. m |-> IF k \in 0 .. n THEN c[k] ELSE y]
  OBVIOUS
<1>4. (\A k \in 0 .. n : d[k] = c[k]) /\ d[m] = y
  BY <1>3
<1>5. a <= o /\ o < y /\ o + 1 < y
  BY <1>1, <1>3 DEF OneHextet
<1>6. d \in [0 .. m -> a .. y]
  <2>1. \A k \in 0 .. n : c[k] \in a .. y
    BY <1>1, <1>5
  <2>2. y \in a .. y
    BY <1>5
  <2> QED BY <1>3, <2>1, <2>2
<1>7. ASSUME NEW k \in 1 .. n PROVE k - 1 \in 0 .. n /\ k \in 0 .. n /\ d[k - 1] = c[k - 1] /\ d[k] = c[k]
  <2>1. k - 1 \in 0 .. n /\ k \in 0 .. n
    BY <1>1
  <2> QED BY <1>4, <2>1
<1>8. d[0] = a /\ d[m - 1] = o /\ d[m] = y
  BY <1>1, <1>3, <1>4
<1>9. ASSUME NEW k \in 1 .. m
      PROVE  /\ d[k - 1] < d[k] /\ \A j \in d[k - 1] + 1 .. d[k] - 1 : t[j] # Colon
             /\ d[k - 1] + 1 < d[k] /\ d[k] <= d[k - 1] + 1 + Digits
             /\ \A j \in d[k - 1] + 1 .. d[k] - 1 : is_hex_digit(t[j])
  <2>1. CASE k \in 1 .. n
    BY <1>1, <1>7, <2>1, ZenonT(60)
  <2>2. CASE k = m
    BY <1>5, <1>8, <2>2, HextetColonless, ZenonT(60) DEF OneHextet
  <2> QED BY <1>3, <2>1, <2>2
<1>10. ASSUME NEW k \in 1 .. m - 1 PROVE t[d[k]] = Colon
  <2>1. k \in 1 .. n
    BY <1>3
  <2>2. k = n \/ k \in 1 .. n - 1
    BY <1>1, <2>1
  <2>3. d[k] = c[k]
    BY <1>7, <2>1
  <2> QED BY <1>1, <2>2, <2>3
<1>11. Cut(t, a, y, Colon, m, d)
  BY <1>3, <1>6, <1>8, <1>9, <1>10 DEF Cut
<1>12. HextetsAt(t, a, y, m, d)
  BY <1>9, <1>11 DEF HextetsAt
<1> QED BY <1>2, <1>4, <1>12

\* Nothing read is lost when what comes behind it is written.
LEMMA HextetsKept ==
  ASSUME NEW t, NEW a, NEW b, NEW n \in Nat, NEW addr, NEW e \in Nat, HextetsTo(t, a, b, n, addr, e),
         NEW addr2, \A i \in e .. e + n - 1 : addr2[i] = addr[i]
  PROVE  HextetsTo(t, a, b, n, addr2, e)
<1>1. CASE n = 0 /\ a = b
  BY <1>1 DEF HextetsTo
<1>2. ASSUME NEW c, HextetsAt(t, a, b, n, c), Valued(t, n, c, addr, e) PROVE HextetsTo(t, a, b, n, addr2, e)
  <2>1. \A k \in 1 .. n : e + k - 1 \in e .. e + n - 1
    OBVIOUS
  <2>2. Valued(t, n, c, addr2, e)
    BY <1>2, <2>1 DEF Valued
  <2> QED BY <1>2, <2>2 DEF HextetsTo
<1> QED BY <1>1, <1>2 DEF HextetsTo

\* A hextet read behind others.
LEMMA HextetsGrow ==
  ASSUME NEW t, NEW a \in Nat, NEW o \in Nat, NEW y \in Nat, NEW n \in Nat, NEW addr, NEW e \in Nat,
         HextetsTo(t, a, o, n, addr, e), n # 0 => t[o] = Colon, OneHextet(t, o, y),
         NEW addr2, \A i \in e .. e + n - 1 : addr2[i] = addr[i],
         addr2[e + n] = ValueOf(SubSeq(t, o + 1, y - 1))
  PROVE  HextetsTo(t, a, y, n + 1, addr2, e)
<1>1. HextetsTo(t, a, o, n, addr2, e)
  BY HextetsKept
<1>2. CASE n = 0 /\ a = o
  <2>1. PICK c : HextetsAt(t, a, y, 1, c) /\ c[0] = a /\ c[1] = y
    BY <1>2, FirstHextet
  <2>2. \A k \in 1 .. 1 : k - 1 = 0 /\ k = 1 /\ e + k - 1 = e + n
    BY <1>2
  <2>3. Valued(t, 1, c, addr2, e)
    BY <1>2, <2>1, <2>2 DEF Valued
  <2>4. n + 1 = 1
    BY <1>2
  <2> QED BY <2>1, <2>3, <2>4 DEF HextetsTo
<1>3. ASSUME NEW c, HextetsAt(t, a, o, n, c), Valued(t, n, c, addr2, e)
      PROVE  HextetsTo(t, a, y, n + 1, addr2, e)
  <2>1. n # 0 /\ c[n] = o
    BY <1>3 DEF HextetsAt, Cut
  <2>2. PICK d : /\ HextetsAt(t, a, y, n + 1, d)
                 /\ \A k \in 0 .. n : d[k] = c[k]
                 /\ d[n + 1] = y
    BY <1>3, <2>1, NextHextet, SMTT(60)
  <2> PICK m \in Nat : m = n + 1
    OBVIOUS
  <2>3. ASSUME NEW k \in 1 .. m PROVE addr2[e + k - 1] = ValueOf(SubSeq(t, d[k - 1] + 1, d[k] - 1))
    <3>1. CASE k \in 1 .. n
      <4>1. k - 1 \in 0 .. n /\ k \in 0 .. n
        BY <3>1
      <4>2. d[k - 1] = c[k - 1] /\ d[k] = c[k]
        BY <2>2, <4>1
      <4> QED BY <1>3, <3>1, <4>2 DEF Valued
    <3>2. CASE k = m
      <4>1. k - 1 = n /\ e + k - 1 = e + n /\ n \in 0 .. n
        BY <3>2
      <4>2. d[k - 1] = o /\ d[k] = y
        BY <2>1, <2>2, <3>2, <4>1
      <4> QED BY <4>1, <4>2
    <3> QED BY <3>1, <3>2
  <2>4. Valued(t, m, d, addr2, e)
    BY <2>3 DEF Valued
  <2> QED BY <2>2, <2>4 DEF HextetsTo
<1> QED BY <1>1, <1>2, <1>3 DEF HextetsTo

\* A part of a text that is n hextets, which addr has from e on; or nothing.
Told(t, a, b, n, addr, e) ==
  \/ n = 0 /\ a + 1 = b
  \/ \E c : HextetsAt(t, a, b, n, c) /\ Valued(t, n, c, addr, e)

\* n numbers of addr from e on.
Stretch(addr, e, n) == [k \in 1 .. n |-> addr[e + k - 1]]

\* The numbers before an ellipsis, zeros and the numbers behind it.
Spread(addr, n, m) ==
  [i \in 1 .. Hextets |-> IF i <= n THEN addr[i - 1]
                          ELSE IF i <= Hextets - m THEN 0
                          ELSE addr[i - 1 - (Hextets - n - m)]]

\* The fields of such a part.
LEMMA FieldsTold ==
  ASSUME NEW t \in Seq(Nat), NEW a \in Nat, NEW b \in Nat, a < b, b <= Len(t) + 1,
         NEW n, NEW addr, NEW e \in Nat, Told(t, a, b, n, addr, e)
  PROVE  LET fs == Fields(SubSeq(t, a + 1, b - 1))
         IN  /\ n \in Nat /\ AreHextets(fs) /\ Len(fs) = n
             /\ ValuesOf(fs) = Stretch(addr, e, n)
<1> PICK fs : fs = Fields(SubSeq(t, a + 1, b - 1))
  OBVIOUS
<1>1. CASE n = 0 /\ a + 1 = b
  <2>1. fs = <<>>
    BY <1>1, PartFields
  <2>2. DOMAIN fs = 1 .. 0 /\ Len(fs) = 0 /\ 1 .. 0 = {}
    BY <2>1
  <2>3. AreHextets(fs)
    BY <2>2 DEF AreHextets
  <2>4. ValuesOf(fs) = Stretch(addr, e, n)
    BY <1>1, <2>2 DEF ValuesOf, Stretch
  <2> QED BY <1>1, <2>2, <2>3, <2>4
<1>2. ASSUME NEW c, HextetsAt(t, a, b, n, c), Valued(t, n, c, addr, e)
      PROVE  n \in Nat /\ AreHextets(fs) /\ Len(fs) = n /\ ValuesOf(fs) = Stretch(addr, e, n)
  <2>1. Cut(t, a, b, Colon, n, c)
    BY <1>2 DEF HextetsAt
  <2>2. a + 1 < b
    BY <1>2, HextetsShape
  <2>3. fs = Split(SubSeq(t, a + 1, b - 1), Colon)
    BY <2>2, PartFields
  <2>4. fs = Pieces(t, n, c) /\ Len(fs) = n /\ n \in Nat \ {0} /\ AreHextets(fs)
    BY <1>2, <2>1, <2>3, HextetsSplit
  <2>5. DOMAIN fs = 1 .. n /\ \A k \in 1 .. n : fs[k] = SubSeq(t, c[k - 1] + 1, c[k] - 1)
    BY <2>4 DEF Pieces
  <2>6. \A k \in 1 .. n : ValueOf(fs[k]) = addr[e + k - 1]
    BY <1>2, <2>5 DEF Valued
  <2>7. ValuesOf(fs) = Stretch(addr, e, n)
    BY <2>5, <2>6 DEF ValuesOf, Stretch
  <2> QED BY <2>4, <2>7
<1> QED BY <1>1, <1>2 DEF Told

\* The beginning of a text, and its parts.
LEMMA PrefixParts ==
  ASSUME NEW t \in Seq(Nat), NEW L \in Nat, L <= Len(t)
  PROVE  LET u == SubSeq(t, 1, L)
         IN  /\ u \in Seq(Nat) /\ Len(u) = L
             /\ \A i \in 1 .. L : u[i] = t[i]
             /\ \A i \in 1 .. L - 1 : SubSeq(u, 1, i - 1) = SubSeq(t, 1, i - 1)
                                      /\ SubSeq(u, i + 2, L) = SubSeq(t, i + 2, L)
<1> PICK b \in Nat : b = L + 1
  OBVIOUS
<1> PICK u : u = SubSeq(t, 0 + 1, b - 1)
  OBVIOUS
<1>0. 0 \in Nat /\ 0 < b /\ b <= Len(t) + 1 /\ b - 1 - 0 = L /\ b - 1 = L /\ 0 + 1 = 1
  OBVIOUS
<1>1. /\ u \in Seq(Nat) /\ Len(u) = b - 1 - 0
      /\ \A i \in 1 .. Len(u) : u[i] = t[0 + i]
      /\ \A i, j \in 0 .. Len(u) + 1 : i < j => SubSeq(u, i + 1, j - 1) = SubSeq(t, 0 + i + 1, 0 + j - 1)
  BY <1>0, PartIs
<1>2. u = SubSeq(t, 1, L)
  BY <1>0
<1>3. u \in Seq(Nat) /\ Len(u) = L /\ \A i \in 1 .. L : u[i] = t[i]
  BY <1>0, <1>1
<1>4. ASSUME NEW i \in 1 .. L - 1
      PROVE  SubSeq(u, 1, i - 1) = SubSeq(t, 1, i - 1) /\ SubSeq(u, i + 2, L) = SubSeq(t, i + 2, L)
  <2>1. /\ 0 \in 0 .. L + 1 /\ i \in 0 .. L + 1 /\ 0 < i /\ i + 1 \in 0 .. L + 1 /\ L + 1 \in 0 .. L + 1
        /\ i + 1 < L + 1
    OBVIOUS
  <2>2. SubSeq(u, 0 + 1, i - 1) = SubSeq(t, 0 + 0 + 1, 0 + i - 1)
    BY <1>1, <1>3, <2>1
  <2>3. SubSeq(u, (i + 1) + 1, (L + 1) - 1) = SubSeq(t, 0 + (i + 1) + 1, 0 + (L + 1) - 1)
    BY <1>1, <1>3, <2>1
  <2>4. 0 + 1 = 1 /\ 0 + 0 + 1 = 1 /\ 0 + i - 1 = i - 1 /\ (i + 1) + 1 = i + 2 /\ (L + 1) - 1 = L
        /\ 0 + (i + 1) + 1 = i + 2 /\ 0 + (L + 1) - 1 = L
    OBVIOUS
  <2> QED BY <2>2, <2>3, <2>4
<1> QED BY <1>2, <1>3, <1>4

\* Around an ellipsis of the beginning of a text.
LEMMA PrefixAround ==
  ASSUME NEW t \in Seq(Nat), NEW L \in Nat, L <= Len(t), NEW i
  PROVE  Around(SubSeq(t, 1, L), i) <=>
           /\ i \in 1 .. L - 1 /\ t[i] = Colon /\ t[i + 1] = Colon
           /\ AreHextets(Front1(t, i)) /\ AreHextets(Fields(SubSeq(t, i + 2, L)))
           /\ Len(Front1(t, i)) + Len(Fields(SubSeq(t, i + 2, L))) < Hextets
<1> PICK u : u = SubSeq(t, 1, L)
  OBVIOUS
<1>1. /\ u \in Seq(Nat) /\ Len(u) = L
      /\ \A j \in 1 .. L : u[j] = t[j]
      /\ \A j \in 1 .. L - 1 : SubSeq(u, 1, j - 1) = SubSeq(t, 1, j - 1)
                               /\ SubSeq(u, j + 2, L) = SubSeq(t, j + 2, L)
  BY PrefixParts
<1>2. CASE i \in 1 .. L - 1
  <2>1. i \in 1 .. L /\ i + 1 \in 1 .. L
    BY <1>2
  <2>2. u[i] = t[i] /\ u[i + 1] = t[i + 1]
    BY <1>1, <2>1
  <2>3. Front1(u, i) = Front1(t, i) /\ Behind(u, i) = Fields(SubSeq(t, i + 2, L))
    BY <1>1, <1>2 DEF Front1, Behind
  <2> QED BY <1>1, <2>2, <2>3 DEF Around
<1>3. CASE i \notin 1 .. L - 1
  BY <1>1, <1>3 DEF Around
<1> QED BY <1>2, <1>3

\* Three sequences, one behind the other.
LEMMA JoinedSeqs ==
  ASSUME NEW A \in Seq(Nat), NEW Z \in Seq(Nat), NEW C \in Seq(Nat)
  PROVE  LET R == A \o Z \o C
         IN  /\ R \in Seq(Nat) /\ Len(R) = Len(A) + Len(Z) + Len(C)
             /\ \A i \in 1 .. Len(A) : R[i] = A[i]
             /\ \A i \in 1 .. Len(Z) : R[Len(A) + i] = Z[i]
             /\ \A i \in 1 .. Len(C) : R[Len(A) + Len(Z) + i] = C[i]
<1> PICK D : D = A \o Z
  OBVIOUS
<1>1. D \in Seq(Nat) /\ Len(D) = Len(A) + Len(Z)
      /\ \A i \in 1 .. Len(A) + Len(Z) : D[i] = IF i <= Len(A) THEN A[i] ELSE Z[i - Len(A)]
  OBVIOUS
<1> PICK n \in Nat : n = Len(A)
  OBVIOUS
<1> PICK z \in Nat : z = Len(Z)
  OBVIOUS
<1> PICK m \in Nat : m = Len(C)
  OBVIOUS
<1> PICK R : R = D \o C
  OBVIOUS
<1>2. R \in Seq(Nat) /\ Len(R) = n + z + m
      /\ \A i \in 1 .. n + z + m : R[i] = IF i <= n + z THEN D[i] ELSE C[i - (n + z)]
  BY <1>1
<1>3. ASSUME NEW i \in 1 .. n PROVE R[i] = A[i]
  <2>1. i \in 1 .. n + z + m /\ i <= n + z /\ i \in 1 .. n + z /\ i <= n
    OBVIOUS
  <2> QED BY <1>1, <1>2, <2>1
<1>4. ASSUME NEW i \in 1 .. z PROVE R[n + i] = Z[i]
  <2>1. n + i \in 1 .. n + z + m /\ n + i <= n + z /\ n + i \in 1 .. n + z /\ ~(n + i <= n) /\ n + i - n = i
    OBVIOUS
  <2> QED BY <1>1, <1>2, <2>1
<1>5. ASSUME NEW i \in 1 .. m PROVE R[n + z + i] = C[i]
  <2>1. n + z + i \in 1 .. n + z + m /\ ~(n + z + i <= n + z) /\ n + z + i - (n + z) = i
    OBVIOUS
  <2> QED BY <1>2, <2>1
<1> QED BY <1>2, <1>3, <1>4, <1>5

\* Numbers of addr.
LEMMA StretchType ==
  ASSUME NEW addr \in [0 .. Hextets - 1 -> Nat], NEW e \in Nat, NEW n \in Nat, e + n <= Hextets
  PROVE  /\ Stretch(addr, e, n) \in Seq(Nat) /\ Len(Stretch(addr, e, n)) = n
         /\ \A k \in 1 .. n : Stretch(addr, e, n)[k] = addr[e + k - 1]
<1>1. \A k \in 1 .. n : e + k - 1 \in 0 .. Hextets - 1
  BY IpAssumption
<1>2. \A k \in 1 .. n : addr[e + k - 1] \in Nat
  BY <1>1
<1> QED BY <1>2 DEF Stretch

\* Zeros.
LEMMA ZerosType ==
  ASSUME NEW z \in Nat
  PROVE  LET Z == [i \in 1 .. z |-> 0] IN Z \in Seq(Nat) /\ Len(Z) = z /\ \A k \in 1 .. z : Z[k] = 0
OBVIOUS

\* How a sequence of numbers continues with zeros and another.
LEMMA ThreeParts ==
  ASSUME NEW f, NEW g, NEW n \in Nat, NEW m \in Nat, n + m < Hextets, NEW addr \in [0 .. Hextets - 1 -> Nat],
         Len(f) = n, Len(g) = m, ValuesOf(f) = Stretch(addr, 0, n),
         ValuesOf(g) = Stretch(addr, n, m)
  PROVE  Filled(f, g) = Spread(addr, n, m)
<1>0. Hextets \in Nat
  BY IpAssumption
<1> PICK z : z = Hextets - n - m
  OBVIOUS
<1>1. z \in Nat /\ n + z + m = Hextets
  BY <1>0
<1> DEFINE A == Stretch(addr, 0, n)
           C == Stretch(addr, n, m)
           Z == [i \in 1 .. z |-> 0]
           R == A \o Z \o C
<1>2. Filled(f, g) = R
  BY DEF Filled
<1>3. /\ A \in Seq(Nat) /\ Len(A) = n /\ \A k \in 1 .. n : A[k] = addr[0 + k - 1]
      /\ C \in Seq(Nat) /\ Len(C) = m /\ \A k \in 1 .. m : C[k] = addr[n + k - 1]
  <2>1. 0 + n <= Hextets /\ n + m <= Hextets /\ 0 \in Nat
    BY <1>0
  <2> HIDE DEF A, C
  <2>2. A \in Seq(Nat) /\ Len(A) = n /\ \A k \in 1 .. n : A[k] = addr[0 + k - 1]
    BY <2>1, StretchType, ZenonT(60) DEF A
  <2>3. C \in Seq(Nat) /\ Len(C) = m /\ \A k \in 1 .. m : C[k] = addr[n + k - 1]
    BY <2>1, StretchType, ZenonT(60) DEF C
  <2> QED BY <2>2, <2>3
<1>4. Z \in Seq(Nat) /\ Len(Z) = z /\ \A k \in 1 .. z : Z[k] = 0
  BY <1>1, ZerosType
<1> HIDE DEF A, C, Z
<1>5. /\ R \in Seq(Nat) /\ Len(R) = n + z + m
      /\ \A i \in 1 .. n : R[i] = A[i]
      /\ \A i \in 1 .. z : R[n + i] = Z[i]
      /\ \A i \in 1 .. m : R[n + z + i] = C[i]
  <2>1. /\ R \in Seq(Nat) /\ Len(R) = Len(A) + Len(Z) + Len(C)
        /\ \A i \in 1 .. Len(A) : R[i] = A[i]
        /\ \A i \in 1 .. Len(Z) : R[Len(A) + i] = Z[i]
        /\ \A i \in 1 .. Len(C) : R[Len(A) + Len(Z) + i] = C[i]
    BY <1>3, <1>4, JoinedSeqs, ZenonT(60)
  <2> QED BY <1>3, <1>4, <2>1
<1> HIDE DEF R
<1>6. ASSUME NEW i \in 1 .. Hextets
      PROVE  R[i] = IF i <= n THEN addr[i - 1] ELSE IF i <= Hextets - m THEN 0 ELSE addr[i - 1 - (Hextets - n - m)]
  <2>0. i \in Nat /\ Hextets - m = n + z /\ Hextets - n - m = z /\ i <= n + z + m
    BY <1>0, <1>1
  <2>1. CASE i <= n
    <3>1. i \in 1 .. n /\ 0 + i - 1 = i - 1
      BY <2>0, <2>1
    <3>2. R[i] = addr[i - 1]
      BY <1>3, <1>5, <3>1
    <3> QED BY <2>1, <3>2
  <2>2. CASE ~(i <= n) /\ i <= n + z
    <3> PICK k \in 1 .. z : i = n + k
      <4>1. i - n \in 1 .. z /\ i = n + (i - n)
        BY <1>1, <2>0, <2>2
      <4> QED BY <4>1
    <3>1. R[n + k] = 0
      BY <1>4, <1>5
    <3> QED BY <2>0, <2>2, <3>1
  <2>3. CASE ~(i <= n) /\ ~(i <= n + z)
    <3> PICK k \in 1 .. m : i = n + z + k
      <4>1. n + z \in Nat /\ i > n + z
        BY <1>1, <2>0, <2>3
      <4>2. i - (n + z) \in 1 .. m /\ i = n + z + (i - (n + z))
        BY <2>0, <4>1, SMTT(60)
      <4> QED BY <4>2
    <3>1. R[n + z + k] = addr[n + k - 1]
      BY <1>3, <1>5
    <3>2. n + k - 1 = i - 1 - z
      BY <1>1, SMTT(60)
    <3> QED BY <2>0, <2>3, <3>1, <3>2
  <2> QED BY <2>1, <2>2, <2>3
<1>7. R = [i \in 1 .. Hextets |-> R[i]]
  <2>1. R \in [1 .. Len(R) -> Nat]
    BY <1>5, LenProperties
  <2>2. R \in [1 .. Hextets -> Nat]
    BY <1>1, <1>5, <2>1
  <2> QED BY <2>2
<1> HIDE DEF Filled
<1> QED BY <1>2, <1>6, <1>7 DEF Spread

\* A text all of hextets, as many as an address has.
LEMMA TellsPlain ==
  ASSUME NEW t \in Seq(Nat), NEW addr \in [0 .. Hextets - 1 -> Nat], Told(t, 0, Len(t) + 1, Hextets, addr, 0)
  PROVE  AsNumber(addr) \in Meant(t)
<1>1. 0 \in Nat /\ Len(t) + 1 \in Nat /\ 0 < Len(t) + 1 /\ Len(t) + 1 <= Len(t) + 1
  OBVIOUS
<1> PICK fs : fs = Fields(t)
  OBVIOUS
<1>2. AreHextets(fs) /\ Len(fs) = Hextets /\ ValuesOf(fs) = Stretch(addr, 0, Hextets)
  BY <1>1, FieldsTold, WholeIs
<1>3. \A k \in 1 .. Hextets : 0 + k - 1 = k - 1
  BY IpAssumption
<1>4. ValuesOf(fs) = AsNumber(addr)
  BY <1>2, <1>3 DEF AsNumber, Stretch
<1>5. Plain(t)
  BY <1>2 DEF Plain
<1> QED BY <1>4, <1>5, MeantIs

\* Hextets before an ellipsis and behind it, in the beginning of a text.
LEMMA TellsAround ==
  ASSUME NEW t \in Seq(Nat), NEW addr \in [0 .. Hextets - 1 -> Nat], NEW L \in Nat, L <= Len(t),
         NEW p \in 1 .. L - 1, t[p] = Colon, t[p + 1] = Colon,
         NEW n \in Nat, NEW m \in Nat, n + m < Hextets,
         Told(t, 0, p, n, addr, 0), Told(t, p + 1, L + 1, m, addr, n)
  PROVE  Spread(addr, n, m) \in Meant(SubSeq(t, 1, L))
<1> PICK a \in Nat : a = p + 1
  OBVIOUS
<1> PICK b \in Nat : b = L + 1
  OBVIOUS
<1>1. /\ 0 \in Nat /\ p \in Nat /\ 0 < p /\ p <= Len(t) + 1 /\ a < b /\ b <= Len(t) + 1
      /\ 0 + 1 = 1 /\ a + 1 = p + 2 /\ b - 1 = L
  OBVIOUS
<1> PICK f : f = Front1(t, p)
  OBVIOUS
<1> PICK g : g = Fields(SubSeq(t, p + 2, L))
  OBVIOUS
<1>2. AreHextets(f) /\ Len(f) = n /\ ValuesOf(f) = Stretch(addr, 0, n)
  <2>1. f = Fields(SubSeq(t, 0 + 1, p - 1))
    BY <1>1 DEF Front1
  <2> QED BY <1>1, <2>1, FieldsTold, SMTT(60)
<1>3. AreHextets(g) /\ Len(g) = m /\ ValuesOf(g) = Stretch(addr, n, m)
  <2>1. g = Fields(SubSeq(t, a + 1, b - 1)) /\ Told(t, a, b, m, addr, n)
    BY <1>1
  <2>2. /\ AreHextets(Fields(SubSeq(t, a + 1, b - 1))) /\ Len(Fields(SubSeq(t, a + 1, b - 1))) = m
        /\ ValuesOf(Fields(SubSeq(t, a + 1, b - 1))) = Stretch(addr, n, m)
    <3>1. a < b /\ b <= Len(t) + 1 /\ Told(t, a, b, m, addr, n) /\ a \in Nat /\ b \in Nat /\ n \in Nat
      BY <1>1, <2>1
    <3> QED BY ONLY t \in Seq(Nat), <3>1, FieldsTold
  <2> QED BY <2>1, <2>2
<1>4. Around(SubSeq(t, 1, L), p)
  BY <1>2, <1>3, PrefixAround
<1>5. Filled(f, g) = Spread(addr, n, m)
  BY <1>2, <1>3, ThreeParts
<1> PICK u : u = SubSeq(t, 1, L)
  OBVIOUS
<1>6. /\ Len(u) = L
      /\ \A j \in 1 .. L - 1 : SubSeq(u, 1, j - 1) = SubSeq(t, 1, j - 1)
                               /\ SubSeq(u, j + 2, L) = SubSeq(t, j + 2, L)
  BY PrefixParts
<1>7. Front1(u, p) = f /\ Behind(u, p) = g
  BY <1>6 DEF Front1, Behind
<1> QED BY <1>4, <1>5, <1>7, MeantIs
-----------------------------------------------------------------------------
(* Where hextets were read, there are as many fields, and no ellipsis.     *)

\* Fields are counted.
LEMMA FieldsCount ==
  ASSUME NEW t \in Seq(Nat), NEW a \in Nat, NEW b \in Nat, a < b, b <= Len(t) + 1
  PROVE  Len(Fields(SubSeq(t, a + 1, b - 1))) \in Nat
<1>1. CASE a + 1 = b
  BY <1>1, PartFields
<1>2. CASE a + 1 < b
  <2>1. PICK n, c : Cut(t, a, b, Colon, n, c)
    BY CutExists
  <2>2. Len(Split(SubSeq(t, a + 1, b - 1), Colon)) = n /\ n \in Nat \ {0}
    BY <2>1, HextetsSplit
  <2> QED BY <1>2, <2>2, PartFields
<1> QED BY <1>1, <1>2

\* A part that begins with hextets has as many fields, and one more behind a colon.
LEMMA AtLeast ==
  ASSUME NEW t \in Seq(Nat), NEW a \in Nat, NEW b \in Nat, b <= Len(t) + 1,
         NEW y \in Nat, a < y, y <= b, NEW n, NEW c, HextetsAt(t, a, y, n, c)
  PROVE  LET fs == Fields(SubSeq(t, a + 1, b - 1))
         IN  Len(fs) >= n /\ (y < b /\ t[y] = Colon => Len(fs) > n)
<1>1. /\ n \in Nat \ {0} /\ n \in Nat /\ c \in [0 .. n -> a .. y] /\ c[0] = a /\ c[n] = y
      /\ \A k \in 1 .. n : c[k - 1] < c[k]
      /\ \A k \in 1 .. n - 1 : t[c[k]] = Colon
  BY DEF HextetsAt, Cut
<1>2. c \in [0 .. n -> Int]
  BY <1>1
<1>3. \A i, j \in 0 .. n : i < j => c[i] < c[j]
  BY <1>1, <1>2, StepsUp
<1>4. a + 1 < y /\ y <= Len(t) + 1 /\ a < b /\ a + 1 < b
  <2>1. a < y /\ y <= Len(t) + 1
    OBVIOUS
  <2>2. a + 1 < y
    BY <2>1, HextetsShape
  <2> QED BY <2>1, <2>2
<1> PICK fs : fs = Fields(SubSeq(t, a + 1, b - 1))
  OBVIOUS
<1>5. fs = Split(SubSeq(t, a + 1, b - 1), Colon) /\ Len(fs) \in Nat
  BY <1>4, PartFields, FieldsCount
<1>6. ASSUME NEW m \in 0 .. n, m = n => y < b /\ t[y] = Colon PROVE Len(fs) > m
  <2> PICK q : q = [i \in 1 .. m |-> c[i]]
    OBVIOUS
  <2>0. m \in Nat /\ \A i \in 1 .. m : i \in 0 .. n /\ i \in 1 .. n /\ 0 < i /\ 0 \in 0 .. n
    BY <1>1
  <2>1. \A i \in 1 .. m : c[i] \in a .. y /\ a < c[i]
    BY <1>1, <1>3, <2>0
  <2>2. ASSUME NEW i \in 1 .. m PROVE c[i] \in a + 1 .. b - 1 /\ t[c[i]] = Colon
    <3>1. CASE i = n
      <4>1. m = n /\ c[i] = y
        BY <1>1, <2>0, <3>1
      <4>2. y < b /\ t[y] = Colon /\ y \in a + 1 .. b - 1
        BY <1>4, <1>6, <4>1
      <4> QED BY <4>1, <4>2
    <3>2. CASE i # n
      <4>1. i \in 1 .. n - 1 /\ i < n /\ n \in 0 .. n
        BY <1>1, <2>0, <3>2
      <4>2. c[i] < y
        BY <1>1, <1>3, <2>0, <4>1
      <4>3. c[i] \in a + 1 .. b - 1
        <5>1. c[i] \in Nat /\ a < c[i]
          BY <2>1
        <5> QED BY <4>2, <5>1, SMTT(60)
      <4> QED BY <1>1, <4>1, <4>3
    <3> QED BY <3>1, <3>2
  <2>3. q \in [1 .. m -> a + 1 .. b - 1] /\ \A i \in 1 .. m : t[q[i]] = Colon
    BY <2>2
  <2>4. \A i, j \in 1 .. m : i < j => q[i] < q[j]
    BY <1>3, <2>0
  <2> QED BY <1>4, <1>5, <2>0, <2>3, <2>4, ColonsCount
<1>7. Len(fs) > n - 1
  <2>1. n - 1 \in 0 .. n /\ n - 1 # n
    BY <1>1
  <2> QED BY <1>6, <2>1
<1>8. n \in 0 .. n /\ (Len(fs) > n - 1 => Len(fs) >= n)
  BY <1>1, <1>5
<1> QED BY <1>6, <1>7, <1>8

\* There is no ellipsis in hextets.
LEMMA NoEllipsisIn ==
  ASSUME NEW t \in Seq(Nat), NEW a \in Nat, NEW y \in Nat, a < y, y <= Len(t) + 1,
         NEW n, NEW c, HextetsAt(t, a, y, n, c), NEW i \in a + 1 .. y - 1
  PROVE  ~(t[i] = Colon /\ t[i + 1] = Colon)
<1>1. Shape(t, a, y)
  BY HextetsShape
<1>2. CASE i = y - 1
  BY <1>1, <1>2 DEF Shape
<1>3. CASE i # y - 1
  <2>1. i \in a + 1 .. y - 2
    BY <1>3
  <2> QED BY <1>1, <2>1 DEF Shape
<1> QED BY <1>2, <1>3
-----------------------------------------------------------------------------
(* What is seen of a text that stands for an address, or would but for one *)
(* colon at its end.                                                       *)

\* The beginning of a text that is read around an ellipsis.
AroundIn(t, L, i) ==
  /\ L \in Nat /\ L <= Len(t) /\ Around(SubSeq(t, 1, L), i)
  /\ L = Len(t) \/ (L = Len(t) - 1 /\ t[Len(t)] = Colon /\ t[Len(t) - 1] # Colon)

Possible(t) ==
  /\ \A j \in 1 .. Len(t) : is_hex_digit(t[j]) \/ t[j] = Colon
  /\ \A j \in 1 .. Len(t) - Digits : \E i \in j .. j + Digits : ~is_hex_digit(t[i])
  /\ Len(t) > 1
  /\ t[1] = Colon => t[2] = Colon
  /\ Plain(t) \/ \E L, i : AroundIn(t, L, i)

\* A colon too many, at the end.
LEMMA LaxIs ==
  ASSUME NEW t \in Seq(Nat), Lax(t) # {}
  PROVE  LET L == Len(t) - 1
             u == SubSeq(t, 1, L)
         IN  /\ Len(t) > 3 /\ t[Len(t)] = Colon /\ t[Len(t) - 1] # Colon
             /\ Well(u) /\ \E i : AroundIn(t, L, i)
<1>1. /\ Len(t) > 3 /\ t[Len(t)] = Colon /\ t[Len(t) - 1] # Colon
      /\ \E i \in 1 .. Len(t) - 2 : t[i] = Colon /\ t[i + 1] = Colon
      /\ Meant(Front(t)) # {}
  BY DEF Lax, Last
<1> PICK L \in Nat : L = Len(t) - 1 /\ L <= Len(t)
  BY <1>1
<1> PICK u : u = SubSeq(t, 1, L)
  OBVIOUS
<1>2. u \in Seq(Nat) /\ Len(u) = L /\ \A i \in 1 .. L : u[i] = t[i]
  BY PrefixParts
<1>3. Meant(u) # {}
  BY <1>1 DEF Front
<1>4. PICK h : h \in Meant(u)
  BY <1>3
<1>5. Well(u)
  BY <1>2, <1>4, MeantWell
<1>6. ~Plain(u)
  <2> SUFFICES ASSUME Plain(u) PROVE FALSE
    OBVIOUS
  <2>1. Shape(u, 0, Len(u) + 1)
    BY <1>2, PlainShape
  <2>2. PICK i \in 1 .. Len(t) - 2 : t[i] = Colon /\ t[i + 1] = Colon
    BY <1>1
  <2>3. i \in 1 .. L /\ i + 1 \in 1 .. L /\ i \in 0 + 1 .. (Len(u) + 1) - 2
    BY <1>2, SMTT(60)
  <2>4. u[i] = Colon /\ u[i + 1] = Colon
    BY <1>2, <2>2, <2>3
  <2> QED BY <2>1, <2>3, <2>4 DEF Shape
<1>7. PICK i : Around(u, i)
  BY <1>4, <1>6, MeantIs
<1>8. AroundIn(t, L, i)
  BY <1>1, <1>7 DEF AroundIn
<1> QED BY <1>1, <1>5, <1>8

\* All that is known of such a text.
LEMMA PossibleIs == ASSUME NEW t \in Seq(Nat), Meant(t) \cup Lax(t) # {} PROVE Possible(t)
<1>0. Digits \in Nat \ {0} /\ Len(t) \in Nat
  BY IpAssumption
<1>1. CASE Meant(t) # {}
  <2>1. PICK h : h \in Meant(t)
    BY <1>1
  <2>2. Well(t)
    BY <2>1, MeantWell
  <2>3. Plain(t) \/ \E i : Around(t, i)
    BY <2>1, MeantIs
  <2>4. SubSeq(t, 1, Len(t)) = t
    OBVIOUS
  <2>5. ASSUME NEW i, Around(t, i) PROVE AroundIn(t, Len(t), i)
    <3>1. Around(SubSeq(t, 1, Len(t)), i)
      BY <2>4, <2>5
    <3> QED BY <1>0, <3>1 DEF AroundIn
  <2> QED BY <2>2, <2>3, <2>5 DEF Possible, Well
<1>2. CASE Lax(t) # {}
  <2> PICK L \in Nat : L = Len(t) - 1
    BY <1>2, LaxIs
  <2> PICK u : u = SubSeq(t, 1, L)
    OBVIOUS
  <2>1. /\ Len(t) > 3 /\ t[Len(t)] = Colon /\ t[Len(t) - 1] # Colon
        /\ Well(u) /\ \E i : AroundIn(t, L, i)
    BY <1>2, LaxIs
  <2>2. Len(u) = L /\ \A i \in 1 .. L : u[i] = t[i]
    BY <1>0, PrefixParts
  <2>3. /\ \A j \in 1 .. L : is_hex_digit(u[j]) \/ u[j] = Colon
        /\ \A j \in 1 .. L - Digits : \E i \in j .. j + Digits : ~is_hex_digit(u[i])
        /\ u[1] = Colon => u[2] = Colon
    BY <2>1, <2>2 DEF Well
  <2>4. ASSUME NEW j \in 1 .. Len(t) PROVE is_hex_digit(t[j]) \/ t[j] = Colon
    <3>1. j = Len(t) \/ j \in 1 .. L
      BY <1>0
    <3> QED BY <2>1, <2>2, <2>3, <3>1
  <2>5. ASSUME NEW j \in 1 .. Len(t) - Digits PROVE \E i \in j .. j + Digits : ~is_hex_digit(t[i])
    <3>1. CASE j + Digits = Len(t)
      <4>1. Len(t) \in j .. j + Digits
        BY <1>0, <3>1
      <4> QED BY <2>1, <4>1, ColonIsNone
    <3>2. CASE j + Digits # Len(t)
      <4>1. j \in 1 .. L - Digits /\ j .. j + Digits \subseteq 1 .. L
        BY <1>0, <3>2
      <4>2. PICK i \in j .. j + Digits : ~is_hex_digit(u[i])
        BY <2>3, <4>1
      <4> QED BY <2>2, <4>1, <4>2
    <3> QED BY <3>1, <3>2
  <2>6. t[1] = Colon => t[2] = Colon
    <3>1. 1 \in 1 .. L /\ 2 \in 1 .. L
      BY <1>0, <2>1
    <3> QED BY <2>2, <2>3, <3>1
  <2>7. Len(t) > 1
    BY <1>0, <2>1
  <2> QED BY <2>1, <2>4, <2>5, <2>6, <2>7 DEF Possible
<1> QED BY <1>1, <1>2

\* There is one ellipsis, and one only, in a text that is read around it.
LEMMA AroundInIs ==
  ASSUME NEW t \in Seq(Nat), NEW L, NEW i, AroundIn(t, L, i)
  PROVE  /\ i \in 1 .. L - 1 /\ t[i] = Colon /\ t[i + 1] = Colon
         /\ AreHextets(Front1(t, i)) /\ AreHextets(Fields(SubSeq(t, i + 2, L)))
         /\ Len(Front1(t, i)) + Len(Fields(SubSeq(t, i + 2, L))) < Hextets
         /\ \A j \in 1 .. Len(t) - 1 : t[j] = Colon /\ t[j + 1] = Colon => j = i
<1>1. /\ L \in Nat /\ L <= Len(t) /\ Around(SubSeq(t, 1, L), i)
      /\ L = Len(t) \/ (L = Len(t) - 1 /\ t[Len(t)] = Colon /\ t[Len(t) - 1] # Colon)
  BY DEF AroundIn
<1>2. /\ i \in 1 .. L - 1 /\ t[i] = Colon /\ t[i + 1] = Colon
      /\ AreHextets(Front1(t, i)) /\ AreHextets(Fields(SubSeq(t, i + 2, L)))
      /\ Len(Front1(t, i)) + Len(Fields(SubSeq(t, i + 2, L))) < Hextets
  BY ONLY t \in Seq(Nat), <1>1, PrefixAround
<1>3. ASSUME NEW j \in 1 .. Len(t) - 1, t[j] = Colon, t[j + 1] = Colon PROVE j = i
  <2> PICK u : u = SubSeq(t, 1, L)
    OBVIOUS
  <2>1. u \in Seq(Nat) /\ Len(u) = L /\ \A k \in 1 .. L : u[k] = t[k]
    BY <1>1, PrefixParts
  <2>2. L \in Nat /\ Len(t) \in Nat /\ j \in Nat
    BY <1>1
  <2>3. j + 1 <= L
    <3>1. CASE L = Len(t)
      BY <2>2, <3>1
    <3>2. CASE L = Len(t) - 1 /\ t[Len(t) - 1] # Colon
      <4>1. j # Len(t) - 1
        BY <1>3, <3>2
      <4> QED BY <2>2, <3>2, <4>1
    <3> QED BY <1>1, <3>1, <3>2
  <2>4. j \in 1 .. L /\ j + 1 \in 1 .. L /\ j \in 1 .. Len(u) - 1
    BY <2>1, <2>2, <2>3
  <2>5. u[j] = Colon /\ u[j + 1] = Colon
    BY <1>3, <2>1, <2>4
  <2>6. Around(u, i)
    BY <1>1
  <2> QED BY ONLY <2>1, <2>4, <2>5, <2>6, OneEllipsis
<1> QED BY <1>2, <1>3
-----------------------------------------------------------------------------
(* What may not have been read of such a text.                             *)

\* As many hextets as an address has, without an ellipsis, and a colon.
LEMMA NotTooMany ==
  ASSUME NEW t \in Seq(Nat), Possible(t), NEW y \in Nat, y <= Len(t), t[y] = Colon,
         NEW n, NEW c, HextetsAt(t, 0, y, n, c), n >= Hextets
  PROVE  FALSE
<1>0. Hextets \in Nat /\ 0 \in Nat /\ n \in Nat
  BY IpAssumption DEF HextetsAt, Cut
<1>1. 0 < y /\ y <= Len(t) + 1
  <2>0. n \in Nat \ {0} /\ c \in [0 .. n -> 0 .. y] /\ c[0] = 0 /\ \A k \in 1 .. n : c[k - 1] < c[k]
    BY DEF HextetsAt, Cut
  <2>1. c \in [0 .. n -> 0 .. y] /\ c[0] = 0 /\ c[1 - 1] < c[1] /\ 1 \in 0 .. n
    <3>1. 1 \in 1 .. n /\ 1 \in 0 .. n
      BY <2>0
    <3> QED BY <2>0, <3>1
  <2>2. c[1] \in 0 .. y /\ 0 < c[1]
    BY <2>1
  <2> QED BY <2>2
<1>2. ASSUME Plain(t) PROVE FALSE
  <2> PICK b \in Nat : b = Len(t) + 1
    OBVIOUS
  <2>1. b <= Len(t) + 1 /\ y <= b /\ y < b
    OBVIOUS
  <2>2. Len(Fields(SubSeq(t, 0 + 1, b - 1))) > n
    BY <1>0, <1>1, <2>1, AtLeast
  <2>3. SubSeq(t, 0 + 1, b - 1) = t
    BY WholeIs
  <2>4. Len(Fields(t)) = Hextets
    BY <1>2 DEF Plain
  <2>5. Len(Fields(t)) > n
    BY <2>2, <2>3
  <2>6. Hextets > n
    BY <2>4, <2>5
  <2> QED BY <1>0, <2>6
<1>3. ASSUME NEW L, NEW i, AroundIn(t, L, i) PROVE FALSE
  <2>1. /\ i \in 1 .. L - 1 /\ t[i] = Colon /\ t[i + 1] = Colon /\ L \in Nat /\ L <= Len(t)
        /\ Len(Front1(t, i)) + Len(Fields(SubSeq(t, i + 2, L))) < Hextets
    BY <1>3, AroundInIs DEF AroundIn
  <2>2. i \notin 0 + 1 .. y - 1
    BY <1>0, <1>1, <2>1, NoEllipsisIn
  <2>3. i \in Nat /\ y <= i /\ i <= Len(t) + 1 /\ i + 1 <= Len(t)
    BY <2>1, <2>2, SMTT(60)
  <2>4. Len(Fields(SubSeq(t, 0 + 1, i - 1))) >= n
    BY <1>0, <1>1, <2>3, AtLeast
  <2>5. Len(Front1(t, i)) >= n
    BY <2>4 DEF Front1
  <2> PICK a \in Nat : a = i + 1
    BY <2>3
  <2> PICK b \in Nat : b = L + 1
    BY <2>1
  <2>6. a < b /\ b <= Len(t) + 1 /\ a + 1 = i + 2 /\ b - 1 = L
    BY <2>1
  <2>7. Len(Fields(SubSeq(t, a + 1, b - 1))) \in Nat
    BY ONLY t \in Seq(Nat), a \in Nat, b \in Nat, <2>6, FieldsCount
  <2>8. Len(Fields(SubSeq(t, i + 2, L))) \in Nat
    BY <2>6, <2>7
  <2>9. 0 < i /\ Len(Front1(t, i)) \in Nat
    <3>1. 0 < i
      BY <2>1
    <3>2. Len(Fields(SubSeq(t, 0 + 1, i - 1))) \in Nat
      BY ONLY t \in Seq(Nat), <1>0, <2>3, <3>1, FieldsCount
    <3> QED BY <3>1, <3>2 DEF Front1
  <2> QED BY <1>0, <2>1, <2>5, <2>8, <2>9
<1> QED BY <1>2, <1>3 DEF Possible

\* As many around an ellipsis.
LEMMA NotTooManyAround ==
  ASSUME NEW t \in Seq(Nat), Possible(t), NEW p \in 1 .. Len(t) - 1, t[p] = Colon, t[p + 1] = Colon,
         NEW n \in Nat, NEW addr, NEW e \in Nat, Told(t, 0, p, n, addr, e),
         NEW y \in Nat, y <= Len(t) + 1, NEW m, NEW c, HextetsAt(t, p + 1, y, m, c), n + m >= Hextets
  PROVE  FALSE
<1>0. Hextets \in Nat /\ 0 \in Nat /\ m \in Nat \ {0} /\ p \in Nat /\ Len(t) \in Nat
  BY IpAssumption DEF HextetsAt, Cut
<1> PICK a \in Nat : a = p + 1
  BY <1>0
<1>1. HextetsAt(t, a, y, m, c)
  OBVIOUS
<1>2. a < y
  <2>1. c \in [0 .. m -> a .. y] /\ c[0] = a /\ c[1 - 1] < c[1] /\ 1 \in 0 .. m
    <3>1. c \in [0 .. m -> a .. y] /\ c[0] = a /\ m \in Nat \ {0} /\ \A k \in 1 .. m : c[k - 1] < c[k]
      BY <1>1 DEF HextetsAt, Cut
    <3>2. 1 \in 1 .. m /\ 1 \in 0 .. m
      BY <3>1
    <3> QED BY <3>1, <3>2
  <2>2. c[1] \in a .. y /\ a < c[1]
    BY <2>1, SMTT(60)
  <2> QED BY <2>2
<1>3. Shape(t, a, y)
  BY <1>1, <1>2, HextetsShape
<1>4. ASSUME Plain(t) PROVE FALSE
  <2>1. Shape(t, 0, Len(t) + 1)
    BY <1>4, PlainShape
  <2>2. p \in 0 + 1 .. (Len(t) + 1) - 2
    BY <1>0
  <2> QED BY <2>1, <2>2 DEF Shape
<1>5. ASSUME NEW L, NEW i, AroundIn(t, L, i) PROVE FALSE
  <2>1. /\ L \in Nat /\ L <= Len(t) /\ p \in 1 .. L - 1
        /\ Len(Front1(t, p)) + Len(Fields(SubSeq(t, p + 2, L))) < Hextets
        /\ L = Len(t) \/ (L = Len(t) - 1 /\ t[Len(t)] = Colon)
    <3>1. p = i
      BY <1>5, AroundInIs
    <3> QED BY <1>5, <3>1, AroundInIs DEF AroundIn
  <2> PICK b \in Nat : b = L + 1
    BY <2>1
  <2>2. a < b /\ b <= Len(t) + 1 /\ a + 1 = p + 2 /\ b - 1 = L /\ 0 < p /\ p <= Len(t) + 1
    BY <2>1
  <2>3. y <= b
    <3>1. CASE L = Len(t)
      BY <3>1
    <3>2. CASE L = Len(t) - 1 /\ t[Len(t)] = Colon
      <4>1. y # Len(t) + 1
        <5>1. t[y - 1] # Colon
          BY <1>3 DEF Shape
        <5>2. y = Len(t) + 1 => y - 1 = Len(t)
          OBVIOUS
        <5> QED BY <3>2, <5>1, <5>2
      <4> QED BY <1>0, <3>2, <4>1, SMTT(60)
    <3> QED BY <2>1, <3>1, <3>2
  <2>4. Len(Fields(SubSeq(t, 0 + 1, p - 1))) = n
    BY ONLY t \in Seq(Nat), <1>0, <2>2, n \in Nat, e \in Nat, Told(t, 0, p, n, addr, e), FieldsTold
  <2>5. Len(Front1(t, p)) = n
    BY <2>4 DEF Front1
  <2>6. Len(Fields(SubSeq(t, a + 1, b - 1))) >= m
    BY ONLY t \in Seq(Nat), a \in Nat, b \in Nat, y \in Nat, <1>1, <1>2, <2>2, <2>3, AtLeast
  <2>7. Len(Fields(SubSeq(t, a + 1, b - 1))) \in Nat
    BY ONLY t \in Seq(Nat), a \in Nat, b \in Nat, <2>2, FieldsCount
  <2>8. Len(Fields(SubSeq(t, p + 2, L))) >= m /\ Len(Fields(SubSeq(t, p + 2, L))) \in Nat
    BY <2>2, <2>6, <2>7
  <2> QED BY <1>0, <2>1, <2>5, <2>8
<1> QED BY <1>4, <1>5 DEF Possible

\* A text of too few hextets, without an ellipsis, or one that ends in a colon.
LEMMA NotTooFew ==
  ASSUME NEW t \in Seq(Nat), Possible(t), NEW y \in Nat, 0 < y, NEW n, NEW c, HextetsAt(t, 0, y, n, c),
         \/ y = Len(t) + 1 /\ n < Hextets
         \/ y = Len(t) /\ t[y] = Colon
  PROVE  FALSE
<1>0. 0 \in Nat /\ y <= Len(t) + 1 /\ Len(t) \in Nat
  OBVIOUS
<1>1. ASSUME Plain(t) PROVE FALSE
  <2>1. CASE y = Len(t) + 1 /\ n < Hextets
    <3>1. Cut(t, 0, y, Colon, n, c) /\ 0 + 1 < y
      BY <1>0, HextetsShape DEF HextetsAt
    <3>2. Len(Split(SubSeq(t, 0 + 1, y - 1), Colon)) = n /\ n \in Nat
      BY <1>0, <3>1, HextetsSplit
    <3>3. Fields(SubSeq(t, 0 + 1, y - 1)) = Split(SubSeq(t, 0 + 1, y - 1), Colon)
      BY <1>0, <3>1, PartFields
    <3>4. SubSeq(t, 0 + 1, y - 1) = t
      BY <2>1, WholeIs
    <3>5. Len(Fields(t)) = n
      BY <3>2, <3>3, <3>4
    <3>6. Len(Fields(t)) = Hextets
      BY <1>1 DEF Plain
    <3>7. n = Hextets
      BY <3>5, <3>6
    <3> QED BY <2>1, <3>2, <3>7
  <2>2. CASE y = Len(t) /\ t[y] = Colon
    <3>1. t[(Len(t) + 1) - 1] # Colon
      BY <1>1, PlainShape DEF Shape
    <3>2. (Len(t) + 1) - 1 = Len(t)
      BY <1>0
    <3> QED BY <2>2, <3>1, <3>2
  <2> QED BY <2>1, <2>2
<1>2. ASSUME NEW L, NEW i, AroundIn(t, L, i) PROVE FALSE
  <2>1. i \in 1 .. L - 1 /\ t[i] = Colon /\ t[i + 1] = Colon /\ L \in Nat /\ L <= Len(t)
    BY <1>2, AroundInIs DEF AroundIn
  <2>2. i \in 0 + 1 .. y - 1
    BY <1>0, <2>1
  <2> QED BY <1>0, <2>1, <2>2, NoEllipsisIn
<1> QED BY <1>1, <1>2 DEF Possible
-----------------------------------------------------------------------------
(* What is read as an IPv4 address.                                        *)

\* What str::parse takes for a number has no colon.
LEMMA ParseIs ==
  ASSUME NEW p \in Seq(Nat), NEW max, parse(p, max) # None
  PROVE  parse(p, max) \in Nat /\ \A i \in 1 .. Len(p) : p[i] # Colon
<1> PICK digits : digits = IF Len(p) > 1 /\ p[1] = Plus THEN Tail(p) ELSE p
  OBVIOUS
<1> DEFINE d == [i \in DOMAIN digits |-> digits[i] - 48]
           value == Accumulated(10, d)
<1>1. parse(p, max) = IF digits # <<>> /\ (\A i \in DOMAIN digits : digits[i] \in 48 .. 57) /\ value <= max
                      THEN value ELSE None
  BY DEF parse
<1>2. \A i \in DOMAIN digits : digits[i] \in 48 .. 57
  BY <1>1
<1>3. parse(p, max) = value
  BY <1>1
<1>4. digits \in Seq(Nat)
  OBVIOUS
<1>5. d \in Seq(Nat)
  <2>1. DOMAIN digits = 1 .. Len(digits) /\ Len(digits) \in Nat
    BY <1>4
  <2>2. ASSUME NEW i \in DOMAIN digits PROVE digits[i] - 48 \in Nat
    <3>1. digits[i] \in 48 .. 57
      BY <1>2
    <3> QED BY ONLY <3>1
  <2>3. d \in [DOMAIN digits -> Nat]
    BY ONLY <2>2
  <2>4. d \in [1 .. Len(digits) -> Nat]
    BY <2>1, <2>3
  <2> HIDE DEF d
  <2> QED BY ONLY <2>1, <2>4
<1> HIDE DEF d
<1>6. value \in Nat
  <2>1. 10 \in {10, 16}
    OBVIOUS
  <2>2. PICK n : Accumulates(10, d, n) /\ value = n[Len(d)]
    BY <1>5, <2>1, AccumulatedIs
  <2>3. n \in [0 .. Len(d) -> Nat] /\ Len(d) \in 0 .. Len(d)
    BY <1>5, <2>2 DEF Accumulates
  <2> QED BY <2>2, <2>3
<1>7. ASSUME NEW i \in 1 .. Len(p) PROVE p[i] # Colon
  <2>1. CASE Len(p) > 1 /\ p[1] = Plus
    <3>1. CASE i = 1
      BY <2>1, <3>1 DEF Plus, Colon
    <3>2. CASE i # 1
      <4>1. digits = Tail(p) /\ Len(digits) = Len(p) - 1 /\ i - 1 \in 1 .. Len(digits) /\ digits[i - 1] = p[(i - 1) + 1]
        BY <2>1, <3>2
      <4>2. i - 1 \in DOMAIN digits /\ (i - 1) + 1 = i
        BY <1>4, <4>1
      <4>3. p[i] \in 48 .. 57
        BY <1>2, <4>1, <4>2
      <4> QED BY <4>3 DEF Colon
    <3> QED BY <3>1, <3>2
  <2>2. CASE ~(Len(p) > 1 /\ p[1] = Plus)
    <3>1. digits = p /\ i \in DOMAIN p
      BY <2>2
    <3> QED BY <1>2, <3>1 DEF Colon
  <2> QED BY <2>1, <2>2
<1> QED BY <1>3, <1>6, <1>7

\* What ipv4_from_str reads, part by part, and makes of it.
Parsed(s) == [i \in DOMAIN Split(s, Dot) |-> parse(Split(s, Dot)[i], 255)]
Four(octets, n) == [i \in 1 .. 4 |-> IF i + n > 4 THEN octets[i + n - 4] ELSE 0]

\* What ipv4_from_str answers, by the fields at the dots.
LEMMA Ipv4Parsed ==
  ASSUME NEW s
  PROVE  LET octets == Parsed(s)
             n == Len(octets)
         IN  ipv4_from_str(s) = IF n > 4 \/ \E i \in 1 .. n : octets[i] = None THEN Err
                                ELSE V4(Four(octets, n))
  BY DEF ipv4_from_str, Parsed, Four

\* Neither has an IPv4 address, whose bytes are numbers.
LEMMA Ipv4Is ==
  ASSUME NEW s \in Seq(Nat), ipv4_from_str(s) # Err
  PROVE  /\ \E o \in [1 .. 4 -> Nat] : ipv4_from_str(s) = V4(o)
         /\ \A i \in 1 .. Len(s) : s[i] # Colon
<1> PICK b \in Nat : b = Len(s) + 1
  OBVIOUS
<1>0. 0 \in Nat /\ 0 < b /\ b <= Len(s) + 1 /\ SubSeq(s, 0 + 1, b - 1) = s /\ Len(s) \in Nat
  BY WholeIs
<1>1. PICK n, c : Cut(s, 0, b, Dot, n, c)
  BY <1>0, CutExists
<1>2. Split(s, Dot) = Pieces(s, n, c)
  <2>1. Split(SubSeq(s, 0 + 1, b - 1), Dot) = Pieces(s, n, c)
    BY ONLY s \in Seq(Nat), <1>0, b \in Nat, <1>1, SplitPart
  <2> QED BY <1>0, <2>1
<1>3. /\ n \in Nat \ {0} /\ n \in Nat /\ c \in [0 .. n -> 0 .. b] /\ c[0] = 0 /\ c[n] = b
      /\ \A k \in 1 .. n : c[k - 1] < c[k]
      /\ \A k \in 1 .. n - 1 : s[c[k]] = Dot
  BY <1>1 DEF Cut
<1> DEFINE octets == [i \in 1 .. n |-> parse(SubSeq(s, c[i - 1] + 1, c[i] - 1), 255)]
<1>4. Parsed(s) = octets /\ Len(octets) = n
  BY <1>2, <1>3 DEF Pieces, Parsed
<1>5. ipv4_from_str(s) = IF n > 4 \/ \E i \in 1 .. n : octets[i] = None THEN Err ELSE V4(Four(octets, n))
  <2> HIDE DEF octets
  <2> QED BY <1>4, Ipv4Parsed
<1>6. ~(n > 4) /\ (\A i \in 1 .. n : octets[i] # None) /\ ipv4_from_str(s) = V4(Four(octets, n))
  <2> HIDE DEF octets
  <2> QED BY <1>5
<1>7. ASSUME NEW k \in 1 .. n
      PROVE  /\ octets[k] \in Nat
             /\ \A j \in c[k - 1] + 1 .. c[k] - 1 : s[j] # Colon
  <2>1. k - 1 \in 0 .. n /\ k \in 0 .. n
    BY <1>3
  <2>2. c[k - 1] \in 0 .. b /\ c[k] \in 0 .. b /\ c[k - 1] < c[k]
    BY <1>3, <2>1
  <2> PICK x \in Nat : x = c[k - 1]
    BY <2>2
  <2> PICK y \in Nat : y = c[k]
    BY <2>2
  <2>8. x < y /\ y <= Len(s) + 1
    BY <1>0, <2>2
  <2> PICK p : p = SubSeq(s, x + 1, y - 1)
    OBVIOUS
  <2>3. p \in Seq(Nat) /\ Len(p) = y - 1 - x /\ \A i \in 1 .. Len(p) : p[i] = s[x + i]
    BY ONLY s \in Seq(Nat), x \in Nat, y \in Nat, p = SubSeq(s, x + 1, y - 1), <2>8, PartIs
  <2>4. octets[k] = parse(p, 255)
    OBVIOUS
  <2>5. parse(p, 255) # None
    BY <1>6, <2>4
  <2>6. parse(p, 255) \in Nat /\ \A i \in 1 .. Len(p) : p[i] # Colon
    BY <2>3, <2>5, ParseIs, ZenonT(60)
  <2>7. ASSUME NEW j \in x + 1 .. y - 1 PROVE s[j] # Colon
    <3>1. j - x \in 1 .. Len(p) /\ x + (j - x) = j
      BY ONLY x \in Nat, y \in Nat, j \in x + 1 .. y - 1, <2>3
    <3> QED BY <2>3, <2>6, <3>1, ZenonT(60)
  <2> QED BY <2>4, <2>6, <2>7
<1> HIDE DEF octets
<1>8. ASSUME NEW i \in 1 .. Len(s) PROVE s[i] # Colon
  <2>1. i \in c[0] .. c[n] - 1 /\ c \in [0 .. n -> Int]
    BY <1>0, <1>3
  <2>2. PICK k \in 1 .. n : i \in c[k - 1] .. c[k] - 1
    BY <1>3, <2>1, StepsUp
  <2>3. k - 1 \in 0 .. n /\ c[k - 1] \in Int
    BY <1>3
  <2>4. CASE i = c[k - 1]
    <3>1. k # 1
      BY <1>3, <2>4
    <3>2. k - 1 \in 1 .. n - 1
      BY <3>1, <1>3
    <3> QED BY <1>3, <2>4, <3>2, ColonIsNone
  <2>5. CASE i # c[k - 1]
    <3>1. i \in c[k - 1] + 1 .. c[k] - 1
      BY <2>2, <2>3, <2>5
    <3> QED BY <1>7, <3>1
  <2> QED BY <2>4, <2>5
<1>9. Four(octets, n) \in [1 .. 4 -> Nat]
  <2>1. ASSUME NEW i \in 1 .. 4, i + n > 4 PROVE octets[i + n - 4] \in Nat
    <3>1. i + n - 4 \in 1 .. n
      BY <1>3, <2>1
    <3> QED BY <1>7, <3>1
  <2> QED BY <2>1 DEF Four
<1> QED BY <1>6, <1>8, <1>9
-----------------------------------------------------------------------------
(* What is written of an address is a text.                                *)

\* The recursion of Numeral, up to n.
Digited(n, base, d) ==
  d = [m \in 0 .. n |-> IF m < base THEN <<m>> ELSE Append(d[m \div base], m % base)]

\* A quotient is less, and a remainder less than the base.
LEMMA Quotient ==
  ASSUME NEW base \in {10, 16}, NEW m \in Nat, m >= base
  PROVE  m \div base \in Nat /\ m \div base < m /\ m % base \in Nat
<1>1. CASE base = 10
  BY <1>1
<1>2. CASE base = 16
  BY <1>2
<1> QED BY <1>1, <1>2

\* There are such digits.
LEMMA DigitedExists == ASSUME NEW base \in {10, 16}, NEW n \in Nat PROVE \E d : Digited(n, base, d)
<1> DEFINE N == {k \in Nat : \E d : Digited(k, base, d)}
<1>1. 0 \in N
  <2> PICK d : d = [m \in 0 .. 0 |-> <<m>>]
    OBVIOUS
  <2>1. \A m \in 0 .. 0 : m < base
    OBVIOUS
  <2>2. Digited(0, base, d)
    BY <2>1 DEF Digited
  <2> QED BY <2>2
<1>2. ASSUME NEW k \in N PROVE k + 1 \in N
  <2> PICK f : Digited(k, base, f)
    OBVIOUS
  <2> PICK e \in Nat : e = k + 1
    OBVIOUS
  <2>1. f = [m \in 0 .. k |-> IF m < base THEN <<m>> ELSE Append(f[m \div base], m % base)]
    BY DEF Digited
  <2> PICK d : d = [m \in 0 .. e |-> IF m < base THEN <<m>> ELSE Append(f[m \div base], m % base)]
    OBVIOUS
  <2>2. ASSUME NEW m \in 0 .. k PROVE m \in 0 .. e /\ d[m] = f[m]
    <3>1. k \in Nat /\ m \in 0 .. e
      OBVIOUS
    <3>2. f[m] = IF m < base THEN <<m>> ELSE Append(f[m \div base], m % base)
      BY <2>1
    <3>3. d[m] = IF m < base THEN <<m>> ELSE Append(f[m \div base], m % base)
      BY <3>1
    <3> QED BY <3>1, <3>2, <3>3
  <2>3. ASSUME NEW m \in 0 .. e, ~(m < base) PROVE d[m \div base] = f[m \div base]
    <3>1. m \div base \in Nat /\ m \div base < m
      BY <2>3, Quotient
    <3>2. m \div base \in 0 .. k
      BY <3>1
    <3> QED BY <2>2, <3>2
  <2>4. d = [m \in 0 .. e |-> IF m < base THEN <<m>> ELSE Append(d[m \div base], m % base)]
    BY <2>3
  <2>5. Digited(e, base, d)
    BY <2>4 DEF Digited
  <2> HIDE DEF N
  <2>6. k \in Nat
    BY DEF N
  <2> QED BY <2>5, <2>6 DEF N
<1> HIDE DEF N
<1>3. n \in N
  BY <1>1, <1>2, SetInduction
<1> QED BY <1>3 DEF N

\* Every digit is a number.
LEMMA DigitedType ==
  ASSUME NEW base \in {10, 16}, NEW n \in Nat, NEW d, Digited(n, base, d)
  PROVE  d[n] \in Seq(Nat)
<1>1. d = [m \in 0 .. n |-> IF m < base THEN <<m>> ELSE Append(d[m \div base], m % base)]
  BY DEF Digited
<1>2. \A m \in 0 .. n : d[m] = IF m < base THEN <<m>> ELSE Append(d[m \div base], m % base)
  BY <1>1
<1> DEFINE N == {k \in Nat : \A m \in 0 .. k : m <= n => d[m] \in Seq(Nat)}
<1>3. 0 \in N
  <2>1. ASSUME NEW m \in 0 .. 0, m <= n PROVE d[m] \in Seq(Nat)
    <3>1. m \in 0 .. n /\ m < base /\ m \in Nat
      OBVIOUS
    <3>2. d[m] = <<m>>
      BY <1>2, <3>1
    <3> QED BY <3>1, <3>2
  <2> QED BY <2>1
<1>4. ASSUME NEW k \in N PROVE k + 1 \in N
  <2>1. ASSUME NEW m \in 0 .. k + 1, m <= n PROVE d[m] \in Seq(Nat)
    <3>0. m \in 0 .. n /\ m \in Nat /\ k \in Nat
      BY <2>1
    <3>1. CASE m < base
      <4>1. d[m] = <<m>>
        BY <1>2, <3>0, <3>1
      <4> QED BY <3>0, <4>1
    <3>2. CASE ~(m < base)
      <4>1. m \div base \in Nat /\ m \div base < m /\ m % base \in Nat
        BY <3>0, <3>2, Quotient
      <4>2. m \div base \in 0 .. k /\ m \div base <= n
        BY <3>0, <2>1, <4>1
      <4>3. d[m \div base] \in Seq(Nat)
        BY <4>2
      <4>4. d[m] = Append(d[m \div base], m % base)
        BY <1>2, <3>0, <3>2
      <4> QED BY <4>1, <4>3, <4>4
    <3> QED BY <3>1, <3>2
  <2>2. k + 1 \in Nat
    OBVIOUS
  <2> QED BY <2>1, <2>2
<1> HIDE DEF N
<1>5. n \in N
  BY <1>3, <1>4, SetInduction
<1> QED BY <1>5 DEF N

\* A numeral is a text.
LEMMA NumeralType == ASSUME NEW n \in Nat, NEW base \in {10, 16} PROVE Numeral(n, base) \in Seq(Nat)
<1> DEFINE d == CHOOSE d : Digited(n, base, d)
           byte(v) == IF v < 10 THEN v + 48 ELSE v + 87
<1>1. d[n] \in Seq(Nat)
  <2>1. Digited(n, base, d)
    BY DigitedExists
  <2> HIDE DEF d
  <2> QED BY <2>1, DigitedType
<1>2. Numeral(n, base) = [i \in DOMAIN d[n] |-> byte(d[n][i])]
  BY DEF Numeral, Digited
<1> HIDE DEF d
<1> PICK s \in Seq(Nat) : s = d[n]
  BY <1>1
<1>3. DOMAIN s = 1 .. Len(s) /\ Len(s) \in Nat /\ \A i \in 1 .. Len(s) : s[i] \in Nat
  OBVIOUS
<1>4. \A i \in 1 .. Len(s) : byte(s[i]) \in Nat
  BY <1>3, SMTT(60)
<1>5. [i \in 1 .. Len(s) |-> byte(s[i])] \in [1 .. Len(s) -> Nat]
  BY <1>4
<1> HIDE DEF byte
<1>6. Numeral(n, base) = [i \in 1 .. Len(s) |-> byte(s[i])]
  BY <1>2, <1>3
<1> QED BY <1>3, <1>5, <1>6, SMTT(60)

\* Texts joined.
LEMMA JoinedType ==
  ASSUME NEW m \in Nat \ {0}, NEW parts \in [1 .. m -> Seq(Nat)], NEW byte \in Nat
  PROVE  Joined(parts, byte) \in Seq(Nat)
<1> DEFINE f == [i \in 1 .. m |-> <<byte>> \o parts[i]]
<1>0. f = [i \in DOMAIN parts |-> <<byte>> \o parts[i]]
  OBVIOUS
<1>1. f \in [1 .. m -> Seq(Nat)] /\ f[m] = <<byte>> \o parts[m] /\ parts[m] \in Seq(Nat)
  OBVIOUS
<1> HIDE DEF f
<1>2. f \in Seq(Seq(Nat)) /\ Len(f) = m /\ f # <<>>
  BY <1>1
<1> PICK g : g = Front(f)
  OBVIOUS
<1>3. g \in Seq(Seq(Nat)) /\ f = Append(g, f[m])
  BY <1>2 DEF Front
<1>4. f[m] \in Seq(Nat) /\ Len(f[m]) > 0
  BY <1>1
<1>5. FlattenSeq(g) \in Seq(Nat)
  BY <1>3, FlattenType
<1>6. FlattenSeq(f) = FlattenSeq(g) \o f[m]
  <2>1. FlattenSeq(Append(g, f[m])) = FlattenSeq(g) \o f[m]
    BY ONLY <1>3, <1>4, FlattenAppend
  <2> QED BY <1>3, <2>1
<1> PICK r : r = FlattenSeq(g) \o f[m]
  OBVIOUS
<1>7. r \in Seq(Nat) /\ Len(r) > 0
  BY <1>4, <1>5
<1>8. Tail(r) \in Seq(Nat)
  BY <1>7, HeadTailProperties
<1> QED BY <1>0, <1>6, <1>8 DEF Joined

\* The first of the longest runs.
LEMMA LongestRun ==
  ASSUME NEW R, R \subseteq Nat \X Nat, R # {}, NEW B \in Nat, \A r \in R : r[2] <= B
  PROVE  \E r \in R : \A q \in R : q[2] < r[2] \/ (q[2] = r[2] /\ r[1] <= q[1])
<1> DEFINE S == {B - q[2] : q \in R}
<1>1. S \subseteq Nat /\ S # {}
  OBVIOUS
<1> HIDE DEF S
<1>2. PICK n \in S : \A m \in S : n <= m
  BY <1>1, Least
<1>3. PICK l \in R : n = B - l[2]
  BY DEF S
<1>4. \A q \in R : q[2] <= l[2]
  <2> SUFFICES ASSUME NEW q \in R PROVE q[2] <= l[2]
    OBVIOUS
  <2>1. B - q[2] \in S
    BY DEF S
  <2>2. q[2] \in Nat /\ l[2] \in Nat
    OBVIOUS
  <2> QED BY <1>2, <1>3, <2>1, <2>2
<1> DEFINE T == {q[1] : q \in {x \in R : x[2] = l[2]}}
<1>5. T \subseteq Nat /\ T # {}
  OBVIOUS
<1> HIDE DEF T
<1>6. PICK k \in T : \A m \in T : k <= m
  BY <1>5, Least
<1>7. PICK r \in R : r[2] = l[2] /\ r[1] = k
  BY DEF T
<1>8. ASSUME NEW q \in R PROVE q[2] < r[2] \/ (q[2] = r[2] /\ r[1] <= q[1])
  <2>1. q[2] = l[2] => q[1] \in T
    BY DEF T
  <2>2. q[2] <= l[2] /\ q[2] \in Nat /\ l[2] \in Nat
    BY <1>4
  <2> QED BY <1>6, <1>7, <2>1, <2>2
<1> QED BY <1>8

\* What is written of hextets, and of bytes.
LEMMA NumeralsType == ASSUME NEW h \in Seq(Nat) PROVE Numerals(h) \in Seq(Nat)
<1>1. CASE h = <<>>
  BY <1>1 DEF Numerals
<1>2. CASE h # <<>>
  <2>1. DOMAIN h = 1 .. Len(h) /\ Len(h) \in Nat \ {0}
    BY <1>2
  <2>2. \A i \in 1 .. Len(h) : Numeral(h[i], 16) \in Seq(Nat)
    <3> SUFFICES ASSUME NEW i \in 1 .. Len(h) PROVE Numeral(h[i], 16) \in Seq(Nat)
      OBVIOUS
    <3>1. h[i] \in Nat /\ 16 \in {10, 16}
      OBVIOUS
    <3> QED BY <3>1, NumeralType
  <2> PICK parts : parts = [i \in DOMAIN h |-> Numeral(h[i], 16)]
    OBVIOUS
  <2>3. parts \in [1 .. Len(h) -> Seq(Nat)]
    BY <2>1, <2>2
  <2>4. Joined(parts, Colon) \in Seq(Nat)
    BY <2>1, <2>3, JoinedType DEF Colon
  <2> QED BY <1>2, <2>4 DEF Numerals
<1> QED BY <1>1, <1>2

\* Octets are written as a text.
LEMMA OctetsType == ASSUME NEW o \in [1 .. 4 -> Nat] PROVE ipv4_to_str(o) \in Seq(Nat)
<1>1. \A i \in 1 .. 4 : Numeral(o[i], 10) \in Seq(Nat)
  <2> SUFFICES ASSUME NEW i \in 1 .. 4 PROVE Numeral(o[i], 10) \in Seq(Nat)
    OBVIOUS
  <2>1. o[i] \in Nat /\ 10 \in {10, 16}
    OBVIOUS
  <2> QED BY <2>1, NumeralType
<1> PICK parts : parts = [i \in 1 .. 4 |-> Numeral(o[i], 10)]
  OBVIOUS
<1>2. parts \in [1 .. 4 -> Seq(Nat)]
  BY <1>1
<1>3. Joined(parts, Dot) \in Seq(Nat)
  <2>1. 4 \in Nat \ {0} /\ Dot \in Nat
    BY DEF Dot
  <2> QED BY <1>2, <2>1, JoinedType
<1> QED BY <1>3 DEF ipv4_to_str

\* Whatever address is read, it is written as a text.
LEMMA DisplayV4 == ASSUME NEW o \in [1 .. 4 -> Nat] PROVE Display(V4(o)) \in Seq(Nat)
  BY OctetsType DEF Display, V4

\* So are hextets.
LEMMA DisplayV6 == ASSUME NEW h \in [1 .. Hextets -> Nat] PROVE Display(V6(h)) \in Seq(Nat)
<1>0. Hextets \in Nat /\ Hextets - 2 \in 1 .. Hextets /\ Hextets - 1 \in 1 .. Hextets /\ Hextets \in 1 .. Hextets
  BY IpAssumption
<1>1. h \in Seq(Nat) /\ Len(h) = Hextets /\ h[Hextets - 2] \in Nat /\ h[Hextets - 1] \in Nat /\ h[Hextets] \in Nat
  BY <1>0
<1>2. CASE Mapped(h)
  <2>1. Numeral(h[Hextets - 2], 16) \in Seq(Nat)
    <3>1. 16 \in {10, 16}
      OBVIOUS
    <3> QED BY <1>1, <3>1, NumeralType
  <2> PICK q : q = Place[Digits \div 2]
    OBVIOUS
  <2>2. q \in Nat \ {0}
    <3>1. Digits \div 2 \in Nat
      BY IpAssumption
    <3> QED BY <3>1, PlaceIs
  <2>3. \A x \in Nat : x \div q \in Nat /\ x % q \in Nat
    BY <2>2
  <2>4. OctetsOf(h) \in [1 .. 4 -> Nat]
    <3> PICK x \in Nat : x = h[Hextets - 1]
      BY <1>1
    <3> PICK y \in Nat : y = h[Hextets]
      BY <1>1
    <3>1. OctetsOf(h) = <<x \div q, x % q, y \div q, y % q>>
      BY DEF OctetsOf
    <3>2. x \div q \in Nat /\ x % q \in Nat /\ y \div q \in Nat /\ y % q \in Nat
      BY <2>3
    <3>3. \A c1, c2, c3, c4 \in Nat : <<c1, c2, c3, c4>> \in [1 .. 4 -> Nat]
      OBVIOUS
    <3> QED BY <3>1, <3>2, <3>3
  <2>5. ipv4_to_str(OctetsOf(h)) \in Seq(Nat)
    BY <2>4, OctetsType
  <2>6. <<Colon, Colon>> \in Seq(Nat) /\ <<Colon>> \in Seq(Nat)
    BY DEF Colon
  <2>7. ipv6_to_str(h) = <<Colon, Colon>> \o Numeral(h[Hextets - 2], 16) \o <<Colon>> \o ipv4_to_str(OctetsOf(h))
    BY <1>2 DEF ipv6_to_str
  <2>8. \A c1, c2, c3, c4 \in Seq(Nat) : c1 \o c2 \o c3 \o c4 \in Seq(Nat)
    OBVIOUS
  <2>9. ipv6_to_str(h) \in Seq(Nat)
    BY <2>1, <2>5, <2>6, <2>7, <2>8
  <2> QED BY <2>9 DEF Display, V6
<1>3. CASE ~Mapped(h) /\ ZeroRuns(h) = {}
  <2>1. ipv6_to_str(h) = Numerals(h)
    BY <1>3 DEF ipv6_to_str
  <2> QED BY <1>1, <2>1, NumeralsType DEF Display, V6
<1>4. CASE ~Mapped(h) /\ ZeroRuns(h) # {}
  <2> PICK runs : runs = ZeroRuns(h)
    OBVIOUS
  <2> DEFINE Longest(r) == \A q \in runs : q[2] < r[2] \/ (q[2] = r[2] /\ r[1] <= q[1])
             run == CHOOSE r \in runs : Longest(r)
  <2>1. \A r \in runs : r[1] \in 1 .. Hextets /\ r[2] \in 2 .. Hextets /\ r \in Nat \X Nat /\ r[2] <= Hextets
                        /\ r[1] + r[2] - 1 <= Hextets
    BY <1>0 DEF ZeroRuns
  <2>2. \E r \in runs : Longest(r)
    <3>1. runs \subseteq Nat \X Nat /\ runs # {} /\ Hextets \in Nat /\ \A r \in runs : r[2] <= Hextets
      BY <1>0, <1>4, <2>1, SMTT(60)
    <3> QED BY <3>1, LongestRun
  <2>3. run \in runs
    BY <2>2
  <2>4. ipv6_to_str(h) = Numerals(SubSeq(h, 1, run[1] - 1)) \o <<Colon, Colon>>
                           \o Numerals(SubSeq(h, run[1] + run[2], Hextets))
    BY <1>4 DEF ipv6_to_str
  <2> HIDE DEF run
  <2>5. run[1] \in 1 .. Hextets /\ run[2] \in 2 .. Hextets /\ run[1] + run[2] - 1 <= Hextets
    BY <2>1, <2>3
  <2>6. SubSeq(h, 1, run[1] - 1) \in Seq(Nat)
    <3> PICK e : e = run[1] - 1
      OBVIOUS
    <3>1. e \in Int /\ 1 \in Int /\ 1 .. e \subseteq 1 .. Hextets
      BY <1>0, <2>5, SMTT(60)
    <3>2. \A i \in 1 .. e : h[i] \in Nat
      BY <3>1
    <3> QED BY <3>1, <3>2, SubSeqProperties
  <2>7. SubSeq(h, run[1] + run[2], Hextets) \in Seq(Nat)
    <3> PICK e : e = run[1] + run[2]
      OBVIOUS
    <3>1. e \in Int /\ Hextets \in Int /\ e .. Hextets \subseteq 1 .. Hextets
      BY <1>0, <2>5, SMTT(60)
    <3>2. \A i \in e .. Hextets : h[i] \in Nat
      BY <3>1
    <3> QED BY <3>1, <3>2, SubSeqProperties
  <2>8. Numerals(SubSeq(h, 1, run[1] - 1)) \in Seq(Nat) /\ Numerals(SubSeq(h, run[1] + run[2], Hextets)) \in Seq(Nat)
    BY <2>6, <2>7, NumeralsType
  <2>9. <<Colon, Colon>> \in Seq(Nat)
    BY DEF Colon
  <2>10. \A c1, c2, c3 \in Seq(Nat) : c1 \o c2 \o c3 \in Seq(Nat)
    OBVIOUS
  <2>11. ipv6_to_str(h) \in Seq(Nat)
    BY <2>4, <2>8, <2>9, <2>10
  <2> QED BY <2>11 DEF Display, V6
<1> QED BY <1>2, <1>3, <1>4
-----------------------------------------------------------------------------
(* What the answers have to be.                                            *)

\* What is claimed of an answer r to the text t.
Outcome(t, r) ==
  LET meant == Meant(t) \cup Lax(t)
  IN  /\ ipv4_from_str(t) = Err =>
           IF meant = {} \/ Len(t) > Limit THEN r = Err
           ELSE \E h \in meant : r = V6(h)
      /\ r # Err =>
           /\ parse_ipv4_port(t) = None
           /\ r.is = "V6" <=> \E i \in DOMAIN t : t[i] = Colon

\* Some set of positions has a last one.
LEMMA LastOne ==
  ASSUME NEW n \in Nat, NEW S, S \subseteq 1 .. n, S # {}
  PROVE  Max(S) \in S /\ \A x \in S : x <= Max(S)
<1> DEFINE T == {n - x : x \in S}
<1>1. T \subseteq Nat /\ T # {}
  <2>1. ASSUME NEW x \in S PROVE n - x \in Nat
    <3>1. x \in 1 .. n
      OBVIOUS
    <3> QED BY <3>1
  <2>2. \E x \in S : TRUE
    OBVIOUS
  <2> QED BY <2>1, <2>2
<1> HIDE DEF T
<1>2. PICK k \in T : \A m \in T : k <= m
  BY <1>1, Least
<1>3. PICK l \in S : k = n - l
  BY DEF T
<1>4. ASSUME NEW x \in S PROVE x <= l
  <2>1. n - x \in T
    BY DEF T
  <2>2. n - l <= n - x
    BY <1>2, <1>3, <2>1
  <2>3. x \in Int /\ l \in Int
    OBVIOUS
  <2> QED BY <2>2, <2>3
<1>5. \E l1 \in S : \A x \in S : x <= l1
  BY <1>4
<1> QED BY <1>5 DEF Max

\* No address and port in a text of two colons.
LEMMA NoPort ==
  ASSUME NEW t \in Seq(Nat), NEW i \in 1 .. Len(t), NEW j \in 1 .. Len(t), i < j, t[i] = Colon, t[j] = Colon
  PROVE  parse_ipv4_port(t) = None
<1> DEFINE colons == {k \in DOMAIN t : t[k] = Colon}
           pos == Max(colons)
<1>1. colons \subseteq 1 .. Len(t) /\ colons # {} /\ j \in colons /\ Len(t) \in Nat
  OBVIOUS
<1> HIDE DEF colons
<1>2. pos \in colons /\ j <= pos
  BY <1>1, LastOne
<1> HIDE DEF pos
<1>3. pos \in Nat /\ pos <= Len(t) /\ i < pos /\ 0 < pos /\ i \in Nat
  BY <1>1, <1>2
<1> PICK s : s = SubSeq(t, 0 + 1, pos - 1)
  OBVIOUS
<1>4. s \in Seq(Nat) /\ Len(s) = pos - 1 - 0 /\ \A k \in 1 .. Len(s) : s[k] = t[0 + k]
  <2>1. 0 \in Nat /\ pos <= Len(t) + 1
    BY <1>1, <1>3
  <2> QED BY <1>3, <2>1, PartIs, SMTT(60)
<1>5. i \in 1 .. Len(s) /\ s[i] = Colon
  <2>1. i \in 1 .. Len(s) /\ 0 + i = i
    BY <1>3, <1>4
  <2> QED BY <1>4, <2>1
<1>6. ipv4_from_str(s) = Err
  BY <1>4, <1>5, Ipv4Is
<1>7. s = SubSeq(t, 1, pos - 1)
  OBVIOUS
<1> QED BY <1>1, <1>6, <1>7 DEF parse_ipv4_port, colons, pos

\* An error is an answer to what stands for nothing.
LEMMA OutcomeErr ==
  ASSUME NEW t \in Seq(Nat), Possible(t) => Len(t) > Limit
  PROVE  Outcome(t, Err)
<1>1. Meant(t) \cup Lax(t) # {} => Len(t) > Limit
  BY PossibleIs
<1> QED BY <1>1 DEF Outcome

\* An IPv4 address is one.
LEMMA OutcomeV4 ==
  ASSUME NEW t \in Seq(Nat), ipv4_from_str(t) # Err
  PROVE  Outcome(t, ipv4_from_str(t))
<1>1. PICK o : ipv4_from_str(t) = V4(o)
  BY Ipv4Is
<1>2. V4(o).is # "V6"
  BY DEF V4
<1>3. \A i \in DOMAIN t : t[i] # Colon
  BY Ipv4Is
<1>4. parse_ipv4_port(t) = None
  <2>1. {i \in DOMAIN t : t[i] = Colon} = {}
    BY <1>3
  <2> QED BY <2>1 DEF parse_ipv4_port
<1> QED BY <1>1, <1>2, <1>3, <1>4 DEF Outcome

\* An IPv6 address the text stands for.
LEMMA OutcomeV6 ==
  ASSUME NEW t \in Seq(Nat), NEW h \in Meant(t) \cup Lax(t), ~(Len(t) > Limit),
         NEW i \in 1 .. Len(t), NEW j \in 1 .. Len(t), i < j, t[i] = Colon, t[j] = Colon
  PROVE  Outcome(t, V6(h))
<1>1. parse_ipv4_port(t) = None
  BY NoPort
<1>2. V6(h).is = "V6"
  BY DEF V6
<1>3. \E k \in DOMAIN t : t[k] = Colon
  OBVIOUS
<1> QED BY <1>1, <1>2, <1>3 DEF Outcome
-----------------------------------------------------------------------------
(* What is read up to a position, before an ellipsis and behind it.        *)

UpTo(t, b, k, el, addr) ==
  \/ el = None /\ HextetsTo(t, 0, b, k, addr, 0)
  \/ /\ el \in 0 .. k
     /\ \E p \in 1 .. Len(t) - 1 :
          /\ t[p] = Colon /\ t[p + 1] = Colon /\ p + 1 <= b
          /\ Told(t, 0, p, el, addr, 0) /\ HextetsTo(t, p + 1, b, k - el, addr, el)

\* Hextets take room.
LEMMA HextetsRoom ==
  ASSUME NEW t, NEW a \in Nat, NEW b \in Nat, NEW n, NEW c, HextetsAt(t, a, b, n, c)
  PROVE  n \in Nat \ {0} /\ a < b
<1>1. n \in Nat \ {0} /\ c \in [0 .. n -> a .. b] /\ c[0] = a /\ \A k \in 1 .. n : c[k - 1] < c[k]
  BY DEF HextetsAt, Cut
<1>2. 1 \in 0 .. n /\ 1 \in 1 .. n
  BY <1>1
<1>3. c[1] \in a .. b /\ c[0] < c[1]
  BY <1>1, <1>2
<1> QED BY <1>1, <1>3

\* What was told of a part is not lost either.
LEMMA ToldKept ==
  ASSUME NEW t, NEW a, NEW b, NEW n \in Nat, NEW addr, NEW e \in Nat, Told(t, a, b, n, addr, e),
         NEW addr2, \A i \in e .. e + n - 1 : addr2[i] = addr[i]
  PROVE  Told(t, a, b, n, addr2, e)
<1>1. CASE n = 0 /\ a + 1 = b
  BY <1>1 DEF Told
<1>2. ASSUME NEW c, HextetsAt(t, a, b, n, c), Valued(t, n, c, addr, e) PROVE Told(t, a, b, n, addr2, e)
  <2>1. HextetsTo(t, a, b, n, addr, e)
    BY <1>2 DEF HextetsTo
  <2>2. Valued(t, n, c, addr2, e)
    <3>1. \A k \in 1 .. n : e + k - 1 \in e .. e + n - 1
      OBVIOUS
    <3> QED BY <1>2, <3>1 DEF Valued
  <2> QED BY <1>2, <2>2 DEF Told
<1> QED BY <1>1, <1>2 DEF Told

\* One hextet more.
LEMMA UpToGrows ==
  ASSUME NEW t \in Seq(Nat), NEW o \in Nat, NEW y \in Nat, NEW k \in Nat, NEW el, NEW addr,
         UpTo(t, o, k, el, addr), o > 0 => t[o] = Colon, OneHextet(t, o, y),
         NEW addr2, \A i \in 0 .. k - 1 : addr2[i] = addr[i],
         addr2[k] = ValueOf(SubSeq(t, o + 1, y - 1))
  PROVE  UpTo(t, y, k + 1, el, addr2)
<1>1. CASE el = None /\ HextetsTo(t, 0, o, k, addr, 0)
  <2>1. k # 0 => o > 0
    <3> SUFFICES ASSUME k # 0 PROVE o > 0
      OBVIOUS
    <3>1. PICK c : HextetsAt(t, 0, o, k, c)
      BY <1>1 DEF HextetsTo
    <3>2. 0 \in Nat
      OBVIOUS
    <3> QED BY <3>1, <3>2, HextetsRoom
  <2>2. 0 \in Nat /\ (\A i \in 0 .. 0 + k - 1 : addr2[i] = addr[i]) /\ addr2[0 + k] = ValueOf(SubSeq(t, o + 1, y - 1))
    OBVIOUS
  <2>3. HextetsTo(t, 0, y, k + 1, addr2, 0)
    BY <1>1, <2>1, <2>2, HextetsGrow
  <2> QED BY <1>1, <2>3 DEF UpTo
<1>2. ASSUME el \in 0 .. k, NEW p \in 1 .. Len(t) - 1, t[p] = Colon, t[p + 1] = Colon, p + 1 <= o,
             Told(t, 0, p, el, addr, 0), HextetsTo(t, p + 1, o, k - el, addr, el)
      PROVE  UpTo(t, y, k + 1, el, addr2)
  <2> PICK a \in Nat : a = p + 1
    OBVIOUS
  <2> PICK n \in Nat : n = k - el
    BY <1>2
  <2>1. el \in Nat /\ 0 \in Nat /\ el + n = k /\ o > 0 /\ t[o] = Colon
    BY <1>2
  <2>2. Told(t, 0, p, el, addr2, 0)
    <3>1. \A i \in 0 .. 0 + el - 1 : addr2[i] = addr[i]
      <4>1. \A i \in 0 .. 0 + el - 1 : i \in 0 .. k - 1
        BY <1>2, <2>1
      <4> QED BY <4>1
    <3> QED BY <1>2, <2>1, <3>1, ToldKept
  <2>3. HextetsTo(t, a, y, n + 1, addr2, el)
    <3>1. \A i \in el .. el + n - 1 : addr2[i] = addr[i]
      BY <2>1
    <3>2. HextetsTo(t, a, o, n, addr, el) /\ addr2[el + n] = ValueOf(SubSeq(t, o + 1, y - 1))
      BY <1>2, <2>1
    <3> QED BY <2>1, <3>1, <3>2, HextetsGrow
  <2>4. n + 1 = (k + 1) - el /\ el \in 0 .. k + 1
    BY <1>2, <2>1, SMTT(60)
  <2>5. p + 1 <= y
    <3>1. o + 1 < y
      BY DEF OneHextet
    <3> QED BY <1>2, <3>1
  <2>6. HextetsTo(t, p + 1, y, (k + 1) - el, addr2, el)
    BY <2>3, <2>4
  <2> QED BY <1>2, <2>2, <2>4, <2>5, <2>6 DEF UpTo
<1> QED BY <1>1, <1>2 DEF UpTo

\* An ellipsis behind them.
LEMMA UpToEllipsis ==
  ASSUME NEW t \in Seq(Nat), NEW o \in Nat, o > 0, o < Len(t), NEW k \in Nat, NEW addr,
         UpTo(t, o, k, None, addr), t[o] = Colon, t[o + 1] = Colon
  PROVE  UpTo(t, o + 1, k, k, addr)
<1>1. HextetsTo(t, 0, o, k, addr, 0)
  BY DEF UpTo, None
<1>2. Told(t, 0, o, k, addr, 0)
  BY <1>1 DEF HextetsTo, Told
<1>3. HextetsTo(t, o + 1, o + 1, k - k, addr, k)
  BY DEF HextetsTo
<1>4. o \in 1 .. Len(t) - 1 /\ k \in 0 .. k /\ o + 1 <= o + 1
  OBVIOUS
<1> QED BY <1>2, <1>3, <1>4 DEF UpTo
-----------------------------------------------------------------------------
(* Behind the loop.                                                        *)

\* More digits than a hextet has.
TooLong(t) == \E j \in 1 .. Len(t) - Digits : \A i \in j .. j + Digits : is_hex_digit(t[i])

\* How the loop was left, with the offset o: at the end of the text behind a colon or a
\* hextet, with no room for another hextet, or in front of a dot.
Ended(t, o, k, el, addr) ==
  \/ o = Len(t) /\ UpTo(t, o, k, el, addr) /\ t[o] = Colon /\ k < Hextets
  \/ /\ UpTo(t, o + 1, k, el, addr) /\ 0 < k /\ (el # None => el < k)
     /\ o < Len(t) => k = Hextets /\ (is_hex_digit(t[o + 1]) => TooLong(t))
  \/ o < Len(t) /\ t[o + 1] = Dot

\* The length of the last part, and of what it is read to.
LEMMA UpToAround ==
  ASSUME NEW t \in Seq(Nat), NEW b, NEW k \in Nat, NEW el, NEW addr, UpTo(t, b, k, el, addr), el # None
  PROVE  \E p, n : /\ p \in 1 .. Len(t) - 1 /\ n \in Nat /\ n = k - el /\ el \in Nat
                   /\ t[p] = Colon /\ t[p + 1] = Colon /\ p + 1 <= b
                   /\ Told(t, 0, p, el, addr, 0) /\ HextetsTo(t, p + 1, b, n, addr, el)
<1>1. el \in 0 .. k
  BY DEF UpTo
<1>2. k - el \in Nat /\ el \in Nat
  BY <1>1
<1> QED BY <1>2 DEF UpTo

\* What is refused behind the loop does not stand for an address.
LEMMA EndedErr ==
  ASSUME NEW t \in Seq(Nat), Len(t) > 0, NEW o \in 0 .. Len(t), NEW k \in 0 .. Hextets, NEW el, NEW addr,
         Ended(t, o, k, el, addr),
         \/ o < Len(t)
         \/ k = Hextets /\ el # None
         \/ k < Hextets /\ el = None
  PROVE  ~Possible(t)
<1> SUFFICES ASSUME Possible(t) PROVE FALSE
  OBVIOUS
<1>0. Hextets \in Nat /\ Len(t) \in Nat /\ o \in Nat /\ k \in Nat /\ 0 \in Nat /\ Hextets > 0
  BY IpAssumption
<1>1. CASE o = Len(t) /\ UpTo(t, o, k, el, addr) /\ t[o] = Colon /\ k < Hextets
  <2>1. el = None /\ HextetsTo(t, 0, o, k, addr, 0) /\ 0 < o
    BY <1>0, <1>1 DEF UpTo, None
  <2>2. PICK c : HextetsAt(t, 0, o, k, c)
    BY <2>1 DEF HextetsTo
  <2> QED BY <1>0, <1>1, <2>1, <2>2, NotTooFew
<1>2. CASE /\ UpTo(t, o + 1, k, el, addr) /\ 0 < k /\ (el # None => el < k)
           /\ o < Len(t) => k = Hextets /\ (is_hex_digit(t[o + 1]) => TooLong(t))
  <2> PICK y \in Nat : y = o + 1
    BY <1>0
  <2>0. 0 < y /\ y <= Len(t) + 1
    BY <1>0
  <2>1. CASE el = None
    <3>1. PICK c : HextetsAt(t, 0, y, k, c)
      BY <1>2, <2>1 DEF UpTo, HextetsTo, None
    <3>2. CASE o < Len(t)
      <4>1. k = Hextets /\ t[y] = Colon /\ y <= Len(t)
        <5>1. ~TooLong(t)
          BY DEF Possible, TooLong
        <5>2. y \in 1 .. Len(t) /\ ~is_hex_digit(t[y]) /\ k = Hextets
          BY <1>0, <1>2, <3>2, <5>1
        <5> QED BY <5>2 DEF Possible
      <4>2. k >= Hextets
        BY <1>0, <4>1
      <4> QED BY <3>1, <4>1, <4>2, NotTooMany
    <3>3. CASE ~(o < Len(t))
      <4>1. y = Len(t) + 1 /\ k < Hextets
        BY <1>0, <2>1, <3>3
      <4> QED BY <2>0, <3>1, <4>1, NotTooFew
    <3> QED BY <3>2, <3>3
  <2>2. CASE el # None
    <3>1. PICK p, n : /\ p \in 1 .. Len(t) - 1 /\ n \in Nat /\ n = k - el /\ el \in Nat
                      /\ t[p] = Colon /\ t[p + 1] = Colon /\ p + 1 <= y
                      /\ Told(t, 0, p, el, addr, 0) /\ HextetsTo(t, p + 1, y, n, addr, el)
      BY <1>0, <1>2, <2>2, UpToAround
    <3>2. n # 0
      BY <1>0, <1>2, <2>2, <3>1
    <3>3. PICK c : HextetsAt(t, p + 1, y, n, c)
      BY <3>1, <3>2 DEF HextetsTo
    <3>4. k = Hextets
      BY <1>2, <2>2
    <3>5. el + n >= Hextets
      BY <1>0, <3>1, <3>4
    <3> QED BY <1>0, <2>0, <3>1, <3>3, <3>5, NotTooManyAround
  <2> QED BY <2>1, <2>2
<1>3. CASE o < Len(t) /\ t[o + 1] = Dot
  <2>1. o + 1 \in 1 .. Len(t)
    BY <1>0, <1>3
  <2> QED BY <1>3, <2>1, ColonIsNone DEF Possible
<1> QED BY <1>1, <1>2, <1>3 DEF Ended

\* The colons of a text of eight hextets.
LEMMA TwoColons ==
  ASSUME NEW t \in Seq(Nat), NEW c, HextetsAt(t, 0, Len(t) + 1, Hextets, c)
  PROVE  \E i, j \in 1 .. Len(t) : i < j /\ t[i] = Colon /\ t[j] = Colon
<1>1. /\ c \in [0 .. Hextets -> 0 .. Len(t) + 1] /\ c[0] = 0 /\ c[Hextets] = Len(t) + 1
      /\ \A k \in 1 .. Hextets : c[k - 1] < c[k]
      /\ \A k \in 1 .. Hextets - 1 : t[c[k]] = Colon
      /\ Hextets \in Nat /\ Hextets >= 3 /\ Len(t) \in Nat
  <2>1. Hextets \in Nat /\ Hextets >= 3 /\ Len(t) \in Nat
    BY IpAssumption
  <2> QED BY <2>1 DEF HextetsAt, Cut
<1>2. /\ 0 \in 0 .. Hextets /\ 1 \in 0 .. Hextets /\ 2 \in 0 .. Hextets /\ Hextets \in 0 .. Hextets
      /\ 0 < 1 /\ 1 < 2 /\ 2 < Hextets
      /\ 1 \in 1 .. Hextets - 1 /\ 2 \in 1 .. Hextets - 1
  BY <1>1
<1>3. c \in [0 .. Hextets -> Int]
  BY <1>1
<1>4. c[0] < c[1] /\ c[1] < c[2] /\ c[2] < c[Hextets]
  BY <1>1, <1>2, <1>3, StepsUp
<1>5. c[1] \in 1 .. Len(t) /\ c[2] \in 1 .. Len(t)
  BY <1>1, <1>2, <1>4, SMTT(60)
<1> QED BY <1>1, <1>2, <1>4, <1>5

\* What is accepted there is what the text stands for.
LEMMA EndedV6 ==
  ASSUME NEW t \in Seq(Nat), NEW o \in 0 .. Len(t), NEW k \in 0 .. Hextets, NEW el,
         NEW addr \in [0 .. Hextets - 1 -> Nat], Ended(t, o, k, el, addr),
         ~(o < Len(t)), ~(k = Hextets /\ el # None), ~(k < Hextets /\ el = None)
  PROVE  /\ IF k < Hextets THEN Spread(addr, el, k - el) \in Meant(t) \cup Lax(t)
                           ELSE AsNumber(addr) \in Meant(t) \cup Lax(t)
         /\ k < Hextets => el \in 0 .. k
         /\ \E i, j \in 1 .. Len(t) : i < j /\ t[i] = Colon /\ t[j] = Colon
<1>0. Hextets \in Nat /\ Len(t) \in Nat /\ o = Len(t) /\ k \in Nat /\ 0 \in Nat
  BY IpAssumption
<1>1. CASE k = Hextets
  <2>1. UpTo(t, Len(t) + 1, Hextets, None, addr)
    BY <1>0, <1>1 DEF Ended
  <2>2. HextetsTo(t, 0, Len(t) + 1, Hextets, addr, 0) /\ Hextets # 0
    BY <2>1, IpAssumption DEF UpTo, None
  <2>3. PICK c : HextetsAt(t, 0, Len(t) + 1, Hextets, c) /\ Valued(t, Hextets, c, addr, 0)
    BY <2>2 DEF HextetsTo
  <2>4. Told(t, 0, Len(t) + 1, Hextets, addr, 0)
    BY <2>3 DEF Told
  <2>5. AsNumber(addr) \in Meant(t)
    BY <2>4, TellsPlain
  <2> QED BY <1>0, <1>1, <2>3, <2>5, TwoColons
<1>2. CASE k < Hextets
  <2>1. el # None
    BY <1>2
  <2>2. \/ UpTo(t, Len(t), k, el, addr) /\ t[Len(t)] = Colon
        \/ UpTo(t, Len(t) + 1, k, el, addr) /\ el < k
    BY <1>0, <2>1 DEF Ended
  <2> PICK b \in Nat : \/ b = Len(t) /\ UpTo(t, b, k, el, addr) /\ t[Len(t)] = Colon
                       \/ b = Len(t) + 1 /\ UpTo(t, b, k, el, addr) /\ el < k
    BY <1>0, <2>2
  <2>3. PICK p, n : /\ p \in 1 .. Len(t) - 1 /\ n \in Nat /\ n = k - el /\ el \in Nat
                    /\ t[p] = Colon /\ t[p + 1] = Colon /\ p + 1 <= b
                    /\ Told(t, 0, p, el, addr, 0) /\ HextetsTo(t, p + 1, b, n, addr, el)
    BY <1>0, <2>1, UpToAround
  <2>4. el + n < Hextets /\ el \in 0 .. k
    BY <1>0, <1>2, <2>3
  <2>5. p \in 1 .. Len(t) /\ p + 1 \in 1 .. Len(t) /\ p < p + 1
    BY <1>0, <2>3
  <2>6. CASE n = 0 /\ b = Len(t) /\ p + 1 = b
    <3> PICK L \in Nat : L = Len(t)
      BY <1>0
    <3>1. Told(t, p + 1, L + 1, n, addr, el)
      BY <2>6 DEF Told
    <3>2. Spread(addr, el, n) \in Meant(SubSeq(t, 1, L))
      <4>1. L <= Len(t) /\ p \in 1 .. L - 1
        BY <2>3
      <4> QED BY <2>3, <2>4, <3>1, <4>1, TellsAround
    <3>3. SubSeq(t, 1, L) = t
      OBVIOUS
    <3>4. Spread(addr, el, k - el) \in Meant(t)
      BY <2>3, <3>2, <3>3
    <3> QED BY <1>2, <2>3, <2>4, <2>5, <3>4
  <2>7. CASE b = Len(t) + 1 /\ n # 0
    <3> PICK L \in Nat : L = Len(t)
      BY <1>0
    <3>1. Told(t, p + 1, L + 1, n, addr, el)
      BY <2>3, <2>7 DEF HextetsTo, Told
    <3>2. Spread(addr, el, n) \in Meant(SubSeq(t, 1, L))
      <4>1. L <= Len(t) /\ p \in 1 .. L - 1
        BY <2>3
      <4> QED BY <2>3, <2>4, <3>1, <4>1, TellsAround
    <3>3. SubSeq(t, 1, L) = t
      OBVIOUS
    <3>4. Spread(addr, el, k - el) \in Meant(t)
      BY <2>3, <3>2, <3>3
    <3> QED BY <1>2, <2>3, <2>4, <2>5, <3>4
  <2>8. CASE b = Len(t) /\ n # 0 /\ t[Len(t)] = Colon
    <3> PICK L : L = Len(t) - 1
      OBVIOUS
    <3>1. PICK c : HextetsAt(t, p + 1, b, n, c) /\ Valued(t, n, c, addr, el)
      BY <2>3, <2>8 DEF HextetsTo
    <3>2. (p + 1) + 1 < b /\ Shape(t, p + 1, b)
      <4> PICK a \in Nat : a = p + 1
        BY <2>5
      <4>1. HextetsAt(t, a, b, n, c)
        BY <3>1
      <4>2. a < b
        BY <4>1, HextetsRoom
      <4>3. b <= Len(t) + 1
        BY <1>0, <2>8
      <4>4. Shape(t, a, b) /\ a + 1 < b
        BY ONLY t \in Seq(Nat), a \in Nat, b \in Nat, <4>1, <4>2, <4>3, HextetsShape
      <4> QED BY <4>4
    <3>3. L \in Nat /\ L <= Len(t) /\ p \in 1 .. L - 1 /\ L + 1 = b /\ Len(t) > 3 /\ p \in 1 .. Len(t) - 2
      BY <1>0, <2>5, <2>8, <3>2, SMTT(60)
    <3>4. t[Len(t) - 1] # Colon
      BY <2>8, <3>2 DEF Shape
    <3>5. Told(t, p + 1, L + 1, n, addr, el)
      BY <3>1, <3>3 DEF Told
    <3>6. Spread(addr, el, n) \in Meant(SubSeq(t, 1, L))
      BY <2>3, <2>4, <3>3, <3>5, TellsAround
    <3>7. Lax(t) = Meant(SubSeq(t, 1, L))
      BY <2>3, <2>8, <3>3, <3>4 DEF Lax, Last, Front
    <3>8. Spread(addr, el, k - el) \in Lax(t)
      BY <2>3, <3>6, <3>7
    <3> QED BY <1>2, <2>3, <2>4, <2>5, <3>8
  <2>9. \/ n = 0 /\ p + 1 = b
        \/ n # 0
    BY <2>3 DEF HextetsTo, HextetsAt, Cut
  <2>10. b = Len(t) + 1 => n # 0
    BY <1>0, <2>3, <2>5
  <2> QED BY <2>6, <2>7, <2>8, <2>9, <2>10
<1>3. k = Hextets \/ k < Hextets
  BY <1>0
<1> QED BY <1>1, <1>2, <1>3
-----------------------------------------------------------------------------
(* The inductive invariant of the reader.                                  *)

\* The answers there are.
Answer(r) == \/ r = Err
             \/ \E o \in [1 .. 4 -> Nat] : r = V4(o)
             \/ \E h \in [1 .. Hextets -> Nat] : r = V6(h)

Meaning ==
  /\ text \in Seq(Nat) /\ address \in [0 .. Hextets - 1 -> Nat]
  /\ at \in {"loop", "last"} => ipv4_from_str(text) = Err /\ Len(text) \in 2 .. Limit
  /\ at = "loop" => /\ UpTo(text, offset, hextet_index, ellipsis, address)
                    /\ offset > 0 => text[offset] = Colon
                    /\ offset = 0 => text[1] # Colon
  /\ at = "last" => Ended(text, offset, hextet_index, ellipsis, address)
  /\ at = "done" => Outcome(text, result) /\ Answer(result)

\* No hextet is zero.
LEMMA ZeroType == Zero \in [0 .. Hextets - 1 -> Nat]
  BY DEF Zero

\* The texts tools ask about are texts.
LEMMA MeaningInit == Init => Meaning
<1> SUFFICES ASSUME Init PROVE Meaning
  OBVIOUS
<1>1. text \in Seq(Nat) /\ at = "asked" /\ address = Zero
  BY IpAssumption DEF Init
<1> QED BY <1>1, ZeroType DEF Meaning

\* An answer that is an outcome.
LEMMA ReturnsMeaning ==
  ASSUME NEW answer, Meaning, Returns(answer), Outcome(text, answer), Answer(answer)
  PROVE  Meaning'
<1>1. at' = "done" /\ result' = answer /\ text' = text /\ address' = address
  BY DEF Returns, locals
<1>2. Outcome(text', result') /\ Answer(result')
  BY <1>1
<1> QED BY <1>1, <1>2 DEF Meaning

\* An error, where the text stands for nothing.
LEMMA RefusedMeaning ==
  ASSUME Meaning, Returns(Err), Possible(text) => Len(text) > Limit
  PROVE  Meaning'
<1>1. text \in Seq(Nat)
  BY DEF Meaning
<1>2. Outcome(text, Err)
  BY <1>1, OutcomeErr
<1>3. Answer(Err)
  BY DEF Answer
<1> QED BY <1>2, <1>3, ReturnsMeaning

\* What is decided without the loop.
LEMMA ShortMeaning == ASSUME Meaning, Short PROVE Meaning'
<1>0. text \in Seq(Nat) /\ Len(text) \in Nat
  BY DEF Meaning
<1>1. CASE ipv4_from_str(text) # Err /\ Returns(ipv4_from_str(text))
  <2>1. Answer(ipv4_from_str(text))
    BY <1>0, <1>1, Ipv4Is DEF Answer
  <2>2. Outcome(text, ipv4_from_str(text))
    BY <1>0, <1>1, OutcomeV4
  <2> QED BY <1>1, <2>1, <2>2, ReturnsMeaning
<1>2. CASE /\ \/ Len(text) > Limit \/ Len(text) < 2
              \/ Len(text) >= 2 /\ Byte(0) = Colon /\ Byte(1) # Colon
           /\ Returns(Err)
  <2>1. ASSUME Possible(text) PROVE Len(text) > Limit
    <3>1. Len(text) > 1 /\ (text[1] = Colon => text[2] = Colon)
      BY <2>1 DEF Possible
    <3>2. Byte(0) = text[1] /\ Byte(1) = text[2]
      BY DEF Byte
    <3> QED BY <1>0, <1>2, <3>1, <3>2
  <2> QED BY <1>2, <2>1, RefusedMeaning
<1>3. CASE text = <<Colon, Colon>> /\ Returns(V6(AsNumber(Zero)))
  <2>1. Len(text) = 2 /\ text[1] = Colon /\ text[2] = Colon /\ 1 \in 1 .. Len(text) /\ 2 \in 1 .. Len(text) /\ 1 < 2
    BY <1>3
  <2>2. ~(2 > Limit)
    <3>1. Hextets \in Nat /\ Hextets >= 3 /\ Digits \in Nat /\ Digits >= 1
      BY IpAssumption
    <3>2. Hextets * Digits >= Hextets /\ Hextets * Digits \in Nat
      BY <3>1, Z3
    <3>3. Limit = Hextets * Digits + Hextets - 2
      BY DEF Limit
    <3> HIDE DEF Limit
    <3> QED BY <3>1, <3>2, <3>3
  <2>3. Spread(Zero, 0, 0) \in Meant(SubSeq(text, 1, 2))
    <3>1. /\ 2 \in Nat /\ 2 <= Len(text) /\ 1 \in 1 .. 2 - 1 /\ 0 \in Nat /\ 0 + 0 < Hextets
          /\ text[1] = Colon /\ text[1 + 1] = Colon
      BY <2>1, IpAssumption
    <3>2. Told(text, 0, 1, 0, Zero, 0) /\ Told(text, 1 + 1, 2 + 1, 0, Zero, 0)
      BY DEF Told
    <3> QED BY <1>0, <3>1, <3>2, ZeroType, TellsAround
  <2>4. SubSeq(text, 1, 2) = text
    BY <1>0, <2>1
  <2>5. Spread(Zero, 0, 0) = AsNumber(Zero) /\ AsNumber(Zero) \in [1 .. Hextets -> Nat]
    <3>1. ASSUME NEW i \in 1 .. Hextets
          PROVE  /\ Zero[i - 1] = 0 /\ ~(i <= 0) /\ i <= Hextets - 0
      <4>1. i - 1 \in 0 .. Hextets - 1 /\ Hextets \in Nat
        BY IpAssumption
      <4> QED BY <4>1 DEF Zero
    <3> QED BY <3>1 DEF Spread, AsNumber
  <2>6. Outcome(text, V6(AsNumber(Zero)))
    <3>1. AsNumber(Zero) \in Meant(text) \cup Lax(text)
      BY <2>3, <2>4, <2>5
    <3>2. ~(Len(text) > Limit)
      BY <2>1, <2>2
    <3> QED BY <1>0, <2>1, <3>1, <3>2, OutcomeV6
  <2>7. Answer(V6(AsNumber(Zero)))
    BY <2>5 DEF Answer
  <2> QED BY <1>3, <2>6, <2>7, ReturnsMeaning
<1> QED BY <1>1, <1>2, <1>3 DEF Short

\* The loop begins with nothing read, or behind an ellipsis.
LEMMA BeginMeaning == ASSUME Meaning, Begin PROVE Meaning'
<1>1. /\ text \in Seq(Nat) /\ text' = text /\ at' = "loop" /\ address' = Zero /\ hextet_index' = 0
      /\ ipv4_from_str(text) = Err /\ Len(text) \in 2 .. Limit
      /\ IF Byte(0) = Colon THEN ellipsis' = 0 /\ offset' = 2 ELSE ellipsis' = None /\ offset' = 0
      /\ Byte(0) = Colon => Byte(1) = Colon
      /\ Byte(0) = text[1] /\ Byte(1) = text[2]
  BY DEF Meaning, Begin, Byte
<1>2. CASE text[1] = Colon
  <2>1. text[2] = Colon /\ ellipsis' = 0 /\ offset' = 2
    BY <1>1, <1>2
  <2>2. UpTo(text, 2, 0, 0, Zero)
    <3>1. /\ 1 \in 1 .. Len(text) - 1 /\ 1 + 1 = 2 /\ 1 + 1 <= 2 /\ 0 \in 0 .. 0 /\ 0 - 0 = 0
      BY <1>1, LimitIsInt
    <3>2. Told(text, 0, 1, 0, Zero, 0)
      BY DEF Told
    <3>3. HextetsTo(text, 2, 2, 0, Zero, 0)
      BY DEF HextetsTo
    <3> QED BY <1>2, <2>1, <3>1, <3>2, <3>3 DEF UpTo
  <2>3. UpTo(text', offset', hextet_index', ellipsis', address')
    BY <1>1, <2>1, <2>2
  <2> QED BY <1>1, <2>1, <2>3, ZeroType DEF Meaning
<1>3. CASE text[1] # Colon
  <2>1. ellipsis' = None /\ offset' = 0
    BY <1>1, <1>3
  <2>2. UpTo(text, 0, 0, None, Zero)
    BY DEF UpTo, HextetsTo
  <2>3. UpTo(text', offset', hextet_index', ellipsis', address')
    BY <1>1, <2>1, <2>2
  <2> QED BY <1>1, <1>3, <2>1, <2>3, ZeroType DEF Meaning
<1> QED BY <1>2, <1>3

\* What is known in the loop.
LEMMA LoopIs ==
  ASSUME Reading, Meaning, at = "loop"
  PROVE  /\ text \in Seq(Nat) /\ Len(text) \in Nat /\ Len(text) >= 2 /\ Len(text) <= Limit
         /\ offset \in 0 .. Len(text) /\ offset \in Nat /\ hextet_index \in 0 .. Hextets - 1 /\ hextet_index \in Nat
         /\ ellipsis \in {None} \cup 0 .. hextet_index
         /\ address \in [0 .. Hextets - 1 -> Nat]
         /\ UpTo(text, offset, hextet_index, ellipsis, address)
         /\ offset > 0 => text[offset] = Colon
         /\ offset = 0 => text[1] # Colon
         /\ ipv4_from_str(text) = Err
<1>1. /\ text \in Seq(Nat) /\ Len(text) \in 2 .. Limit /\ ipv4_from_str(text) = Err
      /\ address \in [0 .. Hextets - 1 -> Nat]
      /\ UpTo(text, offset, hextet_index, ellipsis, address)
      /\ offset > 0 => text[offset] = Colon
      /\ offset = 0 => text[1] # Colon
  BY DEF Meaning
<1>2. /\ offset \in 0 .. Len(text) /\ hextet_index \in 0 .. Hextets - 1
      /\ ellipsis \in {None} \cup 0 .. hextet_index
  BY DEF Reading, IndexInBounds
<1>3. Len(text) \in Nat /\ Len(text) >= 2 /\ Len(text) <= Limit
  BY <1>1, LimitIsInt
<1> QED BY <1>1, <1>2, <1>3

\* The text ends behind a colon.
LEMMA EndOfTextMeaning == ASSUME Reading, Meaning, EndOfText PROVE Meaning'
<1>1. /\ text' = text /\ address' = address /\ offset' = offset /\ hextet_index' = hextet_index
      /\ ellipsis' = ellipsis /\ at' = "last" /\ at = "loop" /\ offset = Len(text)
  BY DEF EndOfText, locals
<1>2. /\ UpTo(text, offset, hextet_index, ellipsis, address) /\ text[offset] = Colon
      /\ hextet_index < Hextets
  <2>1. offset > 0 /\ Hextets \in Nat
    BY <1>1, LoopIs, IpAssumption
  <2> QED BY <1>1, <2>1, LoopIs
<1>3. Ended(text, offset, hextet_index, ellipsis, address)
  BY <1>1, <1>2 DEF Ended
<1>4. Ended(text', offset', hextet_index', ellipsis', address')
  BY <1>1, <1>3
<1> QED BY <1>1, <1>4 DEF Meaning

\* A colon where a hextet should be is the second of an ellipsis; another one is the end.
LEMMA EllipsisMeaning == ASSUME Reading, Meaning, Ellipsis PROVE Meaning'
<1>1. at = "loop" /\ offset # Len(text) /\ text[offset + 1] = Colon
  BY DEF Ellipsis, Byte
<1>2. offset < Len(text) /\ offset \in Nat /\ Len(text) \in Nat
  BY <1>1, LoopIs
<1>3. offset > 0 /\ text[offset] = Colon
  <2>1. offset # 0
    <3>1. ASSUME offset = 0 PROVE FALSE
      <4>1. text[1] # Colon
        BY <1>1, <3>1, LoopIs
      <4> QED BY <1>1, <3>1, <4>1
    <3> QED BY <3>1
  <2> QED BY <1>1, <1>2, <2>1, LoopIs
<1>4. CASE ellipsis # None
  <2>1. Returns(Err)
    BY <1>4 DEF Ellipsis
  <2>2. ASSUME Possible(text) PROVE FALSE
    <3>1. PICK p, n : p \in 1 .. Len(text) - 1 /\ text[p] = Colon /\ text[p + 1] = Colon /\ p + 1 <= offset
      BY <1>1, <1>4, LoopIs, UpToAround
    <3>2. CASE Plain(text)
      <4>1. Shape(text, 0, Len(text) + 1)
        BY <1>1, <3>2, LoopIs, PlainShape
      <4>2. p \in 0 + 1 .. (Len(text) + 1) - 2
        BY <1>2, <3>1
      <4> QED BY <3>1, <4>1, <4>2 DEF Shape
    <3>3. ASSUME NEW L, NEW i, AroundIn(text, L, i) PROVE FALSE
      <4>1. \A j \in 1 .. Len(text) - 1 : text[j] = Colon /\ text[j + 1] = Colon => j = i
        BY <1>1, <3>3, LoopIs, AroundInIs
      <4>2. offset \in 1 .. Len(text) - 1
        BY <1>2, <1>3
      <4>3. offset = i /\ p = i
        BY <1>1, <1>3, <3>1, <4>1, <4>2
      <4> QED BY <1>2, <3>1, <4>3
    <3> QED BY <2>2, <3>2, <3>3 DEF Possible
  <2> QED BY <2>1, <2>2, RefusedMeaning
<1>5. CASE ellipsis = None
  <2>1. /\ ellipsis' = hextet_index /\ offset' = offset + 1 /\ text' = text /\ at' = at /\ address' = address
        /\ hextet_index' = hextet_index
    BY <1>5 DEF Ellipsis
  <2>2. UpTo(text, offset, hextet_index, None, address) /\ text \in Seq(Nat) /\ hextet_index \in Nat
    BY <1>1, <1>5, LoopIs
  <2>3. UpTo(text, offset + 1, hextet_index, hextet_index, address)
    BY <1>1, <1>2, <1>3, <2>2, UpToEllipsis
  <2>4. UpTo(text', offset', hextet_index', ellipsis', address')
    BY <2>1, <2>3
  <2>5. (offset' > 0 => text'[offset'] = Colon) /\ offset' # 0
    BY <1>1, <1>2, <2>1
  <2> QED BY <1>1, <2>1, <2>4, <2>5 DEF Meaning
<1> QED BY <1>4, <1>5

\* A byte that is no digit and no colon.
LEMMA Foreign ==
  ASSUME NEW t \in Seq(Nat), NEW i \in 1 .. Len(t), ~is_hex_digit(t[i]), t[i] # Colon
  PROVE  ~Possible(t)
  BY DEF Possible

\* A place without a hextet is an ellipsis or ends the reading.
LEMMA NoHextetMeaning == ASSUME Reading, Meaning, NoHextet PROVE Meaning'
<1>1. at = "loop" /\ offset # Len(text) /\ text[offset + 1] # Colon /\ Returns(Err) /\ Reads(0)
  BY DEF NoHextet, Byte
<1>2. text \in Seq(Nat) /\ offset \in 0 .. Len(text) /\ Len(text) \in Nat
  BY <1>1, LoopIs
<1>3. offset + 1 \in 1 .. Len(text)
  BY <1>1, <1>2
<1>4. ~is_hex_digit(text[offset + 1])
  <2>1. ~Digit(0 + 1) /\ 0 + 1 = 1
    BY <1>1, IpAssumption DEF Reads
  <2> QED BY <1>3, <2>1 DEF Digit
<1>5. ~Possible(text)
  BY <1>1, <1>2, <1>3, <1>4, Foreign
<1> QED BY <1>1, <1>5, RefusedMeaning

\* What read_hextet reads.
LEMMA ReadsIs ==
  ASSUME text \in Seq(Nat), offset \in Nat, NEW n \in 1 .. Digits, Reads(n)
  PROVE  LET y == offset + n + 1
         IN  /\ y \in Nat /\ y <= Len(text) + 1 /\ OneHextet(text, offset, y)
             /\ Hextet(n) = ValueOf(SubSeq(text, offset + 1, y - 1)) /\ Hextet(n) \in Nat
             /\ y <= Len(text) /\ is_hex_digit(text[y]) => TooLong(text)
<1> PICK y : y = offset + n + 1
  OBVIOUS
<1>0. Digits \in Nat /\ n \in Nat /\ n >= 1 /\ n <= Digits /\ y \in Nat /\ y - 1 - offset = n /\ Len(text) \in Nat
      /\ offset < y
  BY IpAssumption
<1>1. /\ \A i \in 1 .. n : offset + i <= Len(text) /\ is_hex_digit(text[offset + i])
      /\ n = Digits \/ ~(offset + (n + 1) <= Len(text) /\ is_hex_digit(text[offset + (n + 1)]))
  BY DEF Reads, Digit
<1>2. y <= Len(text) + 1
  <2>1. n \in 1 .. n
    BY <1>0
  <2>2. offset + n <= Len(text)
    BY <1>1, <2>1
  <2> QED BY <1>0, <2>2
<1>3. OneHextet(text, offset, y)
  <2>1. ASSUME NEW j \in offset + 1 .. y - 1 PROVE is_hex_digit(text[j])
    <3>1. j - offset \in 1 .. n /\ offset + (j - offset) = j
      BY <1>0
    <3>2. is_hex_digit(text[offset + (j - offset)])
      BY <1>1, <3>1
    <3> QED BY <3>1, <3>2
  <2>2. offset + 1 < y /\ y <= offset + 1 + Digits
    BY <1>0
  <2> QED BY <2>1, <2>2 DEF OneHextet
<1> PICK s : s = SubSeq(text, offset + 1, y - 1)
  OBVIOUS
<1>4. s \in Seq(Nat) /\ Len(s) = n /\ DOMAIN s = 1 .. n /\ \A i \in 1 .. n : s[i] = text[offset + i]
  <2>1. s \in Seq(Nat) /\ Len(s) = y - 1 - offset /\ DOMAIN s = 1 .. Len(s) /\ \A i \in 1 .. Len(s) : s[i] = text[offset + i]
    BY <1>0, <1>2, PartIs
  <2> QED BY <1>0, <2>1
<1>5. Worth(s) = [i \in 1 .. n |-> hex_to_digit(text[offset + i])]
  BY <1>4 DEF Worth
<1>6. Hextet(n) = Accumulated(16, Worth(s))
  BY <1>5 DEF Hextet
<1>7. ValueOf(s) = Accumulated(16, Worth(s)) /\ ValueOf(s) \in Nat
  <2>1. \A i \in DOMAIN s : is_hex_digit(s[i])
    BY <1>1, <1>4
  <2> QED BY <1>4, <2>1, ValueIs
<1>8. ASSUME y <= Len(text), is_hex_digit(text[y]) PROVE TooLong(text)
  <2>1. n = Digits
    <3>1. offset + (n + 1) = y
      BY <1>0
    <3> QED BY <1>1, <1>8, <3>1
  <2>2. offset + 1 \in 1 .. Len(text) - Digits
    BY <1>0, <1>8, <2>1
  <2>3. ASSUME NEW j \in (offset + 1) .. (offset + 1) + Digits PROVE is_hex_digit(text[j])
    <3>1. j = y \/ j \in offset + 1 .. y - 1
      BY <1>0, <2>1
    <3> QED BY <1>3, <1>8, <3>1 DEF OneHextet
  <2> QED BY <2>2, <2>3 DEF TooLong
<1> QED BY <1>0, <1>2, <1>3, <1>6, <1>7, <1>8

\* A hextet is read to its place, whatever comes behind it.
LEMMA ReadHextetMeaning == ASSUME Reading, Meaning, NEW n \in 1 .. Digits, ReadHextet(n) PROVE Meaning'
<1>1. /\ at = "loop" /\ offset # Len(text) /\ Reads(n)
      /\ address' = [address EXCEPT ![hextet_index] = Hextet(n)] /\ hextet_index' = hextet_index + 1
      /\ text' = text /\ ellipsis' = ellipsis
  BY DEF ReadHextet
<1>2. /\ text \in Seq(Nat) /\ Len(text) \in Nat /\ offset \in Nat /\ hextet_index \in Nat
      /\ hextet_index \in 0 .. Hextets - 1 /\ Hextets \in Nat /\ n \in Nat /\ Digits \in Nat
      /\ ellipsis \in {None} \cup 0 .. hextet_index
      /\ address \in [0 .. Hextets - 1 -> Nat]
      /\ UpTo(text, offset, hextet_index, ellipsis, address)
      /\ offset > 0 => text[offset] = Colon
      /\ ipv4_from_str(text) = Err /\ Len(text) \in 2 .. Limit
  BY <1>1, LoopIs, IpAssumption DEF Meaning
<1> PICK y : y = offset + n + 1
  OBVIOUS
<1>3. /\ y \in Nat /\ y <= Len(text) + 1 /\ OneHextet(text, offset, y)
      /\ Hextet(n) = ValueOf(SubSeq(text, offset + 1, y - 1)) /\ Hextet(n) \in Nat
      /\ y <= Len(text) /\ is_hex_digit(text[y]) => TooLong(text)
  BY <1>1, <1>2, ReadsIs
<1>4. /\ address' \in [0 .. Hextets - 1 -> Nat]
      /\ \A i \in 0 .. hextet_index - 1 : address'[i] = address[i]
      /\ address'[hextet_index] = ValueOf(SubSeq(text, offset + 1, y - 1))
  <2>1. address' \in [0 .. Hextets - 1 -> Nat] /\ address'[hextet_index] = Hextet(n)
    BY <1>1, <1>2, <1>3
  <2>2. ASSUME NEW i \in 0 .. hextet_index - 1 PROVE address'[i] = address[i]
    <3>1. i \in 0 .. Hextets - 1 /\ i # hextet_index
      BY <1>2
    <3> QED BY <1>1, <1>2, <3>1
  <2> QED BY <1>3, <2>1, <2>2
<1> PICK addr : addr = address'
  OBVIOUS
<1>5. UpTo(text, y, hextet_index + 1, ellipsis, addr)
  BY <1>2, <1>3, <1>4, UpToGrows
<1>6. UpTo(text', y, hextet_index', ellipsis', address')
  BY <1>1, <1>5
<1>7. CASE /\ hextet_index' = Hextets \/ offset + n = Len(text)
           /\ at' = "last" /\ offset' = offset + n
  <2>1. y = offset' + 1 /\ hextet_index' \in Nat /\ 0 < hextet_index'
    BY <1>1, <1>2, <1>7
  <2>2. ellipsis' # None => ellipsis' < hextet_index'
    BY <1>1, <1>2
  <2>3. offset' < Len(text') => hextet_index' = Hextets /\ (is_hex_digit(text'[offset' + 1]) => TooLong(text'))
    <3>1. text' = text /\ offset' = offset + n
      BY <1>1, <1>7
    <3>2. offset' < Len(text) => y <= Len(text)
      BY <1>2, <1>3, <2>1, <3>1
    <3> QED BY <1>2, <1>3, <1>7, <2>1, <3>1, <3>2
  <2>4. Ended(text', offset', hextet_index', ellipsis', address')
    BY <1>6, <2>1, <2>2, <2>3 DEF Ended
  <2> QED BY <1>1, <1>2, <1>4, <1>7, <2>4 DEF Meaning
<1>8. CASE offset + n < Len(text) /\ Byte(offset + n) = Colon /\ offset' = offset + n + 1 /\ at' = at
  <2>1. offset' = y /\ y # 0 /\ text[y] = Colon
    BY <1>2, <1>8 DEF Byte
  <2>2. UpTo(text', offset', hextet_index', ellipsis', address')
    BY <1>6, <2>1
  <2>3. (offset' > 0 => text'[offset'] = Colon) /\ offset' # 0
    BY <1>1, <2>1
  <2> QED BY <1>1, <1>2, <1>4, <1>8, <2>2, <2>3 DEF Meaning
<1> QED BY <1>7, <1>8 DEF ReadHextet

\* In front of a dot, the loop is left before it.
LEMMA ReadIpv4Meaning == ASSUME Reading, Meaning, NEW n \in 1 .. Digits, ReadIpv4(n) PROVE Meaning'
<1>1. /\ at = "loop" /\ Reads(n) /\ offset + n < Len(text) /\ text[(offset + n) + 1] = Dot
      /\ IF Len(text) - offset # 4 THEN Returns(Err)
         ELSE /\ address' = [address EXCEPT ![hextet_index] = Word(0), ![hextet_index + 1] = Word(2)]
              /\ hextet_index' = hextet_index + 2 /\ offset' = offset + n
              /\ at' = "last"
              /\ UNCHANGED <<text, ellipsis, result, shown>>
  BY DEF ReadIpv4, Byte
<1>2. /\ text \in Seq(Nat) /\ Len(text) \in Nat /\ offset \in Nat /\ n \in Nat
      /\ address \in [0 .. Hextets - 1 -> Nat]
      /\ ipv4_from_str(text) = Err /\ Len(text) \in 2 .. Limit
  BY <1>1, LoopIs, IpAssumption, SMTT(60) DEF Meaning
<1>3. CASE Len(text) - offset # 4
  <2>1. (offset + n) + 1 \in 1 .. Len(text)
    BY <1>1, <1>2
  <2>2. ~Possible(text)
    BY <1>1, <1>2, <2>1, ColonIsNone, Foreign
  <2> QED BY <1>1, <1>3, <2>2, RefusedMeaning
<1>4. CASE Len(text) - offset = 4
  <2>1. /\ address' = [address EXCEPT ![hextet_index] = Word(0), ![hextet_index + 1] = Word(2)]
        /\ offset' = offset + n /\ at' = "last" /\ text' = text
    BY <1>1, <1>4
  <2>2. Word(0) \in Nat /\ Word(2) \in Nat
    <3>1. /\ offset + 0 + 1 \in 1 .. Len(text) /\ offset + 0 + 1 + 1 \in 1 .. Len(text)
          /\ offset + 2 + 1 \in 1 .. Len(text) /\ offset + 2 + 1 + 1 \in 1 .. Len(text)
      BY <1>2, <1>4
    <3>2. /\ text[offset + 0 + 1] \in Nat /\ text[offset + 0 + 1 + 1] \in Nat
          /\ text[offset + 2 + 1] \in Nat /\ text[offset + 2 + 1 + 1] \in Nat
      BY <1>2, <3>1, SMTT(60)
    <3> QED BY <3>2 DEF Word, Byte
  <2>3. address' \in [0 .. Hextets - 1 -> Nat]
    BY <1>2, <2>1, <2>2
  <2>4. offset' < Len(text') /\ text'[offset' + 1] = Dot
    BY <1>1, <2>1
  <2>5. Ended(text', offset', hextet_index', ellipsis', address')
    BY <2>4 DEF Ended
  <2> QED BY <1>2, <2>1, <2>3, <2>5 DEF Meaning
<1> QED BY <1>3, <1>4

\* No text that stands for an address goes on otherwise.
LEMMA UnexpectedMeaning == ASSUME Reading, Meaning, NEW n \in 1 .. Digits, Unexpected(n) PROVE Meaning'
<1> PICK y : y = offset + n + 1
  OBVIOUS
<1>1. /\ at = "loop" /\ Reads(n) /\ offset + n < Len(text) /\ text[y] # Colon /\ Returns(Err)
  BY DEF Unexpected, Byte
<1>2. text \in Seq(Nat) /\ Len(text) \in Nat /\ offset \in Nat /\ n \in Nat
  BY <1>1, LoopIs, IpAssumption
<1>3. y \in 1 .. Len(text) /\ y <= Len(text)
  BY <1>1, <1>2
<1>4. is_hex_digit(text[y]) => TooLong(text)
  BY <1>1, <1>2, <1>3, ReadsIs
<1>5. ~Possible(text)
  <2>1. CASE is_hex_digit(text[y])
    BY <1>4, <2>1 DEF Possible, TooLong
  <2>2. CASE ~is_hex_digit(text[y])
    BY <1>1, <1>2, <1>3, <2>2, Foreign
  <2> QED BY <2>1, <2>2
<1> QED BY <1>1, <1>5, RefusedMeaning

\* The hextets, as they are returned, are the numbers of an address.
LEMMA MovedIs ==
  ASSUME address \in [0 .. Hextets - 1 -> Nat], hextet_index \in 0 .. Hextets - 1, ellipsis \in 0 .. hextet_index
  PROVE  /\ AsNumber(Moved) = Spread(address, ellipsis, hextet_index - ellipsis)
         /\ AsNumber(Moved) \in [1 .. Hextets -> Nat]
<1>0. /\ Hextets \in Nat /\ ellipsis \in Nat /\ hextet_index \in Nat /\ ellipsis <= hextet_index
      /\ hextet_index < Hextets /\ DOMAIN address = 0 .. Hextets - 1
  BY IpAssumption
<1> PICK nb \in Nat : nb = Hextets - hextet_index
  BY <1>0
<1>1. Moved = [i \in 0 .. Hextets - 1 |-> IF i < ellipsis THEN address[i]
                                          ELSE IF i < ellipsis + nb THEN 0
                                          ELSE address[i - nb]]
  BY <1>0 DEF Moved
<1>2. ASSUME NEW i \in 1 .. Hextets
      PROVE  /\ Moved[i - 1] \in Nat
             /\ Moved[i - 1] = IF i <= ellipsis THEN address[i - 1]
                               ELSE IF i <= Hextets - (hextet_index - ellipsis) THEN 0
                               ELSE address[i - 1 - (Hextets - ellipsis - (hextet_index - ellipsis))]
  <2> PICK j \in 0 .. Hextets - 1 : j = i - 1
    BY <1>0
  <2>1. Moved[j] = IF j < ellipsis THEN address[j] ELSE IF j < ellipsis + nb THEN 0 ELSE address[j - nb]
    BY <1>1
  <2>2. /\ j < ellipsis <=> i <= ellipsis
        /\ j < ellipsis + nb <=> i <= Hextets - (hextet_index - ellipsis)
        /\ Hextets - ellipsis - (hextet_index - ellipsis) = nb
    BY <1>0
  <2>3. ~(j < ellipsis + nb) => j - nb \in 0 .. Hextets - 1
    BY <1>0
  <2>4. Moved[j] \in Nat
    BY <2>1, <2>3
  <2> QED BY <2>1, <2>2, <2>4
<1> QED BY <1>2 DEF AsNumber, Spread

\* What the function returns behind the loop.
LEMMA FinishMeaning == ASSUME Reading, Meaning, Finish PROVE Meaning'
<1>1. /\ at = "last"
      /\ IF \/ offset < Len(text)
            \/ hextet_index = Hextets /\ ellipsis # None
            \/ hextet_index < Hextets /\ ellipsis = None
         THEN Returns(Err)
         ELSE Returns(V6(AsNumber(IF hextet_index < Hextets THEN Moved ELSE address)))
  BY DEF Finish
<1>2. /\ text \in Seq(Nat) /\ Len(text) \in 2 .. Limit
      /\ address \in [0 .. Hextets - 1 -> Nat]
      /\ offset \in 0 .. Len(text) /\ hextet_index \in 0 .. Hextets
      /\ Ended(text, offset, hextet_index, ellipsis, address)
  BY <1>1 DEF Reading, IndexInBounds, Meaning
<1>3. Len(text) > 0 /\ ~(Len(text) > Limit)
  BY <1>2, LimitIsInt
<1>4. CASE \/ offset < Len(text)
           \/ hextet_index = Hextets /\ ellipsis # None
           \/ hextet_index < Hextets /\ ellipsis = None
  <2>1. ~Possible(text)
    BY <1>2, <1>3, <1>4, EndedErr
  <2> QED BY <1>1, <1>4, <2>1, RefusedMeaning
<1>5. CASE ~(\/ offset < Len(text)
             \/ hextet_index = Hextets /\ ellipsis # None
             \/ hextet_index < Hextets /\ ellipsis = None)
  <2>1. PICK A : A = AsNumber(IF hextet_index < Hextets THEN Moved ELSE address)
    OBVIOUS
  <2>2. /\ IF hextet_index < Hextets
           THEN Spread(address, ellipsis, hextet_index - ellipsis) \in Meant(text) \cup Lax(text)
           ELSE AsNumber(address) \in Meant(text) \cup Lax(text)
        /\ hextet_index < Hextets => ellipsis \in 0 .. hextet_index
        /\ \E i, j \in 1 .. Len(text) : i < j /\ text[i] = Colon /\ text[j] = Colon
    BY <1>2, <1>5, EndedV6
  <2>3. A \in Meant(text) \cup Lax(text) /\ A \in [1 .. Hextets -> Nat]
    <3>1. CASE hextet_index < Hextets
      <4>1. hextet_index \in 0 .. Hextets - 1
        BY <1>2, <3>1, IpAssumption
      <4>2. A = AsNumber(Moved)
        BY <2>1, <3>1
      <4>3. AsNumber(Moved) = Spread(address, ellipsis, hextet_index - ellipsis) /\ AsNumber(Moved) \in [1 .. Hextets -> Nat]
        BY <1>2, <2>2, <3>1, <4>1, MovedIs
      <4> QED BY <2>2, <3>1, <4>2, <4>3
    <3>2. CASE ~(hextet_index < Hextets)
      <4>1. A = AsNumber(address)
        BY <2>1, <3>2
      <4>2. ASSUME NEW i \in 1 .. Hextets PROVE address[i - 1] \in Nat
        <5>1. i - 1 \in 0 .. Hextets - 1
          BY IpAssumption
        <5> QED BY <1>2, <5>1
      <4>3. AsNumber(address) \in [1 .. Hextets -> Nat]
        BY <4>2 DEF AsNumber
      <4> QED BY <2>2, <3>2, <4>1, <4>3
    <3> QED BY <3>1, <3>2
  <2>4. Outcome(text, V6(A))
    BY <1>2, <1>3, <2>2, <2>3, OutcomeV6
  <2>5. Answer(V6(A))
    BY <2>3 DEF Answer
  <2>6. Returns(V6(A))
    BY <1>1, <1>5, <2>1
  <2> QED BY <2>4, <2>5, <2>6, ReturnsMeaning
<1> QED BY <1>4, <1>5

\* What is written is asked about.
LEMMA RelayMeaning == ASSUME Meaning, Relay PROVE Meaning'
<1>1. /\ at = "done" /\ result # Err /\ text' = Display(result) /\ at' = "asked" /\ address' = address
      /\ Answer(result) /\ address \in [0 .. Hextets - 1 -> Nat]
  BY DEF Meaning, Relay, locals
<1>2. Display(result) \in Seq(Nat)
  BY <1>1, DisplayV4, DisplayV6 DEF Answer
<1> QED BY <1>1, <1>2 DEF Meaning

\* Every step keeps what has been read in line with what the text means.
LEMMA MeaningStep == Reading /\ Meaning /\ [Next]_vars => Meaning'
<1> SUFFICES ASSUME Reading, Meaning, [Next]_vars PROVE Meaning'
  OBVIOUS
<1>1. CASE Short
  BY <1>1, ShortMeaning
<1>2. CASE Begin
  BY <1>2, BeginMeaning
<1>3. CASE EndOfText
  BY <1>3, EndOfTextMeaning
<1>4. CASE Ellipsis
  BY <1>4, EllipsisMeaning
<1>5. CASE NoHextet
  BY <1>5, NoHextetMeaning
<1>6. ASSUME NEW n \in 1 .. Digits, ReadHextet(n) PROVE Meaning'
  BY <1>6, ReadHextetMeaning
<1>7. ASSUME NEW n \in 1 .. Digits, ReadIpv4(n) PROVE Meaning'
  BY <1>7, ReadIpv4Meaning
<1>8. ASSUME NEW n \in 1 .. Digits, Unexpected(n) PROVE Meaning'
  BY <1>8, UnexpectedMeaning
<1>9. CASE Finish
  BY <1>9, FinishMeaning
<1>10. CASE Relay
  BY <1>10, RelayMeaning
<1>11. CASE UNCHANGED vars
  <2>1. /\ text' = text /\ at' = at /\ offset' = offset /\ ellipsis' = ellipsis /\ address' = address
        /\ hextet_index' = hextet_index /\ result' = result
    BY <1>11 DEF vars, locals
  <2> QED BY <2>1 DEF Meaning
<1> QED
  BY <1>1, <1>2, <1>3, <1>4, <1>5, <1>6, <1>7, <1>8, <1>9, <1>10, <1>11 DEF Next, Step

(* Whatever the text, from_ip_str (utils.rs:20-237) answers with an address *)
(* it stands for, and with Err if there is none or the text is too long;   *)
(* and what it takes for an address is not one with a port.                *)
THEOREM ParsedAsMeantAlways == Spec => []ParsedAsMeant
<1>1. Meaning => ParsedAsMeant
  BY DEF Meaning, ParsedAsMeant, Outcome
<1> QED
  BY ReadingInit, ReadingStep, MeaningInit, MeaningStep, <1>1, PTL DEF Spec
-----------------------------------------------------------------------------
(* What Numeral writes of a number tells it: its digits come to it.        *)

\* One digit, and one more.
LEMMA OneDigit ==
  ASSUME NEW base \in {10, 16}, NEW m \in Nat
  PROVE  Accumulated(base, <<m>>) = m
<1> PICK d : d = <<m>>
  OBVIOUS
<1>1. d \in Seq(Nat) /\ Len(d) = 1 /\ d[1] = m
  OBVIOUS
<1> PICK n : Accumulates(base, d, n) /\ Accumulated(base, d) = n[Len(d)]
  BY <1>1, AccumulatedIs
<1>2. n[0] = 0 /\ n[1] = n[1 - 1] * base + d[1]
  BY <1>1 DEF Accumulates
<1> QED BY <1>1, <1>2

\* Before one digit more, what was read counts base times as much.
LEMMA DigitMore ==
  ASSUME NEW base \in {10, 16}, NEW d \in Seq(Nat), NEW x \in Nat
  PROVE  Accumulated(base, Append(d, x)) = Accumulated(base, d) * base + x
<1>0. Append(d, x) \in Seq(Nat)
  BY AppendProperties
<1> PICK e \in Seq(Nat) : e = Append(d, x)
  BY <1>0
<1> PICK L \in Nat : L = Len(d)
  OBVIOUS
<1>1. Len(e) = L + 1 /\ e[L + 1] = x /\ \A k \in 1 .. L : e[k] = d[k]
  OBVIOUS
<1> PICK n : Accumulates(base, d, n) /\ Accumulated(base, d) = n[Len(d)]
  BY AccumulatedIs
<1> PICK g : Accumulates(base, e, g) /\ Accumulated(base, e) = g[Len(e)]
  BY AccumulatedIs
<1>2. n[0] = 0 /\ \A k \in 1 .. L : n[k] = n[k - 1] * base + d[k]
  BY DEF Accumulates
<1>3. g[0] = 0 /\ \A k \in 1 .. L + 1 : g[k] = g[k - 1] * base + e[k]
  BY <1>1 DEF Accumulates
<1> DEFINE N == {k \in Nat : k <= L => g[k] = n[k]}
<1>4. 0 \in N
  BY <1>2, <1>3
<1>5. ASSUME NEW k \in N PROVE k + 1 \in N
  <2>1. CASE k + 1 <= L
    <3> PICK j \in 1 .. L : j = k + 1
      BY <2>1
    <3>1. j - 1 = k /\ j \in 1 .. L + 1 /\ g[k] = n[k]
      BY <2>1
    <3>2. g[j] = g[j - 1] * base + e[j] /\ n[j] = n[j - 1] * base + d[j] /\ e[j] = d[j]
      BY <1>1, <1>2, <1>3, <3>1
    <3> QED BY <3>1, <3>2
  <2> QED BY <2>1
<1> HIDE DEF N
<1>6. L \in N
  BY <1>4, <1>5, SetInduction
<1>7. g[L] = n[L]
  BY <1>6 DEF N
<1>8. g[L + 1] = g[(L + 1) - 1] * base + e[L + 1] /\ (L + 1) - 1 = L
  BY <1>3
<1> QED BY <1>1, <1>7, <1>8

\* The digits of a number.
Tells(m, s, base) ==
  /\ s \in Seq(Nat) /\ Len(s) > 0 /\ \A i \in 1 .. Len(s) : s[i] < base
  /\ Accumulated(base, s) = m

\* The recursion of Numeral finds digits that come to the number.
LEMMA DigitedTells ==
  ASSUME NEW base \in {10, 16}, NEW n \in Nat, NEW d, Digited(n, base, d)
  PROVE  \A m \in 0 .. n : Tells(m, d[m], base)
<1>1. d = [m \in 0 .. n |-> IF m < base THEN <<m>> ELSE Append(d[m \div base], m % base)]
  BY DEF Digited
<1>2. \A m \in 0 .. n : d[m] = IF m < base THEN <<m>> ELSE Append(d[m \div base], m % base)
  BY <1>1
<1>3. ASSUME NEW m \in Nat, m < base PROVE Tells(m, <<m>>, base)
  <2>1. Accumulated(base, <<m>>) = m
    BY OneDigit
  <2> PICK s : s = <<m>>
    OBVIOUS
  <2>2. s \in Seq(Nat) /\ Len(s) = 1 /\ s[1] = m
    OBVIOUS
  <2> QED BY <1>3, <2>1, <2>2 DEF Tells
<1> DEFINE N == {k \in Nat : \A m \in 0 .. k : m <= n => Tells(m, d[m], base)}
<1>4. 0 \in N
  <2>1. ASSUME NEW m \in 0 .. 0, m <= n PROVE Tells(m, d[m], base)
    <3>1. m \in 0 .. n /\ m < base /\ m \in Nat
      OBVIOUS
    <3>2. d[m] = <<m>>
      BY <1>2, <3>1
    <3> QED BY <1>3, <3>1, <3>2
  <2> QED BY <2>1
<1>5. ASSUME NEW k \in N PROVE k + 1 \in N
  <2>1. ASSUME NEW m \in 0 .. k + 1, m <= n PROVE Tells(m, d[m], base)
    <3>0. m \in 0 .. n /\ m \in Nat /\ k \in Nat
      BY <2>1
    <3>1. CASE m < base
      <4>1. d[m] = <<m>>
        BY <1>2, <3>0, <3>1
      <4> QED BY <1>3, <3>0, <3>1, <4>1
    <3>2. CASE ~(m < base)
      <4>1. m \div base \in Nat /\ m \div base < m /\ m % base \in Nat
        BY <3>0, <3>2, Quotient
      <4>2. m \div base \in 0 .. k /\ m \div base <= n
        BY <3>0, <2>1, <4>1
      <4> PICK s : s = d[m \div base]
        OBVIOUS
      <4> PICK x \in Nat : x = m % base
        BY <4>1
      <4>3. Tells(m \div base, s, base)
        BY <4>2
      <4>4. s \in Seq(Nat) /\ Len(s) > 0 /\ (\A i \in 1 .. Len(s) : s[i] < base)
            /\ Accumulated(base, s) = m \div base
        BY <4>3 DEF Tells
      <4>5. d[m] = Append(s, x)
        BY <1>2, <3>0, <3>2
      <4>6. x < base /\ (m \div base) * base + x = m
        <5>1. CASE base = 10
          BY <3>0, <5>1
        <5>2. CASE base = 16
          BY <3>0, <5>2
        <5> QED BY <5>1, <5>2
      <4> PICK e : e = Append(s, x)
        OBVIOUS
      <4>7. Accumulated(base, e) = m
        BY <4>4, <4>6, DigitMore, SMTT(60)
      <4>8. e \in Seq(Nat) /\ Len(e) > 0 /\ \A i \in 1 .. Len(e) : e[i] < base
        BY <4>4, <4>6
      <4> QED BY <4>5, <4>7, <4>8 DEF Tells
    <3> QED BY <3>1, <3>2
  <2>2. k + 1 \in Nat
    OBVIOUS
  <2> QED BY <2>1, <2>2
<1> HIDE DEF N
<1>6. n \in N
  BY <1>4, <1>5, SetInduction
<1> QED BY <1>6 DEF N

\* A number that fits in so many hexadecimal digits has no more.
LEMMA DigitedFits ==
  ASSUME NEW n \in Nat, NEW d, Digited(n, 16, d), NEW D \in Nat \ {0}, n < Place[D]
  PROVE  Len(d[n]) <= D
<1>1. d = [m \in 0 .. n |-> IF m < 16 THEN <<m>> ELSE Append(d[m \div 16], m % 16)]
  BY DEF Digited
<1>2. \A m \in 0 .. n : d[m] = IF m < 16 THEN <<m>> ELSE Append(d[m \div 16], m % 16)
  BY <1>1
<1>3. \A m \in 0 .. n : d[m] \in Seq(Nat)
  BY DigitedTells DEF Tells
<1>4. ASSUME NEW m \in 0 .. n, m < 16 PROVE Len(d[m]) = 1
  <2>1. d[m] = <<m>>
    BY <1>2, <1>4
  <2>2. Len(<<m>>) = 1
    OBVIOUS
  <2> QED BY <2>1, <2>2
<1> DEFINE N == {k \in Nat : \A m \in 0 .. n : m < Place[k + 1] => Len(d[m]) <= k + 1}
<1>5. 0 \in N
  <2>1. Place[0 + 1] = 16
    BY PlaceIs
  <2>2. ASSUME NEW m \in 0 .. n, m < Place[0 + 1] PROVE Len(d[m]) <= 0 + 1
    <3>1. m < 16
      BY <2>1, <2>2
    <3>2. Len(d[m]) = 1
      BY <1>4, <3>1
    <3> QED BY <3>2
  <2> QED BY <2>2
<1>6. ASSUME NEW k \in N PROVE k + 1 \in N
  <2> PICK e \in Nat : e = k + 1
    OBVIOUS
  <2>1. Place[e + 1] = 16 * Place[e] /\ Place[e] \in Nat
    BY PlaceIs
  <2>2. ASSUME NEW m \in 0 .. n, m < Place[e + 1] PROVE Len(d[m]) <= e + 1
    <3>1. CASE m < 16
      <4>1. Len(d[m]) = 1
        BY <1>4, <3>1
      <4> QED BY <4>1
    <3>2. CASE ~(m < 16)
      <4>1. m \div 16 \in 0 .. n /\ m % 16 \in Nat
        BY <3>2
      <4>2. m \div 16 < Place[e]
        <5> PICK p \in Nat : p = Place[e]
          BY <2>1
        <5>1. m < 16 * p
          BY <2>1, <2>2
        <5> QED BY <5>1
      <4>3. Len(d[m \div 16]) <= e
        BY <4>1, <4>2
      <4>4. d[m] = Append(d[m \div 16], m % 16) /\ d[m \div 16] \in Seq(Nat)
        BY <1>2, <1>3, <3>2, <4>1
      <4> QED BY <4>1, <4>3, <4>4
    <3> QED BY <3>1, <3>2
  <2> HIDE DEF N
  <2>3. k \in Nat
    BY DEF N
  <2> QED BY <2>2, <2>3 DEF N
<1> HIDE DEF N
<1>7. \A k \in Nat : k \in N
  BY <1>5, <1>6, SetInduction
<1> PICK k \in Nat : D = k + 1
  OBVIOUS
<1>8. k \in N /\ n \in 0 .. n
  BY <1>7
<1> QED BY <1>8 DEF N

\* The byte of a digit.
CharOf(v) == IF v < 10 THEN v + 48 ELSE v + 87

\* The byte of a digit is read as that digit.
LEMMA CharIs ==
  /\ \A v \in 0 .. 15 : CharOf(v) \in Nat /\ is_hex_digit(CharOf(v)) /\ hex_to_digit(CharOf(v)) = v
  /\ \A v \in 0 .. 9 : CharOf(v) \in 48 .. 57 /\ CharOf(v) - 48 = v
<1>1. ASSUME NEW v \in 0 .. 9
      PROVE  CharOf(v) = v + 48 /\ v + 48 \in 48 .. 57
  BY DEF CharOf
<1>2. ASSUME NEW v \in 10 .. 15
      PROVE  CharOf(v) = v + 87 /\ v + 87 \in 97 .. 102 /\ v + 87 \notin 48 .. 57
  BY DEF CharOf
<1>3. \A c \in 48 .. 57 : is_hex_digit(c) /\ hex_to_digit(c) = c - 48
  BY DEF is_hex_digit, hex_to_digit
<1>4. \A c \in 97 .. 102 : is_hex_digit(c) /\ hex_to_digit(c) = c - 87
  BY DEF is_hex_digit, hex_to_digit
<1>5. ASSUME NEW v \in 0 .. 9
      PROVE  CharOf(v) \in Nat /\ is_hex_digit(CharOf(v)) /\ hex_to_digit(CharOf(v)) = v
  <2>1. (v + 48) - 48 = v
    OBVIOUS
  <2> QED BY <1>1, <1>3, <2>1
<1>6. ASSUME NEW v \in 10 .. 15
      PROVE  CharOf(v) \in Nat /\ is_hex_digit(CharOf(v)) /\ hex_to_digit(CharOf(v)) = v
  <2>1. (v + 87) - 87 = v
    OBVIOUS
  <2> QED BY <1>2, <1>4, <2>1
<1>7. \A v \in 0 .. 15 : v \in 0 .. 9 \/ v \in 10 .. 15
  OBVIOUS
<1> QED BY <1>1, <1>5, <1>6, <1>7

\* What is written of a number: the bytes of its digits.
LEMMA NumeralIs ==
  ASSUME NEW base \in {10, 16}, NEW n \in Nat
  PROVE  LET t == Numeral(n, base)
         IN  /\ t \in Seq(Nat) /\ Len(t) > 0
             /\ \E s : /\ Tells(n, s, base) /\ Len(s) = Len(t)
                       /\ \A i \in 1 .. Len(t) : t[i] = CharOf(s[i]) /\ s[i] \in 0 .. base - 1
             /\ base = 16 => \A D \in Nat \ {0} : n < Place[D] => Len(t) <= D
<1> DEFINE d == CHOOSE d : Digited(n, base, d)
<1>1. Digited(n, base, d)
  BY DigitedExists
<1>2. Numeral(n, base) = [i \in DOMAIN d[n] |-> CharOf(d[n][i])]
  BY DEF Numeral, Digited, CharOf
<1> HIDE DEF d
<1> PICK s : s = d[n]
  OBVIOUS
<1>3. Tells(n, s, base)
  <2>1. n \in 0 .. n
    OBVIOUS
  <2> QED BY <1>1, <2>1, DigitedTells
<1>4. s \in Seq(Nat) /\ Len(s) \in Nat /\ Len(s) > 0 /\ DOMAIN s = 1 .. Len(s) /\ \A i \in 1 .. Len(s) : s[i] < base
  BY <1>3 DEF Tells
<1> PICK t : t = Numeral(n, base)
  OBVIOUS
<1>5. t = [i \in 1 .. Len(s) |-> CharOf(s[i])]
  BY <1>2, <1>4
<1>6. ASSUME NEW i \in 1 .. Len(s) PROVE s[i] \in 0 .. base - 1 /\ CharOf(s[i]) \in Nat
  <2>1. s[i] \in Nat /\ s[i] < base
    BY <1>4
  <2>2. s[i] \in 0 .. base - 1 /\ s[i] \in 0 .. 15
    <3> PICK v \in Nat : v = s[i]
      BY <2>1
    <3>1. v < base
      BY <2>1
    <3>2. v \in 0 .. base - 1 /\ v \in 0 .. 15
      BY ONLY <3>1, v \in Nat, base \in {10, 16}
    <3> QED BY <3>2
  <2> QED BY <2>2, CharIs
<1>7. t \in Seq(Nat) /\ Len(t) = Len(s)
  <2>1. t \in [1 .. Len(s) -> Nat]
    BY <1>5, <1>6
  <2> QED BY <1>4, <2>1, SMTT(60)
<1>8. \A i \in 1 .. Len(t) : t[i] = CharOf(s[i]) /\ s[i] \in 0 .. base - 1
  BY <1>5, <1>6, <1>7
<1>9. ASSUME base = 16, NEW D \in Nat \ {0}, n < Place[D] PROVE Len(t) <= D
  <2>1. Digited(n, 16, d)
    BY <1>1, <1>9
  <2>2. Len(d[n]) <= D
    BY <1>9, <2>1, DigitedFits
  <2> QED BY <1>7, <2>2
<1> QED BY <1>3, <1>4, <1>7, <1>8, <1>9

\* A hextet that is written is one that is read, with the same value.
LEMMA NumeralHex ==
  ASSUME NEW n \in Nat, n < Place[Digits]
  PROVE  LET t == Numeral(n, 16)
         IN  t \in Seq(Nat) /\ Len(t) > 0 /\ Len(t) <= Digits /\ IsHextet(t) /\ ValueOf(t) = n
<1> PICK t : t = Numeral(n, 16)
  OBVIOUS
<1>1. 16 \in {10, 16} /\ Digits \in Nat \ {0}
  BY IpAssumption
<1> PICK s : /\ Tells(n, s, 16) /\ Len(s) = Len(t)
             /\ \A i \in 1 .. Len(t) : t[i] = CharOf(s[i]) /\ s[i] \in 0 .. 16 - 1
  BY <1>1, NumeralIs, ZenonT(60)
<1>2. t \in Seq(Nat) /\ Len(t) > 0 /\ Len(t) \in Nat /\ DOMAIN t = 1 .. Len(t) /\ Len(t) <= Digits
  <2>1. t \in Seq(Nat) /\ Len(t) > 0 /\ \A D \in Nat \ {0} : n < Place[D] => Len(t) <= D
    BY <1>1, NumeralIs
  <2>2. Len(t) <= Digits
    BY <1>1, <2>1
  <2> QED BY <2>1, <2>2
<1>3. ASSUME NEW i \in 1 .. Len(t) PROVE is_hex_digit(t[i]) /\ hex_to_digit(t[i]) = s[i]
  <2>1. s[i] \in 0 .. 15 /\ t[i] = CharOf(s[i])
    OBVIOUS
  <2> QED BY <2>1, CharIs
<1>4. IsHextet(t)
  BY <1>1, <1>2, <1>3 DEF IsHextet
<1>5. Worth(t) = s
  <2>1. s \in Seq(Nat)
    BY DEF Tells
  <2>2. s = [i \in 1 .. Len(t) |-> s[i]]
    BY <2>1
  <2> QED BY <1>3, <2>2 DEF Worth
<1>6. ValueOf(t) = Accumulated(16, s)
  BY <1>2, <1>3, <1>5, ValueIs
<1>7. Accumulated(16, s) = n
  BY DEF Tells
<1> QED BY <1>2, <1>4, <1>6, <1>7

\* So is an octet.
LEMMA NumeralDec ==
  ASSUME NEW n \in Nat, NEW max \in Nat, n <= max
  PROVE  LET t == Numeral(n, 10)
         IN  t \in Seq(Nat) /\ Len(t) > 0 /\ (\A i \in 1 .. Len(t) : t[i] \in 48 .. 57) /\ parse(t, max) = n
<1> PICK t : t = Numeral(n, 10)
  OBVIOUS
<1>1. 10 \in {10, 16}
  OBVIOUS
<1> PICK s : /\ Tells(n, s, 10) /\ Len(s) = Len(t)
             /\ \A i \in 1 .. Len(t) : t[i] = CharOf(s[i]) /\ s[i] \in 0 .. 10 - 1
  BY <1>1, NumeralIs, ZenonT(60)
<1>2. t \in Seq(Nat) /\ Len(t) > 0 /\ Len(t) \in Nat /\ DOMAIN t = 1 .. Len(t)
  BY <1>1, NumeralIs
<1>3. ASSUME NEW i \in 1 .. Len(t) PROVE t[i] \in 48 .. 57 /\ t[i] - 48 = s[i]
  <2>1. s[i] \in 0 .. 9 /\ t[i] = CharOf(s[i])
    OBVIOUS
  <2> QED BY <2>1, CharIs, ZenonT(60)
<1> PICK digits : digits = IF Len(t) > 1 /\ t[1] = Plus THEN Tail(t) ELSE t
  OBVIOUS
<1>4. digits = t
  <2>1. t[1] \in 48 .. 57
    BY <1>2, <1>3, SMTT(60)
  <2> QED BY <2>1 DEF Plus
<1>5. [i \in DOMAIN digits |-> digits[i] - 48] = s
  <2>1. s \in Seq(Nat)
    BY DEF Tells
  <2>2. s = [i \in 1 .. Len(t) |-> s[i]]
    BY <2>1
  <2>3. [i \in 1 .. Len(t) |-> t[i] - 48] = [i \in 1 .. Len(t) |-> s[i]]
    BY <1>3
  <2> QED BY <1>2, <1>4, <2>2, <2>3
<1>6. Accumulated(10, s) = n
  BY DEF Tells
<1>7. digits # <<>> /\ \A i \in DOMAIN digits : digits[i] \in 48 .. 57
  BY <1>2, <1>3, <1>4, SMTT(60)
<1>8. parse(t, max) = n
  <2>1. parse(t, max) = IF digits # <<>> /\ (\A i \in DOMAIN digits : digits[i] \in 48 .. 57)
                           /\ Accumulated(10, [i \in DOMAIN digits |-> digits[i] - 48]) <= max
                        THEN Accumulated(10, [i \in DOMAIN digits |-> digits[i] - 48]) ELSE None
    BY DEF parse
  <2> QED BY <1>5, <1>6, <1>7, <2>1
<1> QED BY <1>2, <1>3, <1>8

\* What is read as a hextet is no more than its digits can tell.
LEMMA PlaceGrows == ASSUME NEW i \in Nat, NEW j \in Nat, i <= j PROVE Place[i] <= Place[j]
<1> DEFINE N == {k \in Nat : Place[i] <= Place[i + k]}
<1>1. 0 \in N
  <2>1. i + 0 = i /\ Place[i] \in Nat
    BY PlaceIs
  <2> QED BY <2>1
<1>2. ASSUME NEW k \in N PROVE k + 1 \in N
  <2> PICK e \in Nat : e = i + k
    OBVIOUS
  <2>1. Place[i] \in Nat /\ Place[e] \in Nat /\ Place[e + 1] = 16 * Place[e] /\ Place[i] <= Place[e]
    BY PlaceIs
  <2>2. Place[i] <= Place[e + 1] /\ i + (k + 1) = e + 1
    BY <2>1
  <2> QED BY <2>2
<1> HIDE DEF N
<1>3. \A k \in Nat : k \in N
  BY <1>1, <1>2, SetInduction
<1> PICK k \in Nat : j = i + k
  <2>1. j - i \in Nat /\ j = i + (j - i)
    OBVIOUS
  <2> QED BY <2>1
<1> QED BY <1>3 DEF N

\* What a hextet comes to is less than the place behind it.
LEMMA HextetBound ==
  ASSUME NEW t \in Seq(Nat), IsHextet(t)
  PROVE  ValueOf(t) \in 0 .. Place[Digits] - 1
<1> PICK L \in Nat : L = Len(t)
  OBVIOUS
<1>1. L >= 1 /\ L <= Digits /\ Digits \in Nat /\ \A i \in DOMAIN t : is_hex_digit(t[i])
  BY IpAssumption DEF IsHextet
<1> PICK w : w = Worth(t)
  OBVIOUS
<1>2. w \in Seq(Nat) /\ Len(w) = L /\ ValueOf(t) = Accumulated(16, w) /\ ValueOf(t) \in Nat
  BY <1>1, WorthType, ValueIs
<1>3. \A k \in 1 .. L : w[k] \in 0 .. 15
  <2> SUFFICES ASSUME NEW k \in 1 .. L PROVE w[k] \in 0 .. 15
    OBVIOUS
  <2>1. is_hex_digit(t[k]) /\ w[k] = hex_to_digit(t[k])
    BY <1>1 DEF Worth
  <2> QED BY <2>1, DigitType
<1> PICK n : Accumulates(16, w, n) /\ Accumulated(16, w) = n[L]
  <2>1. 16 \in {10, 16}
    OBVIOUS
  <2> QED BY <1>2, <2>1, AccumulatedIs
<1>4. /\ n \in [0 .. L -> Nat] /\ n[0] = 0 /\ \A k \in 1 .. L : n[k] = n[k - 1] * 16 + w[k]
  BY <1>2 DEF Accumulates
<1> DEFINE N == {k \in Nat : k <= L => n[k] < Place[k]}
<1>5. 0 \in N
  <2>1. n[0] = 0 /\ Place[0] = 1
    BY <1>4, PlaceIs
  <2> QED BY <2>1
<1>6. ASSUME NEW k \in N PROVE k + 1 \in N
  <2> SUFFICES ASSUME k + 1 <= L PROVE n[k + 1] < Place[k + 1]
    OBVIOUS
  <2> PICK j \in 1 .. L : j = k + 1
    OBVIOUS
  <2>1. n[j] = n[j - 1] * 16 + w[j] /\ j - 1 = k /\ w[j] \in 0 .. 15
    BY <1>3, <1>4
  <2>2. n[k] \in Nat /\ n[k] < Place[k]
    BY <1>4, SMTT(60)
  <2>3. Place[k + 1] = 16 * Place[k] /\ Place[k] \in Nat
    BY PlaceIs
  <2>4. n[k + 1] = n[k] * 16 + w[j]
    BY <2>1
  <2> PICK x \in Nat : x = n[k]
    BY <2>2
  <2> PICK p \in Nat : p = Place[k]
    BY <2>3
  <2> PICK y \in 0 .. 15 : y = w[j]
    BY <2>1
  <2>5. x < p
    BY <2>2
  <2>6. x * 16 + y < 16 * p
    BY ONLY <2>5, x \in Nat, p \in Nat, y \in 0 .. 15
  <2> QED BY <2>3, <2>4, <2>6
<1> HIDE DEF N
<1>7. L \in N
  BY <1>5, <1>6, SetInduction
<1>8. n[L] < Place[L]
  BY <1>7 DEF N
<1>9. Place[L] <= Place[Digits] /\ Place[L] \in Nat /\ Place[Digits] \in Nat
  BY <1>1, PlaceGrows, PlaceIs
<1> QED BY <1>2, <1>8, <1>9
-----------------------------------------------------------------------------
(* What was joined is cut where it was joined.                             *)

\* Parts with the byte that is put in front of each.
Marked(g, byte) == [i \in DOMAIN g |-> <<byte>> \o g[i]]

\* Marking leaves a sequence of texts, as many.
LEMMA MarkedType ==
  ASSUME NEW g \in Seq(Seq(Nat)), NEW byte \in Nat
  PROVE  Marked(g, byte) \in Seq(Seq(Nat)) /\ Len(Marked(g, byte)) = Len(g)
<1>1. Len(g) \in Nat /\ DOMAIN g = 1 .. Len(g) /\ \A i \in 1 .. Len(g) : g[i] \in Seq(Nat)
  OBVIOUS
<1>2. ASSUME NEW i \in 1 .. Len(g) PROVE <<byte>> \o g[i] \in Seq(Nat)
  <2>1. <<byte>> \in Seq(Nat) /\ g[i] \in Seq(Nat)
    BY <1>1
  <2> QED BY <2>1
<1> PICK L \in Nat : L = Len(g)
  BY <1>1
<1> PICK f : f = Marked(g, byte)
  OBVIOUS
<1>3. f \in [1 .. L -> Seq(Nat)]
  BY <1>1, <1>2 DEF Marked
<1>4. f \in Seq(Seq(Nat)) /\ Len(f) = L
  BY ONLY <1>3, L \in Nat
<1> QED BY <1>4

\* One text more, with its byte in front.
LEMMA MarkedMore ==
  ASSUME NEW g \in Seq(Seq(Nat)), NEW p \in Seq(Nat), NEW byte \in Nat
  PROVE  /\ FlattenSeq(Marked(Append(g, p), byte)) = FlattenSeq(Marked(g, byte)) \o (<<byte>> \o p)
         /\ FlattenSeq(Marked(g, byte)) \in Seq(Nat)
<1> PICK e : e = Append(g, p)
  OBVIOUS
<1> PICK L \in Nat : L = Len(g)
  OBVIOUS
<1>1. e \in Seq(Seq(Nat)) /\ Len(e) = L + 1 /\ e[L + 1] = p /\ \A i \in 1 .. L : e[i] = g[i]
  <2>1. Append(g, p) \in Seq(Seq(Nat))
    BY AppendProperties
  <2> QED BY <2>1, AppendProperties
<1>2. Marked(g, byte) \in Seq(Seq(Nat)) /\ Len(Marked(g, byte)) = L /\ Marked(e, byte) \in Seq(Seq(Nat))
      /\ Len(Marked(e, byte)) = L + 1
  BY <1>1, MarkedType
<1>3. <<byte>> \o p \in Seq(Nat)
  <2>1. <<byte>> \in Seq(Nat)
    OBVIOUS
  <2> QED BY <2>1
<1> PICK q \in Seq(Nat) : q = <<byte>> \o p
  BY <1>3
<1> PICK m \in Seq(Seq(Nat)) : m = Marked(g, byte)
  BY <1>2
<1>4. Marked(e, byte) = Append(m, q)
  <2> PICK f \in Seq(Seq(Nat)) : f = Marked(e, byte)
    BY <1>2
  <2>1. Append(m, q) \in Seq(Seq(Nat)) /\ Len(Append(m, q)) = L + 1
    BY <1>2, AppendProperties
  <2>2. DOMAIN e = 1 .. L + 1 /\ DOMAIN g = 1 .. L /\ L + 1 \in 1 .. L + 1
    BY <1>1
  <2>3. f[L + 1] = q /\ Append(m, q)[L + 1] = q
    <3>1. f[L + 1] = <<byte>> \o e[L + 1]
      BY <2>2 DEF Marked
    <3>2. Append(m, q)[Len(m) + 1] = q
      BY AppendProperties
    <3> QED BY <1>1, <1>2, <3>1, <3>2
  <2>4. ASSUME NEW i \in 1 .. L PROVE f[i] = m[i] /\ Append(m, q)[i] = m[i]
    <3>1. i \in DOMAIN e /\ i \in DOMAIN g /\ e[i] = g[i] /\ i \in 1 .. Len(m)
      BY <1>1, <1>2, <2>2
    <3>2. f[i] = <<byte>> \o e[i] /\ m[i] = <<byte>> \o g[i]
      BY <3>1 DEF Marked
    <3>3. Append(m, q)[i] = m[i]
      BY <3>1, AppendProperties
    <3> QED BY <3>1, <3>2, <3>3
  <2>5. \A i \in 1 .. L + 1 : i = L + 1 \/ i \in 1 .. L
    BY ONLY L \in Nat
  <2>6. \A i \in 1 .. L + 1 : f[i] = Append(m, q)[i]
    BY <2>3, <2>4, <2>5
  <2>7. Len(f) = L + 1
    BY <1>2
  <2> QED BY <2>1, <2>6, <2>7, SeqEqual, ZenonT(60)
<1>5. FlattenSeq(Append(m, q)) = FlattenSeq(m) \o q
  BY FlattenAppend
<1>6. FlattenSeq(m) \in Seq(Nat)
  BY FlattenType
<1> QED BY <1>4, <1>5, <1>6

\* One part is written as it is; another one goes behind a byte.
LEMMA JoinedOne ==
  ASSUME NEW p \in Seq(Nat), NEW byte \in Nat
  PROVE  Joined(<<p>>, byte) = p
<1>1. <<>> \in Seq(Seq(Nat)) /\ Append(<<>>, p) = <<p>>
  BY SingleSeq
<1>2. FlattenSeq(Marked(<<>>, byte)) = <<>>
  <2> PICK m : m = Marked(<<>>, byte)
    OBVIOUS
  <2>0. m \in Seq(Seq(Nat)) /\ Len(m) = Len(<<>>)
    BY <1>1, MarkedType
  <2>1. m = <<>>
    BY <2>0, SMTT(60)
  <2> QED BY <2>1, FlattenEmpty
<1>3. FlattenSeq(Marked(<<p>>, byte)) = <<>> \o (<<byte>> \o p)
  <2>1. FlattenSeq(Marked(Append(<<>>, p), byte)) = FlattenSeq(Marked(<<>>, byte)) \o (<<byte>> \o p)
    BY <1>1, MarkedMore
  <2> QED BY <1>1, <1>2, <2>1
<1>4. Tail(<<>> \o (<<byte>> \o p)) = p
  <2>1. <<byte>> \in Seq(Nat) /\ <<>> \in Seq(Nat)
    OBVIOUS
  <2> QED BY <2>1
<1> QED BY <1>3, <1>4 DEF Joined, Marked

\* Without its first byte, a text and another.
LEMMA TailConcat ==
  ASSUME NEW b \in Seq(Nat), Len(b) > 0, NEW y \in Seq(Nat)
  PROVE  Tail(b \o y) = Tail(b) \o y /\ Tail(b) \in Seq(Nat)
<1> PICK L \in Nat : L = Len(b)
  OBVIOUS
<1> PICK m \in Nat : m = Len(y)
  OBVIOUS
<1> PICK c : c = Tail(b)
  OBVIOUS
<1>1. c \in Seq(Nat) /\ Len(c) = L - 1 /\ \A i \in 1 .. L - 1 : c[i] = b[i + 1]
  OBVIOUS
<1> PICK u : u = b \o y
  OBVIOUS
<1>2. u \in Seq(Nat) /\ Len(u) = L + m /\ \A i \in 1 .. L + m : u[i] = IF i <= L THEN b[i] ELSE y[i - L]
  OBVIOUS
<1> PICK v : v = c \o y
  OBVIOUS
<1>3. v \in Seq(Nat) /\ Len(v) = L - 1 + m
      /\ \A i \in 1 .. L - 1 + m : v[i] = IF i <= L - 1 THEN c[i] ELSE y[i - (L - 1)]
  BY <1>1
<1> PICK w : w = Tail(u)
  OBVIOUS
<1>4. w \in Seq(Nat) /\ Len(w) = L + m - 1 /\ \A i \in 1 .. L + m - 1 : w[i] = u[i + 1]
  BY <1>2
<1>5. ASSUME NEW i \in 1 .. Len(v) PROVE v[i] = w[i]
  <2>1. i \in 1 .. L - 1 + m /\ i \in 1 .. L + m - 1 /\ i + 1 \in 1 .. L + m
    BY <1>3
  <2>2. w[i] = IF i + 1 <= L THEN b[i + 1] ELSE y[i + 1 - L]
    BY <1>2, <1>4, <2>1
  <2>3. v[i] = IF i <= L - 1 THEN c[i] ELSE y[i - (L - 1)]
    BY <1>3, <2>1
  <2>4. CASE i <= L - 1
    BY <1>1, <2>1, <2>2, <2>3, <2>4
  <2>5. CASE ~(i <= L - 1)
    <3>1. ~(i + 1 <= L) /\ i + 1 - L = i - (L - 1)
      BY <2>5
    <3> QED BY <2>2, <2>3, <2>5, <3>1
  <2> QED BY <2>4, <2>5
<1>6. Len(v) = Len(w)
  BY <1>3, <1>4
<1> QED BY <1>1, <1>3, <1>4, <1>5, <1>6, SeqEqual

\* One part more is written behind one byte more.
LEMMA JoinedMore ==
  ASSUME NEW g \in Seq(Seq(Nat)), g # <<>>, NEW p \in Seq(Nat), NEW byte \in Nat
  PROVE  /\ Joined(Append(g, p), byte) = Joined(g, byte) \o (<<byte>> \o p)
         /\ Joined(g, byte) \in Seq(Nat)
<1>1. Len(g) > 0 /\ Len(g) \in Nat
  OBVIOUS
<1> PICK f : f = Front(g)
  OBVIOUS
<1> PICK r : r = g[Len(g)]
  OBVIOUS
<1>2. f \in Seq(Seq(Nat)) /\ r \in Seq(Nat) /\ g = Append(f, r)
  BY <1>1 DEF Front
<1> PICK a : a = FlattenSeq(Marked(f, byte))
  OBVIOUS
<1> PICK b : b = FlattenSeq(Marked(g, byte))
  OBVIOUS
<1>3. a \in Seq(Nat) /\ b = a \o (<<byte>> \o r) /\ b \in Seq(Nat)
  BY <1>2, MarkedMore, ZenonT(60)
<1>4. <<byte>> \in Seq(Nat) /\ Len(<<byte>>) = 1
  OBVIOUS
<1>9. \A c, e \in Seq(Nat) : c \o e \in Seq(Nat)
  OBVIOUS
<1> PICK x \in Seq(Nat) : x = <<byte>> \o r
  BY <1>2, <1>4, <1>9, Zenon
<1> PICK y \in Seq(Nat) : y = <<byte>> \o p
  BY <1>4, <1>9, Zenon
<1>5. Len(x) > 0
  BY <1>2, <1>4
<1>6. Len(b) > 0
  BY <1>3, <1>5
<1>7. Tail(b \o y) = Tail(b) \o y /\ Tail(b) \in Seq(Nat)
  <2> QED BY <1>3, <1>6, TailConcat
<1>8. FlattenSeq(Marked(Append(g, p), byte)) = b \o y
  BY MarkedMore
<1> QED BY <1>7, <1>8 DEF Joined, Marked

\* Two texts with a byte between them: the parts of the first, and the second.
Glued(t, byte, p, u) ==
  /\ u \in Seq(Nat) /\ Len(u) = Len(t) + 1 + Len(p) /\ u[Len(t) + 1] = byte
  /\ \A i \in 1 .. Len(t) : u[i] = t[i]
  /\ \A i \in 1 .. Len(p) : u[Len(t) + 1 + i] = p[i]
  /\ \A a \in 1 .. Len(t) + 1 : \A b \in 0 .. Len(t) : SubSeq(u, a, b) = SubSeq(t, a, b)
  /\ SubSeq(u, Len(t) + 2, Len(u)) = p

\* What is found in a text, a byte and a text one behind the other.
LEMMA Between ==
  ASSUME NEW t \in Seq(Nat), NEW byte \in Nat, NEW p \in Seq(Nat)
  PROVE  Glued(t, byte, p, t \o (<<byte>> \o p))
<1> PICK L \in Nat : L = Len(t)
  OBVIOUS
<1> PICK m \in Nat : m = Len(p)
  OBVIOUS
<1> PICK q : q = <<byte>> \o p
  OBVIOUS
<1>1. q \in Seq(Nat) /\ Len(q) = m + 1 /\ q[1] = byte /\ \A i \in 1 .. m : q[i + 1] = p[i]
  <2>1. <<byte>> \in Seq(Nat) /\ Len(<<byte>>) = 1 /\ <<byte>>[1] = byte
    OBVIOUS
  <2> PICK o : o = <<byte>>
    OBVIOUS
  <2>2. o \in Seq(Nat) /\ Len(o) = 1 /\ o[1] = byte
    BY <2>1
  <2>3. o \o p \in Seq(Nat) /\ Len(o \o p) = m + 1
        /\ \A i \in 1 .. m + 1 : (o \o p)[i] = IF i <= 1 THEN o[i] ELSE p[i - 1]
    BY <2>2
  <2>4. ASSUME NEW i \in 1 .. m PROVE q[i + 1] = p[i]
    <3>1. i + 1 \in 1 .. m + 1 /\ ~(i + 1 <= 1) /\ (i + 1) - 1 = i
      OBVIOUS
    <3> QED BY <2>3, <3>1
  <2>5. q[1] = byte
    <3>1. 1 \in 1 .. m + 1
      OBVIOUS
    <3> QED BY <2>2, <2>3, <3>1
  <2> QED BY <2>3, <2>4, <2>5
<1> PICK u : u = t \o q
  OBVIOUS
<1>2. u \in Seq(Nat) /\ Len(u) = L + 1 + m
      /\ \A i \in 1 .. L + 1 + m : u[i] = IF i <= L THEN t[i] ELSE q[i - L]
  BY <1>1
<1>3. \A i \in 1 .. L : u[i] = t[i]
  BY <1>2
<1>4. u[L + 1] = byte
  <2>1. L + 1 \in 1 .. L + 1 + m /\ ~(L + 1 <= L) /\ L + 1 - L = 1
    OBVIOUS
  <2> QED BY <1>1, <1>2, <2>1
<1>5. ASSUME NEW i \in 1 .. m PROVE u[L + 1 + i] = p[i]
  <2>1. L + 1 + i \in 1 .. L + 1 + m /\ ~(L + 1 + i <= L) /\ L + 1 + i - L = i + 1
    OBVIOUS
  <2> QED BY <1>1, <1>2, <2>1
<1>6. ASSUME NEW a \in 1 .. L + 1, NEW b \in 0 .. L PROVE SubSeq(u, a, b) = SubSeq(t, a, b)
  <2>1. \A i \in a .. b : t[i] \in Nat /\ u[i] \in Nat /\ u[i] = t[i]
    <3>1. \A i \in a .. b : i \in 1 .. L
      OBVIOUS
    <3> QED BY <1>3, <3>1
  <2> PICK v : v = SubSeq(u, a, b)
    OBVIOUS
  <2> PICK w : w = SubSeq(t, a, b)
    OBVIOUS
  <2>2. v \in Seq(Nat) /\ Len(v) = (IF a <= b THEN b - a + 1 ELSE 0) /\ \A i \in 1 .. b - a + 1 : v[i] = u[a + i - 1]
    BY <2>1, SubSeqProperties, SMTT(60)
  <2>3. w \in Seq(Nat) /\ Len(w) = (IF a <= b THEN b - a + 1 ELSE 0) /\ \A i \in 1 .. b - a + 1 : w[i] = t[a + i - 1]
    BY <2>1, SubSeqProperties
  <2>4. ASSUME NEW i \in 1 .. Len(v) PROVE v[i] = w[i]
    <3>1. i \in 1 .. b - a + 1 /\ a + i - 1 \in a .. b
      BY <2>2
    <3> QED BY <2>1, <2>2, <2>3, <3>1
  <2>5. Len(v) = Len(w)
    BY <2>2, <2>3
  <2> QED BY <2>2, <2>3, <2>4, <2>5, SeqEqual
<1>7. SubSeq(u, L + 2, Len(u)) = p
  <2> PICK a \in Nat : a = L + 2
    OBVIOUS
  <2> PICK b \in Nat : b = L + 1 + m
    OBVIOUS
  <2> PICK v : v = SubSeq(u, a, b)
    OBVIOUS
  <2>1. \A i \in a .. b : u[i] \in Nat
    <3>1. \A i \in a .. b : i \in 1 .. L + 1 + m
      OBVIOUS
    <3> QED BY <1>2, <3>1, SMTT(60)
  <2>2. v \in Seq(Nat) /\ Len(v) = (IF a <= b THEN b - a + 1 ELSE 0) /\ \A i \in 1 .. b - a + 1 : v[i] = u[a + i - 1]
    <3>1. a \in Int /\ b \in Int
      OBVIOUS
    <3> QED BY ONLY <2>1, <3>1, v = SubSeq(u, a, b), SubSeqProperties
  <2>3. Len(v) = m
    BY <2>2
  <2>4. ASSUME NEW i \in 1 .. Len(v) PROVE v[i] = p[i]
    <3>1. i \in 1 .. b - a + 1 /\ a + i - 1 = L + 1 + i /\ i \in 1 .. m
      BY <2>3
    <3> QED BY <1>5, <2>2, <3>1, SMTT(60)
  <2>5. Len(v) = Len(p)
    BY <2>3
  <2>6. v = p
    BY <2>2, <2>4, <2>5, SeqEqual, ZenonT(60)
  <2> QED BY <1>2, <2>6
<1> QED BY <1>2, <1>3, <1>4, <1>5, <1>6, <1>7 DEF Glued

\* A text that is cut into parts.
CutInto(t, parts, byte) ==
  /\ t \in Seq(Nat)
  /\ \E c : Cut(t, 0, Len(t) + 1, byte, Len(parts), c) /\ Pieces(t, Len(parts), c) = parts

Free(p, byte) == \A j \in 1 .. Len(p) : p[j] # byte

\* One part is cut nowhere.
LEMMA CutIntoOne ==
  ASSUME NEW p \in Seq(Nat), NEW byte \in Nat, Free(p, byte)
  PROVE  CutInto(p, <<p>>, byte)
<1> PICK L \in Nat : L = Len(p)
  OBVIOUS
<1> PICK c : c = [k \in 0 .. 1 |-> IF k = 0 THEN 0 ELSE L + 1]
  OBVIOUS
<1>1. c \in [0 .. 1 -> 0 .. L + 1] /\ c[0] = 0 /\ c[1] = L + 1
  OBVIOUS
<1>2. Cut(p, 0, L + 1, byte, 1, c)
  <2>1. \A k \in 1 .. 1 : k = 1
    OBVIOUS
  <2>2. \A k \in 1 .. 1 : c[k - 1] < c[k]
    BY <1>1, <2>1
  <2>3. \A k \in 1 .. 1 - 1 : p[c[k]] = byte
    OBVIOUS
  <2>4. \A k \in 1 .. 1 : \A j \in c[k - 1] + 1 .. c[k] - 1 : p[j] # byte
    BY <1>1, <2>1 DEF Free
  <2> QED BY <1>1, <2>2, <2>3, <2>4 DEF Cut
<1>3. Pieces(p, 1, c) = <<p>>
  <2>1. SubSeq(p, c[1 - 1] + 1, c[1] - 1) = p
    <3>1. c[1 - 1] + 1 = 1 /\ c[1] - 1 = L
      BY <1>1
    <3>2. SubSeq(p, 1, L) = p
      BY WholeIs
    <3> QED BY <3>1, <3>2
  <2> PICK f : f = Pieces(p, 1, c)
    OBVIOUS
  <2>2. f = [k \in 1 .. 1 |-> SubSeq(p, c[k - 1] + 1, c[k] - 1)]
    BY DEF Pieces
  <2>3. f = [k \in 1 .. 1 |-> p]
    BY <2>1, <2>2
  <2>4. <<p>> = [k \in 1 .. 1 |-> p]
    OBVIOUS
  <2> QED BY <2>3, <2>4
<1>4. Len(<<p>>) = 1
  OBVIOUS
<1> QED BY <1>2, <1>3, <1>4 DEF CutInto

\* One part more is cut from the others at the byte in front of it.
LEMMA CutIntoMore ==
  ASSUME NEW byte \in Nat, NEW g \in Seq(Seq(Nat)), g # <<>>, NEW t, CutInto(t, g, byte),
         NEW p \in Seq(Nat), Free(p, byte)
  PROVE  CutInto(t \o (<<byte>> \o p), Append(g, p), byte)
<1> PICK n \in Nat \ {0} : n = Len(g)
  OBVIOUS
<1>0. t \in Seq(Nat)
  BY DEF CutInto
<1> PICK L \in Nat : L = Len(t)
  BY <1>0
<1> PICK m \in Nat : m = Len(p)
  OBVIOUS
<1> PICK c : Cut(t, 0, L + 1, byte, n, c) /\ Pieces(t, n, c) = g
  BY DEF CutInto
<1> PICK u : u = t \o (<<byte>> \o p)
  OBVIOUS
<1>1. /\ u \in Seq(Nat) /\ Len(u) = L + 1 + m /\ u[L + 1] = byte
      /\ \A i \in 1 .. L : u[i] = t[i]
      /\ \A i \in 1 .. m : u[L + 1 + i] = p[i]
      /\ \A a \in 1 .. L + 1 : \A b \in 0 .. L : SubSeq(u, a, b) = SubSeq(t, a, b)
      /\ SubSeq(u, L + 2, Len(u)) = p
  <2>1. Glued(t, byte, p, u)
    BY <1>0, Between
  <2> QED BY <2>1 DEF Glued
<1>2. /\ c \in [0 .. n -> 0 .. L + 1] /\ c[0] = 0 /\ c[n] = L + 1
      /\ \A k \in 1 .. n : c[k - 1] < c[k]
      /\ \A k \in 1 .. n - 1 : t[c[k]] = byte
      /\ \A k \in 1 .. n : \A j \in c[k - 1] + 1 .. c[k] - 1 : t[j] # byte
  BY DEF Cut
<1>3. \A i, j \in 0 .. n : i < j => c[i] < c[j]
  <2>1. c \in [0 .. n -> Int]
    BY <1>2
  <2> QED BY <1>2, <2>1, StepsUp
<1> PICK M \in Nat : M = L + 1 + m
  OBVIOUS
<1> PICK e : e = [k \in 0 .. n + 1 |-> IF k = n + 1 THEN M + 1 ELSE c[k]]
  OBVIOUS
<1>4. /\ e \in [0 .. n + 1 -> 0 .. M + 1] /\ e[0] = 0 /\ e[n + 1] = M + 1
      /\ \A k \in 0 .. n : e[k] = c[k]
  <2>1. ASSUME NEW k \in 0 .. n + 1 PROVE (IF k = n + 1 THEN M + 1 ELSE c[k]) \in 0 .. M + 1
    <3>1. CASE k = n + 1
      BY <3>1
    <3>2. CASE k # n + 1
      <4>1. k \in 0 .. n
        BY <3>2
      <4>2. c[k] \in 0 .. L + 1
        BY <1>2, <4>1
      <4> QED BY <3>2, <4>2
    <3> QED BY <3>1, <3>2
  <2>2. e \in [0 .. n + 1 -> 0 .. M + 1]
    BY <2>1
  <2>3. \A k \in 0 .. n : k \in 0 .. n + 1 /\ k # n + 1
    OBVIOUS
  <2>4. n + 1 \in 0 .. n + 1 /\ 0 \in 0 .. n
    OBVIOUS
  <2> QED BY <1>2, <2>2, <2>3, <2>4
<1>5. ASSUME NEW k \in 1 .. n + 1
      PROVE  \/ k \in 1 .. n /\ e[k] = c[k] /\ e[k - 1] = c[k - 1]
             \/ k = n + 1 /\ e[k] = M + 1 /\ e[k - 1] = L + 1
  <2>1. CASE k = n + 1
    <3>1. k - 1 = n /\ n \in 0 .. n
      BY <2>1
    <3> QED BY <1>2, <1>4, <2>1, <3>1
  <2>2. CASE k # n + 1
    <3>1. k \in 1 .. n /\ k \in 0 .. n /\ k - 1 \in 0 .. n
      BY <2>2
    <3> QED BY <1>4, <3>1
  <2> QED BY <2>1, <2>2
<1>6. ASSUME NEW k \in 1 .. n
      PROVE  c[k] \in 1 .. L + 1 /\ c[k - 1] \in 0 .. L /\ (k # n => c[k] \in 1 .. L)
  <2>1. k \in 0 .. n /\ k - 1 \in 0 .. n /\ n \in 0 .. n /\ 0 \in 0 .. n
    OBVIOUS
  <2>2. c[k] \in 0 .. L + 1 /\ c[k - 1] \in 0 .. L + 1 /\ c[k - 1] < c[k]
    BY <1>2, <2>1
  <2>3. ASSUME k # n PROVE c[k] < c[n]
    <3>1. k < n
      BY <2>3
    <3> QED BY <1>3, <2>1, <3>1
  <2> QED BY <1>2, <2>2, <2>3, SMTT(60)
<1>7. \A k \in 1 .. n + 1 : e[k - 1] < e[k]
  <2> SUFFICES ASSUME NEW k \in 1 .. n + 1 PROVE e[k - 1] < e[k]
    OBVIOUS
  <2>1. L + 1 < M + 1
    OBVIOUS
  <2> QED BY <1>2, <1>5, <2>1
<1>8. ASSUME NEW k \in 1 .. n PROVE u[e[k]] = byte
  <2>1. k \in 0 .. n /\ e[k] = c[k]
    BY <1>4
  <2>2. CASE k = n
    BY <1>1, <1>2, <2>1, <2>2
  <2>3. CASE k # n
    <3>1. c[k] \in 1 .. L /\ k \in 1 .. n - 1
      BY <1>6, <2>3
    <3>2. t[c[k]] = byte
      BY <1>2, <3>1
    <3> QED BY <1>1, <2>1, <3>1, <3>2
  <2> QED BY <2>2, <2>3
<1>9. ASSUME NEW k \in 1 .. n + 1, NEW j \in e[k - 1] + 1 .. e[k] - 1 PROVE u[j] # byte
  <2>1. CASE k \in 1 .. n /\ e[k] = c[k] /\ e[k - 1] = c[k - 1]
    <3>1. j \in c[k - 1] + 1 .. c[k] - 1
      BY <2>1
    <3>2. t[j] # byte
      BY <1>2, <2>1, <3>1
    <3>3. j \in 1 .. L
      <4>1. c[k] \in 1 .. L + 1 /\ c[k - 1] \in 0 .. L
        BY <1>6, <2>1
      <4> PICK x \in 1 .. L + 1 : x = c[k]
        BY <4>1
      <4> PICK y \in 0 .. L : y = c[k - 1]
        BY <4>1
      <4>2. j \in y + 1 .. x - 1
        BY <3>1
      <4> QED BY ONLY <4>2, L \in Nat, x \in 1 .. L + 1, y \in 0 .. L
    <3> QED BY <1>1, <3>2, <3>3
  <2>2. CASE k = n + 1 /\ e[k] = M + 1 /\ e[k - 1] = L + 1
    <3>1. j \in (L + 1) + 1 .. (M + 1) - 1
      BY <2>2
    <3> PICK i \in 1 .. m : j = L + 1 + i
      <4>1. j - (L + 1) \in 1 .. m /\ j = L + 1 + (j - (L + 1))
        BY <3>1
      <4> QED BY <4>1
    <3>2. u[j] = p[i] /\ p[i] # byte
      BY <1>1 DEF Free
    <3> QED BY <3>2
  <2> QED BY <1>5, <2>1, <2>2
<1>10. Cut(u, 0, M + 1, byte, n + 1, e)
  <2>1. n + 1 \in Nat \ {0}
    OBVIOUS
  <2>2. (n + 1) - 1 = n
    OBVIOUS
  <2>3. \A k \in 1 .. (n + 1) - 1 : u[e[k]] = byte
    BY <1>8, <2>2
  <2>4. \A k \in 1 .. n + 1 : \A j \in e[k - 1] + 1 .. e[k] - 1 : u[j] # byte
    BY <1>9
  <2> QED BY <1>4, <1>7, <2>1, <2>3, <2>4 DEF Cut
<1> PICK q : q = Append(g, p)
  OBVIOUS
<1>11. q \in Seq(Seq(Nat)) /\ Len(q) = n + 1 /\ q[n + 1] = p /\ \A k \in 1 .. n : q[k] = g[k]
  BY AppendProperties
<1>12. ASSUME NEW k \in 1 .. n + 1 PROVE SubSeq(u, e[k - 1] + 1, e[k] - 1) = q[k]
  <2>1. CASE k \in 1 .. n /\ e[k] = c[k] /\ e[k - 1] = c[k - 1]
    <3>1. c[k - 1] + 1 \in 1 .. L + 1 /\ c[k] - 1 \in 0 .. L
      <4>1. c[k] \in 1 .. L + 1 /\ c[k - 1] \in 0 .. L
        BY <1>6, <2>1
      <4> PICK x \in 1 .. L + 1 : x = c[k]
        BY <4>1
      <4> PICK y \in 0 .. L : y = c[k - 1]
        BY <4>1
      <4>2. y + 1 \in 1 .. L + 1 /\ x - 1 \in 0 .. L
        BY ONLY L \in Nat, x \in 1 .. L + 1, y \in 0 .. L
      <4> QED BY <4>2
    <3>2. SubSeq(u, c[k - 1] + 1, c[k] - 1) = SubSeq(t, c[k - 1] + 1, c[k] - 1)
      BY <1>1, <3>1
    <3>3. g[k] = SubSeq(t, c[k - 1] + 1, c[k] - 1)
      BY <2>1 DEF Pieces
    <3> QED BY <1>11, <2>1, <3>2, <3>3
  <2>2. CASE k = n + 1 /\ e[k] = M + 1 /\ e[k - 1] = L + 1
    <3>1. e[k - 1] + 1 = L + 2 /\ e[k] - 1 = Len(u)
      BY <1>1, <2>2, SMTT(60)
    <3> QED BY <1>1, <1>11, <2>2, <3>1
  <2> QED BY <1>5, <2>1, <2>2
<1>13. Pieces(u, n + 1, e) = q
  <2> PICK N \in Nat : N = n + 1
    OBVIOUS
  <2>1. q = [k \in 1 .. N |-> q[k]]
    <3>1. DOMAIN q = 1 .. N /\ q \in Seq(Seq(Nat))
      BY <1>11
    <3>2. q = [k \in DOMAIN q |-> q[k]]
      BY ONLY q \in Seq(Seq(Nat))
    <3> QED BY <3>1, <3>2
  <2> QED BY <1>12, <2>1 DEF Pieces
<1>14. Len(u) + 1 = M + 1
  BY <1>1
<1> QED BY <1>1, <1>10, <1>11, <1>13, <1>14 DEF CutInto

\* Parts that are joined are cut where they were joined.
LEMMA JoinedCut ==
  ASSUME NEW byte \in Nat
  PROVE  \A g \in Seq(Seq(Nat)) :
           g # <<>> /\ (\A i \in 1 .. Len(g) : Free(g[i], byte)) => CutInto(Joined(g, byte), g, byte)
<1> DEFINE Fit(g) == g # <<>> /\ \A i \in 1 .. Len(g) : Free(g[i], byte)
           Q == {g \in Seq(Seq(Nat)) : Fit(g) => CutInto(Joined(g, byte), g, byte)}
<1>1. <<>> \in Q
  <2>1. <<>> \in Seq(Seq(Nat))
    OBVIOUS
  <2> QED BY <2>1
<1>2. ASSUME NEW g \in Q, NEW p \in Seq(Nat) PROVE Append(g, p) \in Q
  <2> PICK n \in Nat : n = Len(g)
    OBVIOUS
  <2> PICK q : q = Append(g, p)
    OBVIOUS
  <2>1. q \in Seq(Seq(Nat)) /\ Len(q) = n + 1 /\ q[n + 1] = p /\ \A k \in 1 .. n : q[k] = g[k]
    BY AppendProperties
  <2>2. ASSUME Fit(q) PROVE CutInto(Joined(q, byte), q, byte)
    <3>1. \A i \in 1 .. n + 1 : Free(q[i], byte)
      BY <2>1, <2>2
    <3>2. Free(p, byte)
      <4>1. n + 1 \in 1 .. n + 1
        OBVIOUS
      <4> QED BY <2>1, <3>1, <4>1
    <3>3. CASE g = <<>>
      <4>1. q = <<p>>
        BY <3>3
      <4> QED BY <3>2, <4>1, JoinedOne, CutIntoOne
    <3>4. CASE g # <<>>
      <4>1. ASSUME NEW i \in 1 .. n PROVE Free(g[i], byte)
        <5>1. i \in 1 .. n + 1
          OBVIOUS
        <5> QED BY <2>1, <3>1, <5>1
      <4>2. CutInto(Joined(g, byte), g, byte)
        BY <3>4, <4>1
      <4>3. CutInto(Joined(g, byte) \o (<<byte>> \o p), q, byte)
        BY <3>2, <3>4, <4>2, CutIntoMore
      <4> QED BY <3>4, <4>3, JoinedMore
    <3> QED BY <3>3, <3>4
  <2> HIDE DEF Fit
  <2> QED BY <2>1, <2>2
<1> HIDE DEF Q
<1>3. \A g \in Seq(Seq(Nat)) : g \in Q
  BY <1>1, <1>2, SeqInduction
<1> QED BY <1>3 DEF Q

\* What a text is that is cut into parts.
LEMMA CutIntoIs ==
  ASSUME NEW t, NEW byte \in Nat, NEW parts \in Seq(Seq(Nat)), parts # <<>>, CutInto(t, parts, byte),
         NEW D \in Nat, \A i \in 1 .. Len(parts) : Len(parts[i]) \in 1 .. D
  PROVE  /\ t \in Seq(Nat) /\ Split(t, byte) = parts
         /\ Len(t) > 0 /\ t[Len(t)] # byte
         /\ Len(t) + 1 <= Len(parts) * (D + 1)
         /\ Len(parts) > 1 => \E i \in 1 .. Len(t) : t[i] = byte
<1> PICK n \in Nat \ {0} : n = Len(parts)
  OBVIOUS
<1>0. t \in Seq(Nat)
  BY DEF CutInto
<1> PICK L \in Nat : L = Len(t)
  BY <1>0
<1> PICK c : Cut(t, 0, L + 1, byte, n, c) /\ Pieces(t, n, c) = parts
  BY DEF CutInto
<1>1. Split(t, byte) = parts
  <2>1. Len(t) \in Nat /\ DOMAIN t = 1 .. Len(t)
    BY <1>0
  <2>2. Split(t, byte) = Pieces(t, n, c)
    BY <2>1, SplitAt
  <2> QED BY <2>2
<1>2. /\ c \in [0 .. n -> 0 .. L + 1] /\ c[0] = 0 /\ c[n] = L + 1
      /\ \A k \in 1 .. n : c[k - 1] < c[k]
      /\ \A k \in 1 .. n - 1 : t[c[k]] = byte
      /\ \A k \in 1 .. n : \A j \in c[k - 1] + 1 .. c[k] - 1 : t[j] # byte
  BY DEF Cut
<1>3. ASSUME NEW k \in 1 .. n
      PROVE  /\ c[k] \in 0 .. L + 1 /\ c[k - 1] \in 0 .. L + 1 /\ c[k - 1] < c[k]
             /\ c[k] - 1 - c[k - 1] \in 1 .. D
  <2>1. k \in 0 .. n /\ k - 1 \in 0 .. n
    OBVIOUS
  <2>2. c[k] \in 0 .. L + 1 /\ c[k - 1] \in 0 .. L + 1 /\ c[k - 1] < c[k]
    BY <1>2, <2>1
  <2> PICK a \in Nat : a = c[k - 1]
    BY <2>2
  <2> PICK b \in Nat : b = c[k]
    BY <2>2
  <2>3. Len(SubSeq(t, a + 1, b - 1)) = b - 1 - a
    <3>1. a < b /\ b <= Len(t) + 1
      BY <2>2
    <3> QED BY <1>0, <3>1, PartIs, ZenonT(60)
  <2>4. parts[k] = SubSeq(t, a + 1, b - 1)
    BY DEF Pieces
  <2>5. Len(parts[k]) \in 1 .. D
    OBVIOUS
  <2> QED BY <2>2, <2>3, <2>4, <2>5
<1>4. L > 0 /\ t[L] # byte
  <2>1. n \in 1 .. n
    OBVIOUS
  <2>2. c[n] = L + 1 /\ c[n - 1] \in 0 .. L + 1 /\ c[n] - 1 - c[n - 1] \in 1 .. D
    BY <1>2, <1>3, <2>1
  <2> PICK a \in Nat : a = c[n - 1]
    BY <2>2
  <2>3. L \in a + 1 .. (L + 1) - 1 /\ L > 0
    BY <2>2
  <2>4. t[L] # byte
    BY <1>2, <2>1, <2>2, <2>3
  <2> QED BY <2>3, <2>4
<1>5. ASSUME n > 1 PROVE \E i \in 1 .. L : t[i] = byte
  <2>1. 1 \in 1 .. n - 1 /\ 1 \in 1 .. n /\ 2 \in 1 .. n /\ 2 - 1 = 1 /\ 1 - 1 = 0
    BY <1>5
  <2>2. t[c[1]] = byte /\ c[0] < c[1] /\ c[1] < c[2] /\ c[2] \in 0 .. L + 1 /\ c[1] \in 0 .. L + 1 /\ c[0] = 0
    <3>1. t[c[1]] = byte /\ c[0] = 0
      BY <1>2, <2>1
    <3>2. c[1] \in 0 .. L + 1 /\ c[1 - 1] < c[1]
      BY <1>3, <2>1
    <3>3. c[2] \in 0 .. L + 1 /\ c[2 - 1] < c[2]
      BY <1>3, <2>1
    <3> QED BY <2>1, <3>1, <3>2, <3>3
  <2>3. c[1] \in 1 .. L
    BY <2>2
  <2> QED BY <2>2, <2>3
<1>6. L + 1 <= n * (D + 1)
  <2> DEFINE N == {k \in Nat : k <= n => c[k] <= k * (D + 1)}
  <2>1. 0 \in N
    BY <1>2
  <2>2. ASSUME NEW k \in N PROVE k + 1 \in N
    <3> SUFFICES ASSUME k + 1 <= n PROVE c[k + 1] <= (k + 1) * (D + 1)
      OBVIOUS
    <3> PICK e \in 1 .. n : e = k + 1
      OBVIOUS
    <3>1. c[k] <= k * (D + 1) /\ e - 1 = k
      OBVIOUS
    <3>2. c[e] \in 0 .. L + 1 /\ c[k] \in 0 .. L + 1 /\ c[e] - 1 - c[k] \in 1 .. D
      BY <1>3, <3>1
    <3> PICK x \in Nat : x = c[k]
      BY <3>2
    <3> PICK y \in Nat : y = c[e]
      BY <3>2
    <3> PICK z \in Nat : z = k * (D + 1)
      OBVIOUS
    <3>3. (k + 1) * (D + 1) = z + (D + 1)
      OBVIOUS
    <3>4. y - 1 - x \in 1 .. D /\ x <= z
      BY <3>1, <3>2
    <3>5. y <= z + (D + 1)
      BY ONLY <3>4, x \in Nat, y \in Nat, z \in Nat, D \in Nat
    <3> QED BY <3>3, <3>5
  <2> HIDE DEF N
  <2>3. n \in N
    BY <2>1, <2>2, SetInduction
  <2>4. c[n] <= n * (D + 1)
    BY <2>3 DEF N
  <2> QED BY <1>2, <2>4
<1> QED BY <1>0, <1>1, <1>4, <1>5, <1>6

\* What is written of hextets: it is read as them, is not too long and does not end
\* with a colon.
NumeralsTell(t, h) ==
  /\ t \in Seq(Nat) /\ AreHextets(Fields(t)) /\ ValuesOf(Fields(t)) = h /\ Len(Fields(t)) = Len(h)
  /\ Len(t) <= Len(h) * (Digits + 1)
  /\ h # <<>> => Len(t) > 0 /\ t[Len(t)] # Colon /\ Len(t) + 1 <= Len(h) * (Digits + 1)
  /\ Len(h) > 1 => \E i \in 1 .. Len(t) : t[i] = Colon

\* Hextets written in hexadecimal are the fields at their colons.
LEMMA NumeralsRead ==
  ASSUME NEW h \in Seq(Nat), \A i \in 1 .. Len(h) : h[i] < Place[Digits]
  PROVE  NumeralsTell(Numerals(h), h)
<1>0. Digits \in Nat \ {0} /\ Digits + 1 \in Nat /\ Colon \in Nat
  BY IpAssumption DEF Colon
<1> PICK t : t = Numerals(h)
  OBVIOUS
<1>1. CASE h = <<>>
  <2>1. t = <<>>
    BY <1>1 DEF Numerals
  <2>2. Fields(t) = <<>>
    BY <2>1 DEF Fields
  <2>3. AreHextets(Fields(t))
    BY <2>2 DEF AreHextets
  <2>4. ValuesOf(Fields(t)) = <<>>
    BY <2>2 DEF ValuesOf
  <2>5. t \in Seq(Nat) /\ Len(t) = 0 /\ Len(h) = 0 /\ Len(t) <= Len(h) * (Digits + 1)
    <3>1. Len(<<>>) = 0 /\ <<>> \in Seq(Nat) /\ 0 <= 0 * (Digits + 1)
      BY <1>0
    <3> QED BY <1>1, <2>1, <3>1
  <2> QED BY <1>1, <2>2, <2>3, <2>4, <2>5 DEF NumeralsTell
<1>2. CASE h # <<>>
  <2> PICK n \in Nat \ {0} : n = Len(h)
    BY <1>2
  <2> PICK parts : parts = [i \in DOMAIN h |-> Numeral(h[i], 16)]
    OBVIOUS
  <2>1. DOMAIN h = 1 .. n
    OBVIOUS
  <2>2. ASSUME NEW i \in 1 .. n
        PROVE  /\ parts[i] = Numeral(h[i], 16) /\ parts[i] \in Seq(Nat) /\ Len(parts[i]) > 0
               /\ Len(parts[i]) <= Digits /\ IsHextet(parts[i]) /\ ValueOf(parts[i]) = h[i]
    <3>1. parts[i] = Numeral(h[i], 16)
      BY <2>1
    <3> PICK x \in Nat : x = h[i]
      OBVIOUS
    <3>2. x < Place[Digits]
      OBVIOUS
    <3> QED BY <3>1, <3>2, NumeralHex
  <2>3. parts \in Seq(Seq(Nat)) /\ Len(parts) = n /\ parts # <<>>
    <3>1. parts \in [1 .. n -> Seq(Nat)]
      BY <2>1, <2>2
    <3>2. parts \in Seq(Seq(Nat)) /\ Len(parts) = n
      BY ONLY <3>1, n \in Nat \ {0}
    <3> QED BY <3>2
  <2>4. ASSUME NEW i \in 1 .. n PROVE Free(parts[i], Colon)
    <3> PICK p : p = parts[i]
      OBVIOUS
    <3>1. p \in Seq(Nat) /\ IsHextet(p)
      BY <2>2
    <3>2. \A j \in 1 .. Len(p) : is_hex_digit(p[j])
      <4>1. DOMAIN p = 1 .. Len(p)
        BY <3>1
      <4> QED BY <3>1, <4>1 DEF IsHextet
    <3> QED BY <3>2, ColonIsNone DEF Free
  <2>5. t = Joined(parts, Colon)
    BY <1>2 DEF Numerals
  <2>6. CutInto(t, parts, Colon)
    BY <1>0, <2>3, <2>4, <2>5, JoinedCut
  <2>7. \A i \in 1 .. Len(parts) : Len(parts[i]) \in 1 .. Digits
    <3> SUFFICES ASSUME NEW i \in 1 .. n PROVE Len(parts[i]) \in 1 .. Digits
      BY <2>3
    <3>1. Len(parts[i]) \in Nat /\ Len(parts[i]) > 0 /\ Len(parts[i]) <= Digits
      <4> PICK p : p = parts[i]
        OBVIOUS
      <4>1. p \in Seq(Nat) /\ Len(p) > 0 /\ Len(p) <= Digits
        BY <2>2
      <4> QED BY <4>1
    <3> QED BY <1>0, <3>1
  <2>8. /\ t \in Seq(Nat) /\ Split(t, Colon) = parts
        /\ Len(t) > 0 /\ t[Len(t)] # Colon
        /\ Len(t) + 1 <= Len(parts) * (Digits + 1)
        /\ Len(parts) > 1 => \E i \in 1 .. Len(t) : t[i] = Colon
    BY <1>0, <2>3, <2>6, <2>7, CutIntoIs
  <2>9. Fields(t) = parts
    BY <2>8 DEF Fields
  <2>10. AreHextets(parts)
    <3>1. DOMAIN parts = 1 .. n
      BY <2>3
    <3> QED BY <2>2, <3>1 DEF AreHextets
  <2>11. ValuesOf(parts) = h
    <3>1. DOMAIN parts = 1 .. n /\ h = [i \in 1 .. n |-> h[i]]
      BY <2>3
    <3>2. [i \in 1 .. n |-> ValueOf(parts[i])] = [i \in 1 .. n |-> h[i]]
      BY <2>2
    <3> QED BY <3>1, <3>2 DEF ValuesOf
  <2>12. Len(t) <= Len(h) * (Digits + 1)
    <3> PICK z \in Nat : z = n * (Digits + 1)
      BY <1>0
    <3> QED BY <2>3, <2>8
  <2> QED BY <2>3, <2>8, <2>9, <2>10, <2>11, <2>12 DEF NumeralsTell
<1> QED BY <1>1, <1>2
-----------------------------------------------------------------------------
(* A text means one address, of hextets that can be written.               *)

\* No text stands for two addresses.
LEMMA MeantOne == ASSUME NEW t \in Seq(Nat), NEW h \in Meant(t), NEW g \in Meant(t) PROVE h = g
<1>1. /\ \/ Plain(t) /\ h = ValuesOf(Fields(t))
         \/ \E i : Around(t, i) /\ h = Filled(Front1(t, i), Behind(t, i))
      /\ \/ Plain(t) /\ g = ValuesOf(Fields(t))
         \/ \E i : Around(t, i) /\ g = Filled(Front1(t, i), Behind(t, i))
  BY MeantIs
<1>2. ASSUME NEW i, Around(t, i), NEW j, Around(t, j) PROVE i = j
  <2>1. j \in Nat /\ j >= 1 /\ j + 1 <= Len(t) /\ t[j] = Colon /\ t[j + 1] = Colon
    BY <1>2, AroundShape
  <2>2. j \in 1 .. Len(t) - 1
    BY <2>1
  <2> QED BY <1>2, <2>1, <2>2, OneEllipsis
<1>3. ASSUME Plain(t), NEW i, Around(t, i) PROVE FALSE
  <2> PICK e \in Nat : e = Len(t) + 1
    OBVIOUS
  <2>1. Shape(t, 0, e)
    BY <1>3, PlainShape
  <2>2. i \in Nat /\ i >= 1 /\ i + 1 <= Len(t) /\ t[i] = Colon /\ t[i + 1] = Colon
    BY <1>3, AroundShape
  <2>3. i \in 0 + 1 .. e - 2
    BY <2>2
  <2> QED BY <2>1, <2>2, <2>3 DEF Shape
<1> QED BY <1>1, <1>2, <1>3

\* Numbers that a hextet can be.
Written == 0 .. Place[Digits] - 1

\* They are numbers, and zero is among them.
LEMMA WrittenIs == Written \subseteq Nat /\ 0 \in Written /\ Place[Digits] \in Nat
<1>1. Digits \in Nat
  BY IpAssumption
<1>2. Place[Digits] \in Nat \ {0}
  BY <1>1, PlaceIs
<1> QED BY <1>2 DEF Written

\* What hextets come to can be written.
LEMMA FieldsFit ==
  ASSUME NEW t \in Seq(Nat), AreHextets(Fields(t))
  PROVE  ValuesOf(Fields(t)) \in Seq(Written) /\ Len(ValuesOf(Fields(t))) = Len(Fields(t))
<1>1. CASE t = <<>>
  <2>1. Fields(t) = <<>>
    BY <1>1 DEF Fields
  <2>2. ValuesOf(<<>>) = <<>>
    BY DEF ValuesOf
  <2>3. <<>> \in Seq(Written)
    OBVIOUS
  <2>4. ValuesOf(Fields(t)) = <<>> /\ Fields(t) = <<>>
    BY <2>1, <2>2
  <2> QED BY <2>3, <2>4
<1>2. CASE t # <<>>
  <2> PICK b \in Nat : b = Len(t) + 1
    OBVIOUS
  <2>1. 0 \in Nat /\ 0 < b /\ b <= Len(t) + 1 /\ SubSeq(t, 0 + 1, b - 1) = t
    BY WholeIs
  <2> PICK n, c : Cut(t, 0, b, Colon, n, c)
    BY <2>1, CutExists
  <2>2. Split(SubSeq(t, 0 + 1, b - 1), Colon) = Pieces(t, n, c)
    BY ONLY t \in Seq(Nat), b \in Nat, <2>1, Cut(t, 0, b, Colon, n, c), SplitPart
  <2>3. Fields(t) = Pieces(t, n, c)
    BY <1>2, <2>1, <2>2 DEF Fields
  <2>4. n \in Nat
    BY DEF Cut
  <2> PICK fs : fs = Fields(t)
    OBVIOUS
  <2>5. DOMAIN fs = 1 .. n
    BY <2>3 DEF Pieces
  <2>6. ASSUME NEW k \in 1 .. n PROVE ValueOf(fs[k]) \in Written
    <3> PICK p : p = SubSeq(t, c[k - 1] + 1, c[k] - 1)
      OBVIOUS
    <3>1. fs[k] = p
      BY <2>3 DEF Pieces
    <3>2. p \in Seq(Nat)
      BY ONLY t \in Seq(Nat), b \in Nat, <2>1, Cut(t, 0, b, Colon, n, c), k \in 1 .. n,
              p = SubSeq(t, c[k - 1] + 1, c[k] - 1), PieceIs
    <3>3. IsHextet(p)
      BY <2>5, <3>1 DEF AreHextets
    <3> QED BY <3>1, <3>2, <3>3, HextetBound DEF Written
  <2> PICK v : v = ValuesOf(fs)
    OBVIOUS
  <2>7. v \in [1 .. n -> Written]
    BY <2>5, <2>6 DEF ValuesOf
  <2>8. v \in Seq(Written) /\ Len(v) = n
    BY ONLY <2>4, <2>7
  <2>9. fs = [k \in 1 .. n |-> fs[k]]
    BY <2>3 DEF Pieces
  <2>10. Len(fs) = n
    BY ONLY <2>4, <2>9
  <2> QED BY <2>8, <2>10
<1> QED BY <1>1, <1>2

\* So can the address a text stands for.
LEMMA MeantFits == ASSUME NEW t \in Seq(Nat), NEW h \in Meant(t) PROVE h \in Seq(Written)
<1>1. CASE Plain(t) /\ h = ValuesOf(Fields(t))
  BY <1>1, FieldsFit DEF Plain
<1>2. ASSUME NEW i, Around(t, i), h = Filled(Front1(t, i), Behind(t, i)) PROVE h \in Seq(Written)
  <2>1. i \in Nat /\ i >= 1 /\ i + 1 <= Len(t) /\ Len(t) \in Nat
    BY <1>2, AroundShape
  <2>2. SubSeq(t, 1, i - 1) \in Seq(Nat) /\ SubSeq(t, i + 2, Len(t)) \in Seq(Nat)
    <3>1. 1 \in Int /\ i - 1 \in Int /\ i + 2 \in Int /\ Len(t) \in Int
      BY <2>1
    <3>2. \A j \in 1 .. i - 1 : t[j] \in Nat
      <4>1. \A j \in 1 .. i - 1 : j \in 1 .. Len(t)
        BY <2>1
      <4> QED BY <4>1
    <3>3. \A j \in i + 2 .. Len(t) : t[j] \in Nat
      <4>1. \A j \in i + 2 .. Len(t) : j \in 1 .. Len(t)
        BY <2>1
      <4> QED BY <4>1
    <3> QED BY <3>1, <3>2, <3>3, SubSeqProperties
  <2> PICK f : f = Front1(t, i)
    OBVIOUS
  <2> PICK g : g = Behind(t, i)
    OBVIOUS
  <2>3. AreHextets(f) /\ AreHextets(g) /\ Len(f) + Len(g) < Hextets
    BY <1>2 DEF Around
  <2>4. ValuesOf(f) \in Seq(Written) /\ Len(ValuesOf(f)) = Len(f)
    BY <2>2, <2>3, FieldsFit DEF Front1
  <2>5. ValuesOf(g) \in Seq(Written) /\ Len(ValuesOf(g)) = Len(g)
    BY <2>2, <2>3, FieldsFit DEF Behind
  <2>6. [j \in 1 .. Hextets - Len(f) - Len(g) |-> 0] \in Seq(Written)
    <3>1. Len(f) \in Nat /\ Len(g) \in Nat /\ Hextets \in Nat
      BY <2>4, <2>5, IpAssumption
    <3> PICK n \in Nat : n = Len(f)
      BY <3>1
    <3> PICK m \in Nat : m = Len(g)
      BY <3>1
    <3>4. Hextets - n - m \in Nat
      BY <2>3, <3>1
    <3> PICK z \in Nat : z = Hextets - Len(f) - Len(g)
      BY <3>4
    <3>2. [j \in 1 .. z |-> 0] \in [1 .. z -> Written]
      BY WrittenIs
    <3>3. [j \in 1 .. z |-> 0] \in Seq(Written)
      BY ONLY z \in Nat, <3>2
    <3> QED BY <3>3
  <2>7. \A x, y, z \in Seq(Written) : x \o y \o z \in Seq(Written)
    <3> PICK W : W = Written
      OBVIOUS
    <3>1. \A x, y, z \in Seq(W) : x \o y \o z \in Seq(W)
      BY ONLY TRUE
    <3> QED BY <3>1
  <2> QED BY <1>2, <2>4, <2>5, <2>6, <2>7 DEF Filled
<1> QED BY <1>1, <1>2, MeantIs

\* And one that it would stand for without its last colon.
LEMMA AnyMeantFits ==
  ASSUME NEW t \in Seq(Nat), NEW h \in Meant(t) \cup Lax(t), NEW g \in [1 .. Hextets -> Nat], V6(h) = V6(g)
  PROVE  g \in [1 .. Hextets -> Written]
<1>1. h = g
  BY DEF V6
<1>2. h \in Seq(Written)
  <2>1. CASE h \in Meant(t)
    BY <2>1, MeantFits
  <2>2. CASE h \in Lax(t)
    <3>1. Len(t) > 3 /\ h \in Meant(Front(t))
      BY <2>2 DEF Lax
    <3>2. Front(t) \in Seq(Nat)
      BY <3>1 DEF Front
    <3> QED BY <3>1, <3>2, MeantFits
  <2> QED BY <2>1, <2>2
<1>3. Hextets \in Nat
  BY IpAssumption
<1>4. Len(g) = Hextets
  BY ONLY <1>3, g \in [1 .. Hextets -> Nat]
<1>5. \A i \in 1 .. Hextets : g[i] \in Written
  BY <1>1, <1>2, <1>4
<1> QED BY <1>5
-----------------------------------------------------------------------------
(* An IPv4 address that is written is read.                                *)

OctetParts(o) == [i \in 1 .. 4 |-> Numeral(o[i], 10)]

\* Bytes written with dots are the parts at the dots.
LEMMA OctetsTell ==
  ASSUME NEW o \in [1 .. 4 -> Nat]
  PROVE  LET t == ipv4_to_str(o)
         IN  t \in Seq(Nat) /\ Split(t, Dot) = OctetParts(o) /\ \E i \in 1 .. Len(t) : t[i] = Dot
<1> PICK parts : parts = OctetParts(o)
  OBVIOUS
<1> PICK t : t = ipv4_to_str(o)
  OBVIOUS
<1>1. ASSUME NEW i \in 1 .. 4
      PROVE  parts[i] \in Seq(Nat) /\ Len(parts[i]) > 0 /\ Free(parts[i], Dot)
  <2> PICK n \in Nat : n = o[i]
    OBVIOUS
  <2> PICK p : p = parts[i]
    OBVIOUS
  <2>1. p = Numeral(n, 10)
    BY DEF OctetParts
  <2>2. p \in Seq(Nat) /\ Len(p) > 0 /\ \A j \in 1 .. Len(p) : p[j] \in 48 .. 57
    <3>1. n <= n
      OBVIOUS
    <3> QED BY <2>1, <3>1, NumeralDec
  <2>3. Free(p, Dot)
    <3>1. \A x \in 48 .. 57 : x # 46
      OBVIOUS
    <3> QED BY <2>2, <3>1 DEF Free, Dot
  <2> QED BY <2>2, <2>3
<1>2. parts \in Seq(Seq(Nat)) /\ Len(parts) = 4 /\ parts # <<>>
  <2>1. parts \in [1 .. 4 -> Seq(Nat)]
    BY <1>1 DEF OctetParts
  <2> PICK n \in Nat \ {0} : n = 4
    OBVIOUS
  <2>2. parts \in [1 .. n -> Seq(Nat)]
    BY <2>1
  <2>3. parts \in Seq(Seq(Nat)) /\ Len(parts) = n
    BY ONLY <2>2, n \in Nat \ {0}
  <2>4. Len(parts) # 0 /\ Len(<<>>) = 0
    BY <2>3
  <2> QED BY <2>3, <2>4
<1>3. t = Joined(parts, Dot)
  BY DEF ipv4_to_str, OctetParts
<1>4. Dot \in Nat
  BY DEF Dot
<1>5. CutInto(t, parts, Dot)
  BY <1>1, <1>2, <1>3, <1>4, JoinedCut
<1>6. \A i \in 1 .. 4 : Len(parts[i]) \in Nat \ {0}
  <2> SUFFICES ASSUME NEW i \in 1 .. 4 PROVE Len(parts[i]) \in Nat \ {0}
    OBVIOUS
  <2> PICK p : p = parts[i]
    OBVIOUS
  <2>1. p \in Seq(Nat) /\ Len(p) > 0
    BY <1>1
  <2> QED BY <2>1
<1> PICK a \in Nat \ {0} : a = Len(parts[1])
  BY <1>6
<1> PICK b \in Nat \ {0} : b = Len(parts[2])
  BY <1>6
<1> PICK c \in Nat \ {0} : c = Len(parts[3])
  BY <1>6
<1> PICK d \in Nat \ {0} : d = Len(parts[4])
  BY <1>6
<1> PICK D \in Nat : D = a + b + c + d
  BY ONLY a \in Nat \ {0}, b \in Nat \ {0}, c \in Nat \ {0}, d \in Nat \ {0}
<1>7. \A i \in 1 .. Len(parts) : Len(parts[i]) \in 1 .. D
  <2>1. a \in 1 .. D /\ b \in 1 .. D /\ c \in 1 .. D /\ d \in 1 .. D
    BY ONLY a \in Nat \ {0}, b \in Nat \ {0}, c \in Nat \ {0}, d \in Nat \ {0}, D = a + b + c + d
  <2>2. \A i \in 1 .. 4 : i = 1 \/ i = 2 \/ i = 3 \/ i = 4
    OBVIOUS
  <2> QED BY <1>2, <2>1, <2>2
<1>8. /\ t \in Seq(Nat) /\ Split(t, Dot) = parts
      /\ Len(parts) > 1 => \E i \in 1 .. Len(t) : t[i] = Dot
  BY ONLY <1>2, <1>4, <1>5, <1>7, D \in Nat, CutIntoIs, ZenonT(60)
<1> QED BY <1>2, <1>8

\* They are read as those bytes.
LEMMA OctetsRead ==
  ASSUME NEW o \in [1 .. 4 -> 0 .. 255]
  PROVE  ipv4_from_str(ipv4_to_str(o)) = V4(o)
<1> PICK t : t = ipv4_to_str(o)
  OBVIOUS
<1>1. o \in [1 .. 4 -> Nat]
  OBVIOUS
<1>2. Split(t, Dot) = OctetParts(o)
  BY <1>1, OctetsTell
<1> PICK octets : octets = Parsed(t)
  OBVIOUS
<1>3. octets = [i \in 1 .. 4 |-> parse(OctetParts(o)[i], 255)]
  <2>1. DOMAIN OctetParts(o) = 1 .. 4
    BY DEF OctetParts
  <2> QED BY <1>2, <2>1 DEF Parsed
<1>4. ASSUME NEW i \in 1 .. 4 PROVE octets[i] = o[i]
  <2> PICK n \in 0 .. 255 : n = o[i]
    OBVIOUS
  <2>1. OctetParts(o)[i] = Numeral(n, 10)
    BY DEF OctetParts
  <2>2. parse(Numeral(n, 10), 255) = n
    <3>1. n \in Nat /\ 255 \in Nat /\ n <= 255
      OBVIOUS
    <3> QED BY <3>1, NumeralDec
  <2> QED BY <1>3, <2>1, <2>2
<1>5. octets = o
  <2>1. o = [i \in 1 .. 4 |-> o[i]]
    OBVIOUS
  <2>2. octets = [i \in 1 .. 4 |-> octets[i]]
    BY <1>3
  <2> QED BY <1>4, <2>1, <2>2
<1>6. Len(octets) = 4
  BY ONLY o \in [1 .. 4 -> 0 .. 255], <1>5
<1>7. \A i \in 1 .. 4 : octets[i] # None
  BY <1>4 DEF None
<1>8. ipv4_from_str(t) = V4(Four(octets, 4))
  <2>1. ~(4 > 4 \/ \E i \in 1 .. 4 : octets[i] = None)
    BY <1>7
  <2> QED BY <1>6, <2>1, Ipv4Parsed
<1>9. Four(octets, 4) = o
  <2>1. \A i \in 1 .. 4 : i + 4 > 4 /\ i + 4 - 4 = i
    OBVIOUS
  <2>2. Four(octets, 4) = [i \in 1 .. 4 |-> octets[i]]
    BY <2>1 DEF Four
  <2> QED BY <1>3, <1>5, <2>2
<1> QED BY <1>8, <1>9

\* What parse answers is within its limit.
LEMMA ParseMax == ASSUME NEW p, NEW max, parse(p, max) # None PROVE parse(p, max) <= max
<1> PICK digits : digits = IF Len(p) > 1 /\ p[1] = Plus THEN Tail(p) ELSE p
  OBVIOUS
<1> PICK value : value = Accumulated(10, [i \in DOMAIN digits |-> digits[i] - 48])
  OBVIOUS
<1>1. parse(p, max) = IF digits # <<>> /\ (\A i \in DOMAIN digits : digits[i] \in 48 .. 57) /\ value <= max
                      THEN value ELSE None
  BY DEF parse
<1> QED BY <1>1

\* An IPv4 address that is read has bytes.
LEMMA Ipv4Fits ==
  ASSUME NEW s \in Seq(Nat), ipv4_from_str(s) # Err
  PROVE  \E o \in [1 .. 4 -> 0 .. 255] : ipv4_from_str(s) = V4(o)
<1> PICK octets : octets = Parsed(s)
  OBVIOUS
<1> PICK n : n = Len(octets)
  OBVIOUS
<1>1. ipv4_from_str(s) = IF n > 4 \/ \E i \in 1 .. n : octets[i] = None THEN Err ELSE V4(Four(octets, n))
  BY Ipv4Parsed
<1>2. ipv4_from_str(s) = V4(Four(octets, n)) /\ \A i \in 1 .. n : octets[i] # None
  BY <1>1
<1> PICK o \in [1 .. 4 -> Nat] : ipv4_from_str(s) = V4(o)
  BY Ipv4Is
<1>3. o = Four(octets, n)
  BY <1>2 DEF V4
<1> PICK b \in Nat : b = Len(s) + 1
  OBVIOUS
<1>4. 0 \in Nat /\ 0 < b /\ b <= Len(s) + 1 /\ SubSeq(s, 0 + 1, b - 1) = s
  BY WholeIs
<1> PICK m, c : Cut(s, 0, b, Dot, m, c)
  BY <1>4, CutExists
<1>5. Split(SubSeq(s, 0 + 1, b - 1), Dot) = Pieces(s, m, c)
  BY ONLY s \in Seq(Nat), b \in Nat, <1>4, Cut(s, 0, b, Dot, m, c), SplitPart
<1>6. Split(s, Dot) = Pieces(s, m, c) /\ m \in Nat
  BY <1>4, <1>5 DEF Cut
<1>7. octets = [i \in 1 .. m |-> parse(Split(s, Dot)[i], 255)]
  <2>1. DOMAIN Split(s, Dot) = 1 .. m
    BY <1>6 DEF Pieces
  <2> QED BY <2>1 DEF Parsed
<1>8. n = m
  BY ONLY <1>6, <1>7, n = Len(octets)
<1>9. ASSUME NEW i \in 1 .. n PROVE octets[i] <= 255
  <2>1. octets[i] = parse(Split(s, Dot)[i], 255) /\ octets[i] # None
    BY <1>2, <1>7, <1>8
  <2> QED BY <2>1, ParseMax
<1>10. ASSUME NEW i \in 1 .. 4 PROVE o[i] \in 0 .. 255
  <2>1. o[i] = IF i + n > 4 THEN octets[i + n - 4] ELSE 0
    BY <1>3 DEF Four
  <2>2. ~(n > 4)
    BY <1>1
  <2>3. ASSUME i + n > 4 PROVE o[i] <= 255
    <3>1. i + n - 4 \in 1 .. n
      BY <1>6, <1>8, <2>2, <2>3
    <3> QED BY <1>9, <2>1, <2>3, <3>1
  <2>4. o[i] \in Nat
    OBVIOUS
  <2>5. ~(i + n > 4) => o[i] = 0
    BY <2>1
  <2> PICK x \in Nat : x = o[i]
    BY <2>4
  <2>6. i + n > 4 \/ ~(i + n > 4)
    OBVIOUS
  <2>7. x <= 255
    BY <2>3, <2>5, <2>6
  <2>8. x \in 0 .. 255
    BY ONLY <2>7, x \in Nat
  <2> QED BY <2>8
<1>11. o \in [1 .. 4 -> 0 .. 255]
  BY <1>10
<1> QED BY <1>11
-----------------------------------------------------------------------------
(* So is an IPv6 address.                                                  *)

\* Two texts around an ellipsis.
Spaced(A, B, t) ==
  /\ t \in Seq(Nat) /\ Len(t) = Len(A) + 2 + Len(B)
  /\ t[Len(A) + 1] = Colon /\ t[Len(A) + 2] = Colon
  /\ SubSeq(t, 1, Len(A)) = A /\ SubSeq(t, Len(A) + 3, Len(t)) = B
  /\ \A j \in 1 .. Len(B) : t[Len(A) + 2 + j] = B[j]

\* A text, an ellipsis and a text.
LEMMA SpacedIs ==
  ASSUME NEW A \in Seq(Nat), NEW B \in Seq(Nat)
  PROVE  Spaced(A, B, A \o <<Colon, Colon>> \o B)
<1> PICK Z : Z = <<Colon, Colon>>
  OBVIOUS
<1>1. Z \in Seq(Nat) /\ Len(Z) = 2 /\ Z[1] = Colon /\ Z[2] = Colon
  <2>1. Colon \in Nat
    BY DEF Colon
  <2> QED BY <2>1
<1> PICK t : t = A \o Z \o B
  OBVIOUS
<1> PICK m \in Nat : m = Len(A)
  OBVIOUS
<1> PICK n \in Nat : n = Len(B)
  OBVIOUS
<1>2. /\ t \in Seq(Nat) /\ Len(t) = m + 2 + n
      /\ \A i \in 1 .. m : t[i] = A[i]
      /\ \A i \in 1 .. 2 : t[m + i] = Z[i]
      /\ \A i \in 1 .. n : t[m + 2 + i] = B[i]
  BY <1>1, JoinedSeqs, SMTT(60)
<1>3. t[m + 1] = Colon /\ t[m + 2] = Colon
  <2>1. 1 \in 1 .. 2 /\ 2 \in 1 .. 2
    OBVIOUS
  <2> QED BY <1>1, <1>2, <2>1
<1> PICK L \in Nat : L = m + 2 + n
  OBVIOUS
<1>4. SubSeq(t, 1, m) = A
  <2>1. \A i \in 1 .. m : t[i] \in Nat
    BY <1>2
  <2> PICK u : u = SubSeq(t, 1, m)
    OBVIOUS
  <2>2. u \in Seq(Nat) /\ Len(u) = (IF 1 <= m THEN m - 1 + 1 ELSE 0) /\ \A i \in 1 .. m - 1 + 1 : u[i] = t[1 + i - 1]
    <3>1. 1 \in Int /\ m \in Int
      OBVIOUS
    <3> QED BY ONLY <2>1, <3>1, u = SubSeq(t, 1, m), SubSeqProperties
  <2>3. Len(u) = m
    BY <2>2
  <2>4. ASSUME NEW i \in 1 .. m PROVE u[i] = A[i]
    <3>1. i \in 1 .. m - 1 + 1 /\ 1 + i - 1 = i
      OBVIOUS
    <3> QED BY <1>2, <2>2, <3>1
  <2>5. Len(u) = Len(A) /\ \A i \in 1 .. Len(u) : u[i] = A[i]
    BY <2>3, <2>4
  <2> QED BY <2>2, <2>5, SeqEqual
<1>5. SubSeq(t, m + 3, L) = B
  <2> PICK a \in Nat : a = m + 3
    OBVIOUS
  <2>1. \A i \in a .. L : t[i] \in Nat
    <3>1. \A i \in a .. L : i \in 1 .. m + 2 + n
      OBVIOUS
    <3> QED BY <1>2, <3>1, SMTT(60)
  <2> PICK u : u = SubSeq(t, a, L)
    OBVIOUS
  <2>2. u \in Seq(Nat) /\ Len(u) = (IF a <= L THEN L - a + 1 ELSE 0) /\ \A i \in 1 .. L - a + 1 : u[i] = t[a + i - 1]
    <3>1. a \in Int /\ L \in Int
      OBVIOUS
    <3> QED BY ONLY <2>1, <3>1, u = SubSeq(t, a, L), SubSeqProperties
  <2>3. Len(u) = n
    BY <2>2
  <2>4. ASSUME NEW i \in 1 .. n PROVE u[i] = B[i]
    <3>1. i \in 1 .. L - a + 1 /\ a + i - 1 = m + 2 + i
      OBVIOUS
    <3> QED BY <1>2, <2>2, <3>1, SMTT(60)
  <2>5. Len(u) = Len(B) /\ \A i \in 1 .. Len(u) : u[i] = B[i]
    BY <2>3, <2>4
  <2> QED BY <2>2, <2>5, SeqEqual, ZenonT(60)
<1> QED BY <1>2, <1>3, <1>4, <1>5 DEF Spaced

\* What a written text has to tell to be read as h.
Telling(t, h) ==
  /\ t \in Seq(Nat) /\ h \in Meant(t)
  /\ \E i \in 1 .. Len(t) : t[i] = Colon
  /\ Len(t) <= Limit + 1
  /\ t[Len(t)] = Colon => t[Len(t) - 1] = Colon

\* Hextets written one by one tell the address.
LEMMA PlainWritten ==
  ASSUME NEW h \in [1 .. Hextets -> Written]
  PROVE  Telling(Numerals(h), h)
<1>0. Hextets \in Nat /\ Hextets > 2 /\ Digits \in Nat \ {0}
  BY IpAssumption
<1>1. h \in Seq(Nat) /\ Len(h) = Hextets /\ \A i \in 1 .. Len(h) : h[i] < Place[Digits]
  <2>1. h \in [1 .. Hextets -> Nat] /\ \A i \in 1 .. Hextets : h[i] < Place[Digits]
    <3>1. \A x \in Written : x \in Nat /\ x < Place[Digits]
      BY WrittenIs DEF Written
    <3> QED BY <3>1
  <2>2. h \in Seq(Nat) /\ Len(h) = Hextets
    BY ONLY <1>0, <2>1
  <2> QED BY <2>1, <2>2
<1> PICK t : t = Numerals(h)
  OBVIOUS
<1>2. NumeralsTell(t, h)
  BY <1>1, NumeralsRead
<1>3. h # <<>>
  BY <1>0, <1>1
<1>4. /\ t \in Seq(Nat) /\ AreHextets(Fields(t)) /\ ValuesOf(Fields(t)) = h /\ Len(Fields(t)) = Hextets
      /\ Len(t) > 0 /\ t[Len(t)] # Colon /\ Len(t) + 1 <= Hextets * (Digits + 1)
      /\ \E i \in 1 .. Len(t) : t[i] = Colon
  BY <1>0, <1>1, <1>2, <1>3 DEF NumeralsTell
<1>5. h \in Meant(t)
  <2>1. Plain(t)
    BY <1>4 DEF Plain
  <2> QED BY <1>4, <2>1, MeantIs
<1>6. Len(t) <= Limit + 1
  <2> PICK D \in Nat : D = Digits
    BY <1>0
  <2> PICK H \in Nat : H = Hextets
    BY <1>0
  <2> PICK L \in Nat : L = Len(t)
    BY <1>4
  <2>1. H * (D + 1) = H * D + H /\ H * D \in Nat
    BY ONLY H \in Nat, D \in Nat
  <2>2. L + 1 <= H * D + H
    BY <1>4, <2>1
  <2>3. L <= (H * D + H - 2) + 1
    BY <2>1, <2>2
  <2> QED BY <2>3 DEF Limit
<1> QED BY <1>4, <1>5, <1>6 DEF Telling

\* The numbers before z zeros and those behind them.
Surround(a, b, h, H, x, z) ==
  /\ a \in Seq(Nat) /\ Len(a) = x /\ b \in Seq(Nat) /\ Len(b) = H - x - z
  /\ \A i \in 1 .. Len(a) : \E j \in 1 .. H : a[i] = h[j]
  /\ \A i \in 1 .. Len(b) : \E j \in 1 .. H : b[i] = h[j]
  /\ a \o [i \in 1 .. z |-> 0] \o b = h

\* Zeros between the two parts make up the address.
LEMMA AroundZeros ==
  ASSUME NEW H \in Nat, NEW h \in Seq(Nat), Len(h) = H, NEW x \in Nat, NEW z \in Nat, x + z <= H,
         \A i \in x + 1 .. x + z : h[i] = 0
  PROVE  Surround(SubSeq(h, 1, x), SubSeq(h, x + z + 1, H), h, H, x, z)
<1> PICK y \in Nat : y = H - x - z
  OBVIOUS
<1> PICK s \in Nat : s = x + z + 1
  OBVIOUS
<1> PICK a : a = SubSeq(h, 1, x)
  OBVIOUS
<1> PICK b : b = SubSeq(h, s, H)
  OBVIOUS
<1>1. a \in Seq(Nat) /\ Len(a) = x /\ \A i \in 1 .. x : a[i] = h[i]
  <2>1. \A i \in 1 .. x : h[i] \in Nat
    <3>1. \A i \in 1 .. x : i \in 1 .. H
      OBVIOUS
    <3> QED BY <3>1
  <2>2. a \in Seq(Nat) /\ Len(a) = (IF 1 <= x THEN x - 1 + 1 ELSE 0) /\ \A i \in 1 .. x - 1 + 1 : a[i] = h[1 + i - 1]
    <3>1. 1 \in Int /\ x \in Int
      OBVIOUS
    <3> QED BY ONLY <2>1, <3>1, a = SubSeq(h, 1, x), SubSeqProperties
  <2>3. Len(a) = x
    BY <2>2
  <2>4. ASSUME NEW i \in 1 .. x PROVE a[i] = h[i]
    <3>1. i \in 1 .. x - 1 + 1 /\ 1 + i - 1 = i
      OBVIOUS
    <3> QED BY <2>2, <3>1
  <2> QED BY <2>2, <2>3, <2>4
<1>2. b \in Seq(Nat) /\ Len(b) = y /\ \A i \in 1 .. y : b[i] = h[x + z + i]
  <2>1. \A i \in s .. H : h[i] \in Nat
    <3>1. \A i \in s .. H : i \in 1 .. H
      OBVIOUS
    <3> QED BY <3>1
  <2>2. b \in Seq(Nat) /\ Len(b) = (IF s <= H THEN H - s + 1 ELSE 0) /\ \A i \in 1 .. H - s + 1 : b[i] = h[s + i - 1]
    <3>1. s \in Int /\ H \in Int
      OBVIOUS
    <3> QED BY ONLY <2>1, <3>1, b = SubSeq(h, s, H), SubSeqProperties
  <2>3. Len(b) = y
    BY <2>2
  <2>4. ASSUME NEW i \in 1 .. y PROVE b[i] = h[x + z + i]
    <3>1. i \in 1 .. H - s + 1 /\ s + i - 1 = x + z + i
      OBVIOUS
    <3> QED BY <2>2, <3>1
  <2> QED BY <2>2, <2>3, <2>4
<1> PICK Z : Z = [i \in 1 .. z |-> 0]
  OBVIOUS
<1>3. Z \in Seq(Nat) /\ Len(Z) = z /\ \A i \in 1 .. z : Z[i] = 0
  BY ZerosType
<1> PICK R : R = a \o Z \o b
  OBVIOUS
<1>4. /\ R \in Seq(Nat) /\ Len(R) = x + z + y
      /\ \A i \in 1 .. x : R[i] = a[i]
      /\ \A i \in 1 .. z : R[x + i] = Z[i]
      /\ \A i \in 1 .. y : R[x + z + i] = b[i]
  <2>1. /\ R \in Seq(Nat) /\ Len(R) = Len(a) + Len(Z) + Len(b)
        /\ \A i \in 1 .. Len(a) : R[i] = a[i]
        /\ \A i \in 1 .. Len(Z) : R[Len(a) + i] = Z[i]
        /\ \A i \in 1 .. Len(b) : R[Len(a) + Len(Z) + i] = b[i]
    <3>1. a \in Seq(Nat) /\ Z \in Seq(Nat) /\ b \in Seq(Nat)
      BY <1>1, <1>2, <1>3
    <3> QED BY ONLY <3>1, R = a \o Z \o b, JoinedSeqs, SMTT(60)
  <2>2. Len(a) = x /\ Len(Z) = z /\ Len(b) = y
    BY <1>1, <1>2, <1>3
  <2> QED BY ONLY <2>1, <2>2
<1>5. ASSUME NEW i \in 1 .. H PROVE R[i] = h[i]
  <2>1. CASE i <= x
    <3>1. i \in 1 .. x
      BY <2>1
    <3> QED BY <1>1, <1>4, <3>1
  <2>2. CASE x < i /\ i <= x + z
    <3> PICK j \in 1 .. z : i = x + j
      <4>1. i - x \in 1 .. z /\ i = x + (i - x)
        BY <2>2
      <4> QED BY <4>1
    <3>1. R[i] = 0
      BY <1>3, <1>4
    <3>2. i \in x + 1 .. x + z
      BY <2>2
    <3> QED BY <3>1, <3>2
  <2>3. CASE x + z < i
    <3> PICK j \in 1 .. y : i = x + z + j
      <4>1. i - (x + z) \in 1 .. y /\ i = x + z + (i - (x + z))
        BY <2>3
      <4> QED BY <4>1
    <3> QED BY <1>2, <1>4
  <2> QED BY <2>1, <2>2, <2>3, SMTT(60)
<1>6. R = h
  <2>1. Len(R) = Len(h) /\ \A i \in 1 .. Len(R) : R[i] = h[i]
    BY <1>4, <1>5, SMTT(60)
  <2> QED BY <1>4, <2>1, SeqEqual
<1>7. ASSUME NEW i \in 1 .. Len(a) PROVE \E j \in 1 .. H : a[i] = h[j]
  <2>1. i \in 1 .. x /\ i \in 1 .. H
    BY <1>1
  <2> QED BY <1>1, <2>1
<1>8. ASSUME NEW i \in 1 .. Len(b) PROVE \E j \in 1 .. H : b[i] = h[j]
  <2>1. i \in 1 .. y /\ x + z + i \in 1 .. H
    BY <1>2
  <2> QED BY <1>2, <2>1
<1> QED BY <1>1, <1>2, <1>6, <1>7, <1>8 DEF Surround

\* The text with an ellipsis for z zeros behind the first x hextets.
Elided(h, x, z) ==
  Numerals(SubSeq(h, 1, x)) \o <<Colon, Colon>> \o Numerals(SubSeq(h, x + z + 1, Hextets))

\* So do the hextets around an ellipsis for two zeros or more.
LEMMA AroundWritten ==
  ASSUME NEW h \in [1 .. Hextets -> Written], NEW x \in Nat, NEW z \in Nat, z > 1, x + z <= Hextets,
         \A i \in x + 1 .. x + z : h[i] = 0
  PROVE  Telling(Elided(h, x, z), h)
<1>0. Hextets \in Nat /\ Hextets > 2 /\ Digits \in Nat \ {0}
  BY IpAssumption
<1> PICK H \in Nat : H = Hextets
  BY <1>0
<1>1. h \in Seq(Nat) /\ Len(h) = H /\ \A j \in 1 .. H : h[j] < Place[Digits]
  <2>1. h \in [1 .. H -> Nat] /\ \A i \in 1 .. H : h[i] < Place[Digits]
    <3>1. \A v \in Written : v \in Nat /\ v < Place[Digits]
      BY WrittenIs DEF Written
    <3> QED BY <3>1
  <2>2. h \in Seq(Nat) /\ Len(h) = H
    BY ONLY H \in Nat, <2>1
  <2> QED BY <2>1, <2>2
<1> PICK a : a = SubSeq(h, 1, x)
  OBVIOUS
<1> PICK b : b = SubSeq(h, x + z + 1, H)
  OBVIOUS
<1>2. /\ a \in Seq(Nat) /\ Len(a) = x /\ b \in Seq(Nat) /\ Len(b) = H - x - z
      /\ \A i \in 1 .. Len(a) : \E j \in 1 .. H : a[i] = h[j]
      /\ \A i \in 1 .. Len(b) : \E j \in 1 .. H : b[i] = h[j]
      /\ a \o [i \in 1 .. z |-> 0] \o b = h
  <2>1. Surround(a, b, h, H, x, z)
    BY <1>1, AroundZeros
  <2> QED BY <2>1 DEF Surround
<1> PICK A : A = Numerals(a)
  OBVIOUS
<1> PICK B : B = Numerals(b)
  OBVIOUS
<1> PICK t : t = Elided(h, x, z)
  OBVIOUS
<1>3. NumeralsTell(A, a) /\ NumeralsTell(B, b)
  <2>1. \A i \in 1 .. Len(a) : a[i] < Place[Digits]
    BY <1>1, <1>2
  <2>2. \A i \in 1 .. Len(b) : b[i] < Place[Digits]
    BY <1>1, <1>2
  <2> QED BY <1>2, <2>1, <2>2, NumeralsRead
<1>4. /\ A \in Seq(Nat) /\ AreHextets(Fields(A)) /\ ValuesOf(Fields(A)) = a /\ Len(Fields(A)) = Len(a)
      /\ Len(A) <= Len(a) * (Digits + 1)
      /\ B \in Seq(Nat) /\ AreHextets(Fields(B)) /\ ValuesOf(Fields(B)) = b /\ Len(Fields(B)) = Len(b)
      /\ Len(B) <= Len(b) * (Digits + 1)
      /\ b # <<>> => Len(B) > 0 /\ B[Len(B)] # Colon
      /\ b = <<>> => B = <<>>
  BY <1>3 DEF NumeralsTell, Numerals
<1> PICK m \in Nat : m = Len(A)
  BY <1>4
<1> PICK n \in Nat : n = Len(B)
  BY <1>4
<1>5. Spaced(A, B, t)
  <2>1. t = A \o <<Colon, Colon>> \o B
    BY DEF Elided
  <2> QED BY <1>4, <2>1, SpacedIs
<1>6. /\ t \in Seq(Nat) /\ Len(t) = m + 2 + n
      /\ t[m + 1] = Colon /\ t[m + 2] = Colon
      /\ SubSeq(t, 1, m) = A /\ SubSeq(t, m + 3, Len(t)) = B
      /\ \A j \in 1 .. n : t[m + 2 + j] = B[j]
  BY <1>5 DEF Spaced
<1> PICK i \in Nat : i = m + 1
  OBVIOUS
<1>7. Front1(t, i) = Fields(A) /\ Behind(t, i) = Fields(B)
  <2>1. i - 1 = m /\ i + 2 = m + 3
    OBVIOUS
  <2> QED BY <1>6, <2>1 DEF Front1, Behind
<1>8. Around(t, i)
  <2>1. i \in 1 .. Len(t) - 1 /\ t[i] = Colon /\ t[i + 1] = Colon
    <3>1. i + 1 = m + 2
      OBVIOUS
    <3>2. i \in 1 .. Len(t) - 1
      BY <1>6, SMTT(60)
    <3> QED BY <1>6, <3>1, <3>2
  <2>2. Len(a) + Len(b) < Hextets
    BY <1>2
  <2> QED BY <1>4, <1>7, <2>1, <2>2 DEF Around
<1>9. h = Filled(Front1(t, i), Behind(t, i))
  <2>1. Hextets - Len(a) - Len(b) = z
    BY <1>2, SMTT(60)
  <2> QED BY <1>2, <1>4, <1>7, <2>1, ZenonT(60) DEF Filled
<1>10. h \in Meant(t)
  BY <1>8, <1>9, MeantIs
<1>11. Len(t) <= Limit + 1
  <2> PICK D \in Nat \ {0} : D = Digits
    BY <1>0
  <2> PICK y \in Nat : y = H - x - z
    OBVIOUS
  <2> PICK p \in Nat : p = x * (D + 1)
    BY ONLY x \in Nat, D \in Nat
  <2> PICK q \in Nat : q = y * (D + 1)
    BY ONLY y \in Nat, D \in Nat
  <2> PICK r \in Nat : r = z * (D + 1)
    BY ONLY z \in Nat, D \in Nat
  <2>1. H * D + H = p + q + r
    <3>1. H = x + y + z
      OBVIOUS
    <3>2. H * D + H = H * (D + 1)
      BY ONLY H \in Nat, D \in Nat
    <3>3. (x + y + z) * (D + 1) = x * (D + 1) + y * (D + 1) + z * (D + 1)
      BY ONLY x \in Nat, y \in Nat, z \in Nat, D \in Nat
    <3> QED BY <3>1, <3>2, <3>3
  <2>2. r >= 4
    <3> PICK w \in Nat : z = w + 2
      <4>1. z - 2 \in Nat /\ z = (z - 2) + 2
        OBVIOUS
      <4> QED BY <4>1
    <3>1. r = w * (D + 1) + 2 * (D + 1) /\ w * (D + 1) \in Nat
      BY ONLY r = z * (D + 1), z = w + 2, w \in Nat, D \in Nat
    <3>2. 2 * (D + 1) >= 4
      OBVIOUS
    <3> QED BY ONLY <3>1, <3>2, D \in Nat, r \in Nat
  <2>3. m <= p /\ n <= q
    BY <1>2, <1>4
  <2> PICK k \in Nat : k = H * D
    OBVIOUS
  <2>4. k + H = p + q + r
    BY <2>1
  <2>5. m + 2 + n <= (k + H - 2) + 1
    BY ONLY <2>2, <2>3, <2>4, k \in Nat, H \in Nat, p \in Nat, q \in Nat, r \in Nat, m \in Nat, n \in Nat
  <2>6. Limit = k + H - 2
    BY DEF Limit
  <2> QED BY <1>6, <2>5, <2>6
<1>12. t[Len(t)] = Colon => t[Len(t) - 1] = Colon
  <2>1. CASE b = <<>>
    <3>1. n = 0
      BY <1>4, <2>1
    <3>2. Len(t) = m + 2 /\ Len(t) - 1 = m + 1
      BY <1>6, <3>1
    <3> QED BY <1>6, <3>2
  <2>2. CASE b # <<>>
    <3>1. n \in 1 .. n /\ B[n] # Colon
      BY <1>4, <2>2
    <3>2. t[Len(t)] = B[n]
      BY <1>6, <3>1
    <3> QED BY <3>1, <3>2
  <2> QED BY <2>1, <2>2
<1>13. \E j \in 1 .. Len(t) : t[j] = Colon
  <2>1. m + 1 \in 1 .. Len(t)
    BY <1>6, SMTT(60)
  <2> QED BY <1>6, <2>1
<1> QED BY <1>6, <1>10, <1>11, <1>12, <1>13 DEF Telling

\* An IPv4 address mapped into IPv6 is written with colons and dots.
LEMMA MappedWritten ==
  ASSUME NEW h \in [1 .. Hextets -> Nat], Mapped(h)
  PROVE  LET t == Display(V6(h))
         IN  /\ t \in Seq(Nat)
             /\ \E i \in 1 .. Len(t) : t[i] = Colon
             /\ \E i \in 1 .. Len(t) : t[i] = Dot
<1>0. Hextets \in Nat /\ Hextets - 2 \in 1 .. Hextets /\ Hextets - 1 \in 1 .. Hextets /\ Hextets \in 1 .. Hextets
  BY IpAssumption
<1>1. h[Hextets - 2] \in Nat /\ h[Hextets - 1] \in Nat /\ h[Hextets] \in Nat
  BY <1>0
<1> PICK q : q = Place[Digits \div 2]
  OBVIOUS
<1>2. q \in Nat \ {0}
  <2>1. Digits \div 2 \in Nat
    BY IpAssumption
  <2> QED BY <2>1, PlaceIs
<1>3. OctetsOf(h) \in [1 .. 4 -> Nat]
  <2> PICK x \in Nat : x = h[Hextets - 1]
    BY <1>1
  <2> PICK y \in Nat : y = h[Hextets]
    BY <1>1
  <2>1. OctetsOf(h) = <<x \div q, x % q, y \div q, y % q>>
    BY DEF OctetsOf
  <2>2. \A v \in Nat : v \div q \in Nat /\ v % q \in Nat
    BY <1>2
  <2>3. x \div q \in Nat /\ x % q \in Nat /\ y \div q \in Nat /\ y % q \in Nat
    BY <2>2
  <2>4. \A c1, c2, c3, c4 \in Nat : <<c1, c2, c3, c4>> \in [1 .. 4 -> Nat]
    OBVIOUS
  <2> QED BY <2>1, <2>3, <2>4
<1> PICK N : N = Numeral(h[Hextets - 2], 16)
  OBVIOUS
<1>4. N \in Seq(Nat)
  <2>1. 16 \in {10, 16}
    OBVIOUS
  <2> QED BY <1>1, <2>1, NumeralType
<1> PICK v : v = ipv4_to_str(OctetsOf(h))
  OBVIOUS
<1>5. v \in Seq(Nat) /\ \E i \in 1 .. Len(v) : v[i] = Dot
  BY <1>3, OctetsTell
<1> PICK Z : Z = <<Colon, Colon>>
  OBVIOUS
<1> PICK Y : Y = N \o <<Colon>>
  OBVIOUS
<1> PICK t : t = Display(V6(h))
  OBVIOUS
<1>6. Z \in Seq(Nat) /\ Len(Z) = 2 /\ Z[1] = Colon /\ Y \in Seq(Nat)
  <2>1. Colon \in Nat
    BY DEF Colon
  <2>2. Z \in Seq(Nat) /\ Len(Z) = 2 /\ Z[1] = Colon
    BY <2>1
  <2>3. Y \in Seq(Nat)
    BY <1>4, <2>1
  <2> QED BY <2>2, <2>3
<1>7. t = Z \o Y \o v
  <2>1. ipv6_to_str(h) = Z \o N \o <<Colon>> \o v
    BY DEF ipv6_to_str
  <2>2. <<Colon>> \in Seq(Nat)
    BY DEF Colon
  <2>3. Z \o N \o <<Colon>> = Z \o Y
    BY ONLY <1>4, <1>6, <2>2, Y = N \o <<Colon>>, SMTT(60)
  <2> QED BY <2>1, <2>3 DEF Display, V6
<1>8. /\ t \in Seq(Nat) /\ Len(t) = Len(Z) + Len(Y) + Len(v)
      /\ \A i \in 1 .. Len(Z) : t[i] = Z[i]
      /\ \A i \in 1 .. Len(v) : t[Len(Z) + Len(Y) + i] = v[i]
  <2>1. v \in Seq(Nat) /\ Y \in Seq(Nat) /\ Z \in Seq(Nat)
    BY <1>5, <1>6
  <2>2. LET R == Z \o Y \o v
        IN  /\ R \in Seq(Nat) /\ Len(R) = Len(Z) + Len(Y) + Len(v)
            /\ \A i \in 1 .. Len(Z) : R[i] = Z[i]
            /\ \A i \in 1 .. Len(Y) : R[Len(Z) + i] = Y[i]
            /\ \A i \in 1 .. Len(v) : R[Len(Z) + Len(Y) + i] = v[i]
    BY ONLY <2>1, JoinedSeqs, Zenon
  <2> QED BY ONLY <1>7, <2>2, Zenon
<1> PICK m \in Nat : m = Len(Y)
  BY <1>6
<1> PICK n \in Nat : n = Len(v)
  BY <1>5
<1>9. \E i \in 1 .. Len(t) : t[i] = Colon
  <2>1. 1 \in 1 .. Len(t) /\ 1 \in 1 .. Len(Z)
    BY <1>6, <1>8
  <2> QED BY <1>6, <1>8, <2>1
<1>10. \E i \in 1 .. Len(t) : t[i] = Dot
  <2> PICK i \in 1 .. n : v[i] = Dot
    BY <1>5
  <2>1. Len(t) = 2 + m + n
    BY <1>6, <1>8
  <2>2. 2 + m + i \in 1 .. 2 + m + n
    OBVIOUS
  <2>3. t[2 + m + i] = Dot
    BY <1>6, <1>8
  <2> QED BY <2>1, <2>2, <2>3
<1> QED BY <1>8, <1>9, <1>10

\* Reading what is written as it has to be: h, if the text is not too long.
LEMMA ToldRead ==
  ASSUME NEW t, NEW h, NEW r, Telling(t, h), Outcome(t, r)
  PROVE  r = V6(h) \/ (Len(t) = Limit + 1 /\ r = Err)
<1>1. /\ t \in Seq(Nat) /\ h \in Meant(t) /\ Len(t) <= Limit + 1 /\ Len(t) \in Nat
      /\ \E i \in 1 .. Len(t) : t[i] = Colon
      /\ t[Len(t)] = Colon => t[Len(t) - 1] = Colon
  BY DEF Telling
<1>2. ipv4_from_str(t) = Err
  BY <1>1, Ipv4Is
<1>3. Lax(t) = {}
  BY <1>1 DEF Lax, Last
<1>4. IF Len(t) > Limit THEN r = Err ELSE \E g \in Meant(t) : r = V6(g)
  <2>1. Meant(t) \cup Lax(t) = Meant(t) /\ Meant(t) # {}
    BY <1>1, <1>3
  <2> QED BY <1>2, <2>1 DEF Outcome
<1>5. CASE Len(t) > Limit
  <2>1. Len(t) = Limit + 1
    BY <1>1, <1>5, LimitIsInt
  <2> QED BY <1>4, <1>5, <2>1
<1>6. CASE ~(Len(t) > Limit)
  BY <1>1, <1>4, <1>6, MeantOne
<1> QED BY <1>5, <1>6

\* How an address without dots is written tells which one it is.
LEMMA DisplayTells ==
  ASSUME NEW h \in [1 .. Hextets -> Written], ~Mapped(h)
  PROVE  Telling(Display(V6(h)), h)
<1>0. Hextets \in Nat
  BY IpAssumption
<1>1. Display(V6(h)) = ipv6_to_str(h)
  BY DEF Display, V6
<1>2. CASE ZeroRuns(h) = {}
  <2>1. ipv6_to_str(h) = Numerals(h)
    BY <1>2 DEF ipv6_to_str
  <2> QED BY <1>1, <2>1, PlainWritten
<1>3. CASE ZeroRuns(h) # {}
  <2> PICK runs : runs = ZeroRuns(h)
    OBVIOUS
  <2> DEFINE Longest(r) == \A q \in runs : q[2] < r[2] \/ (q[2] = r[2] /\ r[1] <= q[1])
             run == CHOOSE r \in runs : Longest(r)
  <2>1. \A r \in runs : r[1] \in 1 .. Hextets /\ r[2] \in 2 .. Hextets /\ r \in Nat \X Nat /\ r[2] <= Hextets
                        /\ r[1] + r[2] - 1 <= Hextets /\ \A i \in r[1] .. r[1] + r[2] - 1 : h[i] = 0
    BY <1>0 DEF ZeroRuns
  <2>2. \E r \in runs : Longest(r)
    <3>1. runs \subseteq Nat \X Nat /\ runs # {} /\ \A r \in runs : r[2] <= Hextets
      <4>1. \A r \in runs : r \in Nat \X Nat /\ r[2] <= Hextets
        BY <2>1
      <4> QED BY <1>3, <4>1
    <3> QED BY <1>0, <3>1, LongestRun
  <2>3. run \in runs
    BY <2>2
  <2>4. ipv6_to_str(h) = Numerals(SubSeq(h, 1, run[1] - 1)) \o <<Colon, Colon>>
                           \o Numerals(SubSeq(h, run[1] + run[2], Hextets))
    BY <1>3 DEF ipv6_to_str
  <2> HIDE DEF run
  <2>5. /\ run[1] \in 1 .. Hextets /\ run[2] \in 2 .. Hextets /\ run[1] + run[2] - 1 <= Hextets
        /\ \A i \in run[1] .. run[1] + run[2] - 1 : h[i] = 0
    BY <2>1, <2>3
  <2> PICK y \in Nat \ {0} : y = run[1]
    BY <2>5
  <2> PICK z \in Nat : z = run[2]
    BY <2>5
  <2> PICK x \in Nat : x = y - 1
    OBVIOUS
  <2>6. z > 1 /\ x + z <= Hextets /\ x + 1 = y /\ x + z = y + z - 1 /\ y + z = x + z + 1
    <3>1. z \in 2 .. Hextets /\ y + z - 1 <= Hextets
      BY <2>5
    <3> PICK H \in Nat : H = Hextets
      BY <1>0
    <3>2. z > 1
      BY <1>0, <3>1
    <3>3. x + z = y + z - 1 /\ x + 1 = y /\ y + z = x + z + 1
      BY ONLY y \in Nat \ {0}, z \in Nat, x \in Nat, x = y - 1
    <3> QED BY <3>1, <3>2, <3>3
  <2>7. \A i \in x + 1 .. x + z : h[i] = 0
    BY <2>5, <2>6
  <2>8. ipv6_to_str(h) = Elided(h, x, z)
    BY <2>4, <2>6 DEF Elided
  <2> QED BY <1>1, <2>6, <2>7, <2>8, AroundWritten, ZenonT(60)
<1> QED BY <1>2, <1>3

\* Reading what was written of an IPv6 address.
LEMMA WrittenRead ==
  ASSUME NEW h \in [1 .. Hextets -> Written], NEW r, Outcome(Display(V6(h)), r)
  PROVE  r = V6(h) \/ ((Len(Display(V6(h))) = Limit + 1 \/ Mapped(h)) /\ r = Err)
<1> PICK t : t = Display(V6(h))
  OBVIOUS
<1>1. CASE Mapped(h)
  <2>1. h \in [1 .. Hextets -> Nat]
    BY WrittenIs
  <2>2. t \in Seq(Nat) /\ (\E i \in 1 .. Len(t) : t[i] = Colon) /\ \E i \in 1 .. Len(t) : t[i] = Dot
    BY <1>1, <2>1, MappedWritten
  <2>3. ipv4_from_str(t) = Err
    BY <2>2, Ipv4Is
  <2>4. ~is_hex_digit(Dot) /\ Dot # Colon
    BY DEF is_hex_digit, Dot, Colon
  <2>5. ~Possible(t)
    BY <2>2, <2>4 DEF Possible
  <2>6. Meant(t) \cup Lax(t) = {}
    BY <2>2, <2>5, PossibleIs
  <2> QED BY <1>1, <2>3, <2>6 DEF Outcome
<1>2. CASE ~Mapped(h)
  BY <1>2, DisplayTells, ToldRead
<1> QED BY <1>1, <1>2
-----------------------------------------------------------------------------
(* What is asked about, once an address was shown, is what was written.    *)

\* An address of bytes, or of hextets, as from_ip_str answers with.
Fits(r) == \/ \E o \in [1 .. 4 -> 0 .. 255] : r = V4(o)
           \/ \E h \in [1 .. Hextets -> Written] : r = V6(h)

Shown ==
  /\ shown # Err => Fits(shown) /\ text = Display(shown)
  /\ at = "done" /\ ipv4_from_str(text) # Err => result = ipv4_from_str(text)

\* An IPv4 address is not an error, nor an IPv6 address.
LEMMA Kinds == \A o, h : V4(o) # Err /\ V6(h) # Err /\ V4(o) # V6(h)
<1>1. ASSUME NEW o, NEW h PROVE V4(o) # Err /\ V6(h) # Err /\ V4(o) # V6(h)
  <2>1. V4(o).is = "V4" /\ V6(h).is = "V6" /\ Err.is = "Err"
    BY DEF V4, V6, Err
  <2> QED BY <2>1
<1> QED BY <1>1

\* What is answered can be written.
LEMMA AnswerFits ==
  ASSUME Meaning, Shown, at = "done", result # Err
  PROVE  Fits(result)
<1>1. text \in Seq(Nat) /\ Outcome(text, result) /\ Answer(result)
  BY DEF Meaning
<1>2. CASE ipv4_from_str(text) # Err
  <2>1. result = ipv4_from_str(text)
    BY <1>2 DEF Shown
  <2> QED BY <1>1, <1>2, <2>1, Ipv4Fits DEF Fits
<1>3. CASE ipv4_from_str(text) = Err
  <2>1. PICK h \in Meant(text) \cup Lax(text) : result = V6(h)
    BY <1>1, <1>3 DEF Outcome
  <2>2. PICK g \in [1 .. Hextets -> Nat] : result = V6(g)
    BY <1>1, <2>1, Kinds DEF Answer
  <2>3. g \in [1 .. Hextets -> Written]
    BY <1>1, <2>1, <2>2, AnyMeantFits
  <2> QED BY <2>2, <2>3 DEF Fits
<1> QED BY <1>2, <1>3

\* Nothing was shown when the first text is asked about.
LEMMA ShownInit == Init => Shown
  BY DEF Init, Shown

\* A step of the loop asks about no other text.
LEMMA KeptShown ==
  ASSUME Shown, text' = text, shown' = shown, at' # "done"
  PROVE  Shown'
  BY DEF Shown

\* An answer of ipv6_from_str is one to a text that is no IPv4 address.
LEMMA ReturnsShown ==
  ASSUME NEW answer, Shown, Returns(answer), ipv4_from_str(text) # Err => answer = ipv4_from_str(text)
  PROVE  Shown'
<1>1. at' = "done" /\ result' = answer /\ text' = text /\ shown' = shown
  BY DEF Returns
<1> QED BY <1>1 DEF Shown

\* Every step keeps what was shown in line with the text.
LEMMA ShownStep == Meaning /\ Shown /\ [Next]_vars => Shown'
<1> SUFFICES ASSUME Meaning, Shown, [Next]_vars PROVE Shown'
  OBVIOUS
<1>0. at \in {"loop", "last"} => ipv4_from_str(text) = Err
  BY DEF Meaning
<1>1. CASE Short
  <2>1. CASE ipv4_from_str(text) # Err /\ Returns(ipv4_from_str(text))
    BY <2>1, ReturnsShown
  <2>2. CASE ipv4_from_str(text) = Err /\ Returns(Err)
    BY <2>2, ReturnsShown
  <2>3. CASE text = <<Colon, Colon>> /\ Returns(V6(AsNumber(Zero)))
    <3>1. text \in Seq(Nat) /\ 1 \in 1 .. Len(text) /\ text[1] = Colon
      BY <2>3 DEF Meaning
    <3>2. ipv4_from_str(text) = Err
      BY <3>1, Ipv4Is
    <3> QED BY <2>3, <3>2, ReturnsShown
  <2> QED BY <1>1, <2>1, <2>2, <2>3 DEF Short
<1>2. CASE Begin
  <2>1. text' = text /\ shown' = shown /\ at' # "done"
    BY <1>2 DEF Begin
  <2> QED BY <2>1, KeptShown
<1>3. CASE EndOfText
  <2>1. text' = text /\ shown' = shown /\ at' # "done"
    BY <1>3 DEF EndOfText
  <2> QED BY <2>1, KeptShown
<1>4. CASE Ellipsis
  <2>1. CASE Returns(Err)
    BY <1>0, <1>4, <2>1, ReturnsShown DEF Ellipsis
  <2>2. CASE UNCHANGED <<text, at, address, hextet_index, result, shown>>
    <3>1. text' = text /\ shown' = shown /\ at' # "done"
      BY <1>4, <2>2 DEF Ellipsis
    <3> QED BY <3>1, KeptShown
  <2> QED BY <1>4, <2>1, <2>2 DEF Ellipsis
<1>5. CASE NoHextet
  BY <1>0, <1>5, ReturnsShown DEF NoHextet
<1>6. ASSUME NEW n \in 1 .. Digits, ReadHextet(n) PROVE Shown'
  <2>1. text' = text /\ shown' = shown /\ at' # "done"
    BY <1>6 DEF ReadHextet
  <2> QED BY <2>1, KeptShown
<1>7. ASSUME NEW n \in 1 .. Digits, ReadIpv4(n) PROVE Shown'
  <2>1. CASE Len(text) - offset # 4
    BY <1>0, <1>7, <2>1, ReturnsShown DEF ReadIpv4
  <2>2. CASE Len(text) - offset = 4
    <3>1. text' = text /\ shown' = shown /\ at' # "done"
      BY <1>7, <2>2 DEF ReadIpv4
    <3> QED BY <3>1, KeptShown
  <2> QED BY <2>1, <2>2
<1>8. ASSUME NEW n \in 1 .. Digits, Unexpected(n) PROVE Shown'
  BY <1>0, <1>8, ReturnsShown DEF Unexpected
<1>9. CASE Finish
  <2>1. at = "last" /\ \E answer : Returns(answer)
    BY <1>9 DEF Finish
  <2> QED BY <1>0, <2>1, ReturnsShown
<1>10. CASE Relay
  <2>1. at = "done" /\ result # Err /\ text' = Display(result) /\ shown' = result /\ at' = "asked"
    BY <1>10 DEF Relay
  <2>2. Fits(result)
    BY <2>1, AnswerFits
  <2> QED BY <2>1, <2>2 DEF Shown
<1>11. CASE UNCHANGED vars
  <2>1. text' = text /\ at' = at /\ result' = result /\ shown' = shown
    BY <1>11 DEF vars
  <2> QED BY <2>1 DEF Shown
<1> QED
  BY <1>1, <1>2, <1>3, <1>4, <1>5, <1>6, <1>7, <1>8, <1>9, <1>10, <1>11 DEF Next, Step

\* What was shown is read back.
LEMMA ShownIsRead == Meaning /\ Shown => ReadBack
<1> SUFFICES ASSUME Meaning, Shown, at = "done", shown # Err
             PROVE  \/ result = shown
                    \/ shown.is = "V6" /\ (Len(text) = Limit + 1 \/ Mapped(shown.val)) /\ result = Err
  BY DEF ReadBack
<1>1. Fits(shown) /\ text = Display(shown) /\ Outcome(text, result)
  BY DEF Meaning, Shown
<1>2. ASSUME NEW o \in [1 .. 4 -> 0 .. 255], shown = V4(o) PROVE result = shown
  <2>1. text = ipv4_to_str(o)
    BY <1>1, <1>2 DEF Display, V4
  <2>2. ipv4_from_str(text) = V4(o) /\ V4(o) # Err
    BY <2>1, OctetsRead, Kinds
  <2> QED BY <1>2, <2>2 DEF Shown
<1>3. ASSUME NEW h \in [1 .. Hextets -> Written], shown = V6(h)
      PROVE  \/ result = shown
             \/ shown.is = "V6" /\ (Len(text) = Limit + 1 \/ Mapped(shown.val)) /\ result = Err
  <2>1. shown.is = "V6" /\ shown.val = h
    BY <1>3 DEF V6
  <2>2. result = V6(h) \/ ((Len(text) = Limit + 1 \/ Mapped(h)) /\ result = Err)
    BY <1>1, <1>3, WrittenRead
  <2> QED BY <1>3, <2>1, <2>2
<1> QED BY <1>1, <1>2, <1>3 DEF Fits

(* An address that from_ip_str answered with, and that was then written as *)
(* Display and Serialize of ip.rs do, is read back by another tool as the  *)
(* same address (utils.rs:20-237): but for a text of the greatest length,  *)
(* which is one over the limit, and for an IPv4 address mapped into IPv6,  *)
(* both of which are refused and never taken for another address.          *)
THEOREM ReadBackAlways == Spec => []ReadBack
  BY ReadingInit, ReadingStep, MeaningInit, MeaningStep, ShownInit, ShownStep, ShownIsRead, PTL DEF Spec
=============================================================================
