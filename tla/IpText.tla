-------------------------------- MODULE IpText ---------------------------------
(***************************************************************************)
(* src/field/utils.rs and src/field/ip.rs: how the text of an IP address   *)
(* is read.  from_ip_str tries ipv4_from_str and then ipv6_from_str, whose *)
(* loop is one action per way an iteration goes.  A text is the sequence   *)
(* of its bytes; a u32 is the sequence of its four bytes, a u128 that of   *)
(* its hextets.                                                            *)
(* A definition X_<bug> before a definition X is X with a plausible bug.   *)
(***************************************************************************)
EXTENDS Integers, Sequences, SequencesExt

CONSTANTS
  Texts,    \* texts tools ask about
  Hextets,  \* hextets of an address: 8 in the code
  Digits    \* digits of a hextet: 4 in the code

ASSUME IpAssumption ==
  /\ Hextets \in Nat \ {0, 1, 2} /\ Digits \in Nat \ {0}
  /\ \A t \in Texts : t \in Seq(Nat)

Colon == 58
Dot == 46
Plus == 43
Limit == Hextets * Digits + Hextets - 2      \* 38

is_hex_digit(b) == b \in 48 .. 57 \cup 97 .. 102 \cup 65 .. 70
hex_to_digit(b) == CASE b \in 48 .. 57 -> b - 48
                     [] b \in 97 .. 102 -> b - 87
                     [] b \in 65 .. 70 -> b - 55

Err == [is |-> "Err"]
V4(octets) == [is |-> "V4", val |-> octets]
V6(hextets) == [is |-> "V6", val |-> hextets]
None == -1                                   \* Option::None
-----------------------------------------------------------------------------
\* str::split
Split(t, byte) ==
  LET cuts == {i \in DOMAIN t : t[i] = byte} \cup {0, Len(t) + 1}
      cut(k) == CHOOSE i \in cuts : Cardinality({j \in cuts : j < i}) = k
  IN  [k \in 1 .. Cardinality(cuts) - 1 |-> SubSeq(t, cut(k - 1) + 1, cut(k) - 1)]

\* What digits come to, read from the first to the last.
Accumulated(base, digits) ==
  LET n[k \in 0 .. Len(digits)] == IF k = 0 THEN 0 ELSE n[k - 1] * base + digits[k]
  IN  n[Len(digits)]

\* What a hexadecimal digit in front of i others counts.
Place[i \in Nat] == IF i = 0 THEN 1 ELSE 16 * Place[i - 1]

\* str::parse of an unsigned integer up to max.
parse(t, max) ==
  LET digits == IF Len(t) > 1 /\ t[1] = Plus THEN Tail(t) ELSE t
      value == Accumulated(10, [i \in DOMAIN digits |-> digits[i] - 48])
  IN  IF digits # <<>> /\ (\A i \in DOMAIN digits : digits[i] \in 48 .. 57) /\ value <= max
      THEN value ELSE None

\* The parts, the last one first, fill the u32 from its low end.
ipv4_from_str(t) ==
  LET octets == [i \in DOMAIN Split(t, Dot) |-> parse(Split(t, Dot)[i], 255)]
      n == Len(octets)
  IN  IF n > 4 \/ \E i \in 1 .. n : octets[i] = None THEN Err
      ELSE V4([i \in 1 .. 4 |-> IF i + n > 4 THEN octets[i + n - 4] ELSE 0])

\* An address and a port, the last colon between them.
parse_ipv4_port(t) ==
  LET colons == {i \in DOMAIN t : t[i] = Colon}
  IN  IF colons = {} THEN None
      ELSE LET pos == Max(colons)
               ip == ipv4_from_str(SubSeq(t, 1, pos - 1))
               port == parse(SubSeq(t, pos + 1, Len(t)), 65535)
           IN  IF ip = Err THEN None ELSE port
-----------------------------------------------------------------------------
VARIABLES
  text,          \* the argument
  at,            \* "asked", "loop", "last" (after the loop) or "done"
  offset,
  ellipsis,      \* index of the hextet it precedes, or None
  address,       \* address[i]: hextet i, from 0
  hextet_index,
  result,        \* what from_ip_str returns
  shown          \* the address text was written from, or Err

locals == <<offset, ellipsis, address, hextet_index>>
vars == <<text, at, locals, result, shown>>

Zero == [i \in 0 .. Hextets - 1 |-> 0]
Byte(o) == text[o + 1]                       \* bytes[o]
AsNumber(addr) == [i \in 1 .. Hextets |-> addr[i - 1]]

Init ==
  /\ text \in Texts
  /\ at = "asked"
  /\ offset = 0 /\ ellipsis = None /\ address = Zero /\ hextet_index = 0
  /\ result = Err /\ shown = Err

Returns(answer) ==
  /\ at' = "done" /\ result' = answer
  /\ UNCHANGED <<text, locals, shown>>

\* from_ip_str, up to the loop of ipv6_from_str.
Short ==
  /\ at = "asked"
  /\ \/ ipv4_from_str(text) # Err /\ Returns(ipv4_from_str(text))
     \/ /\ ipv4_from_str(text) = Err
        /\ \/ Len(text) > Limit \/ Len(text) < 2
           \/ Len(text) >= 2 /\ Byte(0) = Colon /\ Byte(1) # Colon
        /\ Returns(Err)
     \/ text = <<Colon, Colon>> /\ Returns(V6(AsNumber(Zero)))

Begin ==
  /\ at = "asked" /\ ipv4_from_str(text) = Err
  /\ Len(text) \in 2 .. Limit /\ (Byte(0) = Colon => Byte(1) = Colon /\ Len(text) > 2)
  /\ at' = "loop"
  /\ IF Byte(0) = Colon THEN ellipsis' = 0 /\ offset' = 2 ELSE ellipsis' = None /\ offset' = 0
  /\ address' = Zero /\ hextet_index' = 0
  /\ UNCHANGED <<text, result, shown>>
-----------------------------------------------------------------------------
\* read_hextet finds n digits at the offset, whose value is Hextet(n).
Digit(i) == offset + i <= Len(text) /\ is_hex_digit(text[offset + i])
Reads(n) == (\A i \in 1 .. n : Digit(i)) /\ (n = Digits \/ ~Digit(n + 1))
Hextet(n) == Accumulated(16, [i \in 1 .. n |-> hex_to_digit(text[offset + i])])

EndOfText ==
  /\ at = "loop" /\ offset = Len(text)
  /\ at' = "last" /\ UNCHANGED <<text, locals, result, shown>>

\* A colon where a hextet should be.
Ellipsis_Again ==
  /\ at = "loop" /\ offset # Len(text) /\ Reads(0) /\ Byte(offset) = Colon
  /\ ellipsis' = hextet_index /\ offset' = offset + 1
  /\ UNCHANGED <<text, at, address, hextet_index, result, shown>>
Ellipsis ==
  /\ at = "loop" /\ offset # Len(text) /\ Reads(0) /\ Byte(offset) = Colon
  /\ IF ellipsis # None THEN Returns(Err)
     ELSE /\ ellipsis' = hextet_index /\ offset' = offset + 1
          /\ UNCHANGED <<text, at, address, hextet_index, result, shown>>

NoHextet_Continue ==
  /\ at = "loop" /\ offset # Len(text) /\ Reads(0) /\ Byte(offset) # Colon
  /\ UNCHANGED vars
NoHextet ==
  /\ at = "loop" /\ offset # Len(text) /\ Reads(0) /\ Byte(offset) # Colon
  /\ Returns(Err)

\* A hextet of n digits; the loop goes on after a colon.
ReadHextet_TooMany(n) ==
  /\ at = "loop" /\ offset # Len(text) /\ Reads(n)
  /\ address' = [address EXCEPT ![hextet_index] = Hextet(n)]
  /\ hextet_index' = hextet_index + 1
  /\ \/ offset + n = Len(text) /\ at' = "last" /\ offset' = offset + n
     \/ /\ offset + n < Len(text)
        /\ Byte(offset + n) = Colon /\ offset' = offset + n + 1 /\ UNCHANGED at
  /\ UNCHANGED <<text, ellipsis, result, shown>>
ReadHextet(n) ==
  /\ at = "loop" /\ offset # Len(text) /\ Reads(n)
  /\ address' = [address EXCEPT ![hextet_index] = Hextet(n)]
  /\ hextet_index' = hextet_index + 1
  /\ \/ /\ hextet_index' = Hextets \/ offset + n = Len(text)
        /\ at' = "last" /\ offset' = offset + n
     \/ /\ hextet_index' # Hextets /\ offset + n < Len(text)
        /\ Byte(offset + n) = Colon /\ offset' = offset + n + 1 /\ UNCHANGED at
  /\ UNCHANGED <<text, ellipsis, result, shown>>

\* A hextet in front of a dot is taken for the first byte of an IPv4 address:
\* the four bytes at the offset, as they are, if there are four.
Word(i) == Byte(offset + i) * 256 + Byte(offset + i + 1)
ReadIpv4(n) ==
  /\ at = "loop" /\ offset # Len(text) /\ Reads(n)
  /\ hextet_index + 1 # Hextets /\ offset + n < Len(text) /\ Byte(offset + n) = Dot
  /\ IF Len(text) - offset # 4 THEN Returns(Err)
     ELSE /\ address' = [address EXCEPT ![hextet_index] = Word(0), ![hextet_index + 1] = Word(2)]
          /\ hextet_index' = hextet_index + 2 /\ offset' = offset + n
          /\ at' = "last"
          /\ UNCHANGED <<text, ellipsis, result, shown>>

Unexpected(n) ==
  /\ at = "loop" /\ offset # Len(text) /\ Reads(n)
  /\ hextet_index + 1 # Hextets /\ offset + n < Len(text)
  /\ Byte(offset + n) \notin {Colon, Dot}
  /\ Returns(Err)
-----------------------------------------------------------------------------
\* The hextets behind the ellipsis move to the end, the last one first.
Moved ==
  LET nb_zeros == Hextets - hextet_index
  IN  [i \in DOMAIN address |-> IF i < ellipsis THEN address[i]
                                ELSE IF i < ellipsis + nb_zeros THEN 0
                                ELSE address[i - nb_zeros]]

Finish ==
  /\ at = "last"
  /\ IF \/ offset < Len(text)
        \/ hextet_index = Hextets /\ ellipsis # None
        \/ hextet_index < Hextets /\ ellipsis = None
     THEN Returns(Err)
     ELSE Returns(V6(AsNumber(IF hextet_index < Hextets THEN Moved ELSE address)))
-----------------------------------------------------------------------------
Numeral(n, base) ==
  LET d[m \in 0 .. n] == IF m < base THEN <<m>> ELSE Append(d[m \div base], m % base)
      byte(v) == IF v < 10 THEN v + 48 ELSE v + 87
  IN  [i \in DOMAIN d[n] |-> byte(d[n][i])]
Joined(parts, byte) ==
  Tail(FlattenSeq([i \in DOMAIN parts |-> <<byte>> \o parts[i]]))

\* Display, and Serialize for Ip: what another tool reads.
ipv4_to_str_Reversed(o) == Joined([i \in 1 .. 4 |-> Numeral(o[5 - i], 10)], Dot)
ipv4_to_str(o) == Joined([i \in 1 .. 4 |-> Numeral(o[i], 10)], Dot)

\* std::net::Ipv6Addr writes the first of the longest runs of two zeros and
\* more as an ellipsis, and an IPv4 address mapped into IPv6 with dots.
Mapped(h) == /\ h[Hextets - 2] = Place[Digits] - 1
             /\ \A i \in 1 .. Hextets - 3 : h[i] = 0
OctetsOf(h) == LET octets == Place[Digits \div 2]
               IN  <<h[Hextets - 1] \div octets, h[Hextets - 1] % octets,
                     h[Hextets] \div octets, h[Hextets] % octets>>
ZeroRuns(h) == {r \in (1 .. Hextets) \X (2 .. Hextets) :
                  r[1] + r[2] - 1 <= Hextets /\ \A i \in r[1] .. r[1] + r[2] - 1 : h[i] = 0}
Numerals(h) == IF h = <<>> THEN <<>> ELSE Joined([i \in DOMAIN h |-> Numeral(h[i], 16)], Colon)
ipv6_to_str(h) ==
  LET runs == ZeroRuns(h)
      run == CHOOSE r \in runs : \A q \in runs : q[2] < r[2] \/ (q[2] = r[2] /\ r[1] <= q[1])
  IN  CASE Mapped(h) -> <<Colon, Colon>> \o Numeral(h[Hextets - 2], 16) \o <<Colon>>
                          \o ipv4_to_str(OctetsOf(h))
        [] ~Mapped(h) /\ runs = {} -> Numerals(h)
        [] OTHER -> Numerals(SubSeq(h, 1, run[1] - 1)) \o <<Colon, Colon>>
                      \o Numerals(SubSeq(h, run[1] + run[2], Hextets))
Display(ip) == IF ip.is = "V4" THEN ipv4_to_str(ip.val) ELSE ipv6_to_str(ip.val)

Relay ==
  /\ at = "done" /\ result # Err /\ shown = Err
  /\ text' = Display(result) /\ shown' = result
  /\ at' = "asked" /\ result' = Err
  /\ UNCHANGED locals

Step == \/ Short \/ Begin \/ EndOfText \/ Ellipsis \/ NoHextet \/ Finish
        \/ \E n \in 1 .. Digits : ReadHextet(n) \/ ReadIpv4(n) \/ Unexpected(n)

Next == Step \/ Relay

Spec == Init /\ [][Next]_vars
FairSpec == Spec /\ WF_vars(Step)
=============================================================================
