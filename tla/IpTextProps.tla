------------------------------ MODULE IpTextProps ------------------------------
(***************************************************************************)
(* What is claimed of the reading of IP addresses, over IpText, against a  *)
(* grammar that knows nothing of offsets.                                  *)
(***************************************************************************)
EXTENDS IpText

(* ipv6_from_str has no index out of the bounds of the text or of the eight *)
(* hextets, where it would panic: bytes[offset..] and address[hextet_index] *)
(* in the loop, address[index + nb_zeros] behind it.                       *)
IndexInBounds ==
  /\ at \in {"loop", "last"} => offset \in 0 .. Len(text)
  /\ at = "loop" => hextet_index \in 0 .. Hextets - 1
  /\ at = "last" => hextet_index \in 0 .. Hextets
  /\ at \in {"loop", "last"} => ellipsis \in {None} \cup 0 .. hextet_index
-----------------------------------------------------------------------------
\* The hextets of a text between colons.
IsHextet(t) == Len(t) \in 1 .. Digits /\ \A i \in DOMAIN t : is_hex_digit(t[i])
ValueOf(t) ==
  LET last[i \in 0 .. Len(t)] ==
        IF i = 0 THEN 0 ELSE last[i - 1] + hex_to_digit(t[Len(t) - i + 1]) * Place[i - 1]
  IN  last[Len(t)]
Fields(t) == IF t = <<>> THEN <<>> ELSE Split(t, Colon)
AreHextets(fs) == \A i \in DOMAIN fs : IsHextet(fs[i])
ValuesOf(fs) == [i \in DOMAIN fs |-> ValueOf(fs[i])]

\* The addresses a text stands for, none or one: all hextets, or those before and
\* those after one ellipsis, which stands for one zero at least.
Meant(t) ==
  {ValuesOf(fs) : fs \in {f \in {Fields(t)} : Len(f) = Hextets /\ AreHextets(f)}}
  \cup {ValuesOf(fs[1]) \o [i \in 1 .. Hextets - Len(fs[1]) - Len(fs[2]) |-> 0] \o ValuesOf(fs[2]) :
          fs \in {f \in {<<Fields(SubSeq(t, 1, i - 1)), Fields(SubSeq(t, i + 2, Len(t)))>> :
                           i \in {j \in 1 .. Len(t) - 1 : t[j] = Colon /\ t[j + 1] = Colon}} :
                    AreHextets(f[1]) /\ AreHextets(f[2]) /\ Len(f[1]) + Len(f[2]) < Hextets}}

\* utils.rs:171: a last colon is skipped, if a hextet and an ellipsis were read.
Lax(t) == IF Len(t) > 3 /\ Last(t) = Colon /\ t[Len(t) - 1] # Colon
             /\ \E i \in 1 .. Len(t) - 2 : t[i] = Colon /\ t[i + 1] = Colon
          THEN Meant(Front(t)) ELSE {}

\* An address whose last two hextets are written as four octets with dots.
Dotted(t) ==
  \E i \in DOMAIN t :
    /\ t[i] = Colon /\ Len(Split(SubSeq(t, i + 1, Len(t)), Dot)) = 4
    /\ ipv4_from_str(SubSeq(t, i + 1, Len(t))) # Err
    /\ Meant(SubSeq(t, 1, i) \o <<48, Colon, 48>>) # {}

(* Whatever the text, from_ip_str returns the one IPv6 address it stands for *)
(* and Err if there is none; but that of an address of the greatest length *)
(* (utils.rs:93) is refused, and one colon too many is not.  Nothing is    *)
(* claimed of one that ends in an IPv4 address with dots, which 167 means  *)
(* to read and 184 gives to a function that takes four raw bytes.          *)
(* What is read as an address is not also read as an IPv4 address with its *)
(* port.                                                                   *)
ParsedAsMeant ==
  at = "done" =>
    LET meant == Meant(text) \cup Lax(text)
    IN  /\ ipv4_from_str(text) = Err /\ ~Dotted(text) =>
             IF meant = {} \/ Len(text) > Limit THEN result = Err
             ELSE \E h \in meant : result = V6(h)
        /\ result # Err =>
             /\ parse_ipv4_port(text) = None
             /\ result.is = "V6" <=> \E i \in DOMAIN text : text[i] = Colon

(* An address that was written, as serialisation does, is read back as the *)
(* same address by another tool; but for those of the greatest length and  *)
(* those that the standard library writes with dots.                       *)
ReadBack ==
  at = "done" /\ shown # Err =>
    \/ result = shown
    \/ shown.is = "V6" /\ (Len(text) = Limit + 1 \/ Mapped(shown.val)) /\ result = Err

(* from_ip_str returns, whatever the text.                                 *)
IpRead == at # "done" ~> at = "done"
=============================================================================
