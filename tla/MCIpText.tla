------------------------------- MODULE MCIpText --------------------------------
\* Addresses of three hextets of two digits; every text of a small alphabet, and
\* some with other bytes, among them all lengths around the limit.
EXTENDS IpTextProps

TextsOf(bytes, n) == UNION {[1 .. k -> bytes] : k \in 0 .. n}
One == 49
LowerF == 102
Other == 103
Full(d) == <<d, d, Colon, d, d, Colon, d, d>>
Octets(d) == {<<d, d, Dot>> \o <<e, Dot, One, Dot, Plus, One>> : e \in {50, 57}}
MCTexts ==
  TextsOf({48, One, Colon, Dot}, 5) \cup TextsOf({One, Colon, Dot, Other}, 6)
  \cup TextsOf({One, LowerF, Colon}, 7)
  \cup {Full(d) : d \in {65, 70, 57, LowerF, Other}}
  \cup {Append(t, Colon) : t \in {Full(One), Front(Full(One))}}
  \cup UNION {Octets(d) : d \in {One, 50, 55}}
  \cup {<<50, 53, d>> : d \in 53 .. 54} \cup {<<One, Dot, One, Dot, One, Dot, One, Dot, One>>}
  \cup {<<One, Dot, One, Colon>> \o p : p \in {<<54, 53, 53, 51, d>> : d \in 53 .. 54}}
=============================================================================
