------------------------------ MODULE Address -------------------------------
(***************************************************************************)
(* Addresses as text and as octets: inet_aton, inet_ntoa and inet_ntop     *)
(* (portable/), and network_sockaddr_sprint, network_sockaddr_equal,       *)
(* network_addr_match and network_source (util/network.c), which are       *)
(* functions of their arguments.  A text is a sequence of characters, an   *)
(* address the sequence of its octets in network order.                    *)
(***************************************************************************)
EXTENDS Integers, Sequences, FiniteSets, SequencesExt

CONSTANTS
  OctetBits,    \* width of an octet (8 in the code)
  V6Octets,     \* octets of an IPv6 address (16)
  V6Addrs       \* IPv6 addresses, as inet_pton parses them

ASSUME WidthAssumption == OctetBits \in Nat \ {0} /\ V6Octets \in Nat /\ V6Octets > 6

(* b ^ n; the prover knows nothing of the standard operator.               *)
Power(b) == LET f[n \in Nat] == IF n = 0 THEN 1 ELSE b * f[n - 1] IN f
Pow2 == Power(2)

MaxOctet == Pow2[OctetBits] - 1
AddrBits == 4 * OctetBits
MaxAddr  == Pow2[AddrBits] - 1

Octet   == 0 .. MaxOctet
In_addr == [1 .. 4 -> Octet]

ASSUME V6Assumption == \A a \in V6Addrs : a \in [1 .. V6Octets -> Octet]

Invalid == -1           \* a number that could not be read
NoText  == <<"NULL">>   \* a null pointer in place of a text

-----------------------------------------------------------------------------
(* Reading numbers.                                                        *)

Numeral == << {"0"}, {"1"}, {"2"}, {"3"}, {"4"}, {"5"}, {"6"}, {"7"}, {"8"},
              {"9"}, {"A", "a"}, {"B", "b"}, {"C", "c"}, {"D", "d"},
              {"E", "e"}, {"F", "f"} >>
Digit(c, base) == \E i \in 1 .. base : c \in Numeral[i]
Value(c) == (CHOOSE i \in 1 .. 16 : c \in Numeral[i]) - 1

(* The text up to each period.                                             *)
Split(parts, c) == IF c = "." THEN Append(parts, << >>)
                   ELSE [parts EXCEPT ![Len(parts)] = Append(@, c)]
Parts(s) == FoldLeft(Split, << << >> >>, s)

(* Numbers are written as in C.                                            *)
Base(t) == IF t = << >> \/ t[1] # "0" THEN 10
           ELSE IF Len(t) > 1 /\ t[2] = "x" THEN 16 ELSE 8
Digits(t) == SubSeq(t, CASE Base(t) = 16 -> 3 [] Base(t) = 8 -> 2 [] OTHER -> 1,
                    Len(t))

(* Mutant: the number is not compared before it is multiplied.             *)
TooLarge_never(n, base) == FALSE

(* Tested before the multiplication, which could overflow.                 *)
TooLarge(n, base) == n > MaxAddr \div base

(* A digit is taken, in unsigned longs of so many bits.                    *)
Take(n, c, base, long) ==
  IF n = Invalid \/ TooLarge(n, base) \/ ~ Digit(c, base) THEN Invalid
  ELSE (n * base + Value(c)) % Pow2[long]

(* One part of an address.  Only a last part may be a bare "0x".           *)
octet(t, last, long) ==
  IF Digits(t) = << >> /\ ~ (Base(t) = 8 \/ (Base(t) = 16 /\ last)) THEN Invalid
  ELSE FoldLeft(LAMBDA n, c : Take(n, c, Base(t), long), 0, Digits(t))

(* The last of up to four parts stands for all remaining octets.           *)
inet_aton(s, long) ==
  LET t == Parts(s)
      n == Len(t)
      o == [k \in 1 .. n |-> octet(t[k], k = n, long)]
  IN IF \/ n > 4
        \/ \E k \in 1 .. n : o[k] = Invalid
        \/ \E k \in 1 .. (n - 1) : o[k] > MaxOctet
        \/ o[n] > MaxAddr \div Pow2[(n - 1) * OctetBits]
     THEN Invalid
     ELSE FoldLeft(LAMBDA sum, k : sum + o[k] * Pow2[(4 - k) * OctetBits],
                   o[n], [k \in 1 .. (n - 1) |-> k])

htonl(n) == [k \in 1 .. 4 |-> (n \div Pow2[(4 - k) * OctetBits]) % Pow2[OctetBits]]

(* strtol in base 10: the number, after white space and a sign, and what   *)
(* follows it.  strtoul takes a negative number modulo 2 ^ long.           *)
Decimals == UNION {Numeral[i] : i \in 1 .. 10}
Numeric == Decimals \cup {"+", "-", " "}
Leading(t, chars) == CHOOSE n \in 0 .. Len(t) :
                       /\ \A k \in 1 .. n : t[k] \in chars
                       /\ n < Len(t) => t[n + 1] \notin chars
After(t, n) == SubSeq(t, n + 1, Len(t))
strto(s) ==
  LET u == After(s, Leading(s, {" "}))
      t == IF u # << >> /\ u[1] \in {"+", "-"} THEN Tail(u) ELSE u
      d == Leading(t, Decimals)
      n == FoldLeft(LAMBDA v, c : 10 * v + Value(c), 0, SubSeq(t, 1, d))
  IN IF d = 0 THEN [value |-> 0, end |-> s]
     ELSE [value |-> IF u[1] = "-" THEN -n ELSE n, end |-> After(t, d)]
strtoul(s, long) ==
  LET n == strto(s).value
      m == Pow2[long]
  IN IF n >= m \/ n <= -m THEN m - 1 ELSE IF n < 0 THEN n + m ELSE n

-----------------------------------------------------------------------------
(* Printing.                                                               *)

Numeral1(d) == <<CHOOSE c \in Numeral[d + 1] : TRUE>>
Decimal[n \in Nat] ==
  IF n < 10 THEN Numeral1(n) ELSE Decimal[n \div 10] \o Numeral1(n % 10)

inet_ntoa(a) == FlattenSeq([k \in 1 .. 4 |->
                              (IF k = 1 THEN << >> ELSE <<".">>) \o Decimal[a[k]]])

INET_ADDRSTRLEN == 4 * Len(Decimal[MaxOctet]) + 4

(* NoText is the null pointer of a failure.                                *)
inet_ntop(a, size) == IF size < INET_ADDRSTRLEN THEN NoText ELSE inet_ntoa(a)

(* The system's inet_ntop and inet_pton for IPv6: a text of each address   *)
(* that no other address has.                                              *)
inet_ntop6(a) == FlattenSeq([k \in DOMAIN a |-> <<":">> \o Decimal[a[k]]])
inet_pton6(s) == {a \in V6Addrs : inet_ntop6(a) = s}

-----------------------------------------------------------------------------
(* struct sockaddr: the family, the address and the port.                  *)

IN6_IS_ADDR_V4MAPPED(a) ==
  /\ \A k \in 1 .. (V6Octets - 6) : a[k] = 0
  /\ \A k \in (V6Octets - 5) .. (V6Octets - 4) : a[k] = MaxOctet
Low4(a) == SubSeq(a, V6Octets - 3, V6Octets)

network_sockaddr_sprint(size, sa) ==
  CASE sa.family = "inet6" -> IF IN6_IS_ADDR_V4MAPPED(sa.addr)
                              THEN inet_ntop(Low4(sa.addr), size)
                              ELSE inet_ntop6(sa.addr)
    [] sa.family = "inet"  -> inet_ntop(sa.addr, size)
    [] OTHER               -> NoText

(* Mutant: every IPv6 address is compared by its last four octets.         *)
network_sockaddr_equal_low(x, y) ==
  LET v4(s) == IF s.family = "inet6" THEN Low4(s.addr) ELSE s.addr
  IN {x.family, y.family} \subseteq {"inet", "inet6"} /\ v4(x) = v4(y)

(* The arguments change places, so that only the first may be IPv6 if they *)
(* differ.                                                                 *)
network_sockaddr_equal(x, y) ==
  LET swap == x.family = "inet" /\ y.family = "inet6"
      a == IF swap THEN y ELSE x
      b == IF swap THEN x ELSE y
  IN CASE a.family = "inet6" /\ b.family = "inet6" -> a.addr = b.addr
       [] a.family = "inet6" /\ b.family = "inet" ->
            IN6_IS_ADDR_V4MAPPED(a.addr) /\ Low4(a.addr) = b.addr
       [] a.family = "inet" /\ b.family = "inet" -> a.addr = b.addr
       [] OTHER -> FALSE

network_sockaddr_port(sa) == IF sa.family \in {"inet", "inet6"} THEN sa.port ELSE 0

(* The bits of a sequence of octets, counted from the first.               *)
Bits(a) == {i \in 0 .. (Len(a) * OctetBits - 1) :
              (a[i \div OctetBits + 1] \div Pow2[OctetBits - 1 - (i % OctetBits)]) % 2 = 1}

NoMask == {-1}              \* the mask could not be read
Prefix(n) == 0 .. (n - 1)   \* the first n bits

(* A mask that is not dotted is the number of leading bits.                *)
Cidr(mask, width, long) ==
  IF strto(mask).end # << >> \/ strtoul(mask, long) > width THEN Invalid
  ELSE strtoul(mask, long)

Mask4(mask, long) ==
  LET dotted == "." \in ToSet(mask)
      n == IF dotted THEN inet_aton(mask, long) ELSE Cidr(mask, AddrBits, long)
  IN CASE mask = NoText -> Prefix(AddrBits)
       [] mask # NoText /\ n = Invalid -> NoMask
       [] OTHER -> IF dotted THEN Bits(htonl(n)) ELSE Prefix(n)

(* Mutant: the last octet is compared whole.                               *)
Match6_whole(a, b, cidr) ==
  \A i \in 0 .. (V6Octets - 1) : i * OctetBits < cidr => a[i + 1] = b[i + 1]

(* Whole octets, then the leading bits of the one the prefix ends in.      *)
Match6(a, b, cidr) ==
  \A i \in 0 .. (V6Octets - 1) : i * OctetBits < cidr =>
    IF (i + 1) * OctetBits <= cidr THEN a[i + 1] = b[i + 1]
    ELSE LET m == Prefix(cidr % OctetBits)
         IN Bits(<<a[i + 1]>>) \cap m = Bits(<<b[i + 1]>>) \cap m

network_addr_match(a, b, mask, long) ==
  LET a4 == inet_aton(a, long)
      b4 == inet_aton(b, long)
      m4 == Mask4(mask, long)
      width == V6Octets * OctetBits
      cidr  == IF mask = NoText THEN width ELSE Cidr(mask, width, long)
  IN /\ a # << >> /\ b # << >>
     /\ IF a4 # Invalid /\ b4 # Invalid
        THEN m4 # NoMask /\ Bits(htonl(a4)) \cap m4 = Bits(htonl(b4)) \cap m4
        ELSE \E a6 \in inet_pton6(a), b6 \in inet_pton6(b) :
               cidr # Invalid /\ Match6(a6, b6, cidr)

(* The address bind is called with for a socket of this family before it   *)
(* connects, if it is, and the result; binds tells whether bind succeeds.  *)
AnySource(source) == source \in {NoText, <<"a", "l", "l">>, <<"a", "n", "y">>}
network_source(family, source, long, binds) ==
  LET bound(a) == [ok |-> binds, bind |-> a]
  IN IF AnySource(source) THEN [ok |-> TRUE, bind |-> << >>]
     ELSE CASE family = "inet" /\ inet_aton(source, long) # Invalid ->
                 bound(htonl(inet_aton(source, long)))
            [] family = "inet6" /\ inet_pton6(source) # {} ->
                 bound(CHOOSE a \in inet_pton6(source) : TRUE)
            [] OTHER -> [ok |-> FALSE, bind |-> << >>]
=============================================================================
