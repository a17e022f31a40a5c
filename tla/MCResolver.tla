----------------------------- MODULE MCResolver -----------------------------
(* Calls for the model checker, with octets of four bits.                  *)
EXTENDS Resolver

Longs == {AddrBits, AddrBits + 8}   \* longs as wide as an address, and wider

(* Every address of one to four parts from a few numbers, and five parts.  *)
PartTexts == {<< >>, <<"0">>, <<"7">>, <<"1", "5">>, <<"1", "6">>, <<"0", "x">>,
              <<"0", "x", "F">>, <<"0", "8">>}
LastTexts == PartTexts \cup
             {<<"2", "5", "5">>, <<"2", "5", "6">>, <<"0", "7", "7", "7", "7">>,
              <<"6", "5", "5", "3", "5">>, <<"6", "5", "5", "3", "6">>,
              <<"6", "5", "5", "3", "9", "1">>, <<"6", "5", "5", "4">>,
              <<"0", "x", "f", "f", "f", "f">>, <<"0", "x", "1", "0", "0", "0", "0">>,
              <<"4", "0", "9", "5">>, <<"4", "0", "9", "6">>, <<"1", "x">>}
Dotted(parts) == FlattenSeq([k \in DOMAIN parts |->
                   (IF k = 1 THEN << >> ELSE <<".">>) \o parts[k]])
Texts == {Dotted(Append(p, l)) : p \in UNION {[1 .. n -> PartTexts] : n \in 0 .. 3},
                                 l \in LastTexts}
           \cup {Dotted([k \in 1 .. 5 |-> <<"1">>])}

A4(a, b, c, d) == <<a, b, c, d>>
Addrs4 == {A4(a, b, c, d) : a \in {0, 12}, b \in {0, 15}, c \in {9, 10}, d \in {1, 3}}
A6(z, f, low) == <<z, f, f>> \o low
MCV6Addrs == {A6(z, f, low) : z \in {0, 1}, f \in {0, 15},
                              low \in {A4(12, 15, 9, 1), A4(12, 15, 9, 3), A4(4, 0, 0, 1)}}

Hosts == {inet_ntoa(a) : a \in Addrs4} \cup {inet_ntop6(a) : a \in MCV6Addrs}
           \cup {<< >>, <<"h">>}
Masks == {NoText, << >>, <<"-", "1">>, <<"8", "x">>, <<"1", "5", ".", "1", "2", ".", "0", ".", "0">>,
          <<"1", "5", ".">>, <<"9", ".", "0", ".", "1", "0">>, <<" ", "+", "0", "7">>,
          <<"-", "1", "6", "7", "7", "7", "2", "0", "9">>} \cup {Decimal[n] : n \in {0, 1, 4, 7, 14, 15, 16, 17, 27, 28, 29}}

Sources == {NoText, <<"a", "l", "l">>, <<"a", "n", "y">>, <<"a", "l">>}

Sockaddr == [family : {"inet"}, addr : Addrs4, port : {1}]
              \cup [family : {"inet6"}, addr : MCV6Addrs, port : {1, 2}]
              \cup [family : {"unix"}, addr : {<< >>}, port : {0}]

MCServices == <<[name |-> <<"n">>, proto |-> "tcp", port |-> 25],
                [name |-> <<"n">>, proto |-> "udp", port |-> 26],
                [name |-> <<"s">>, proto |-> "sctp", port |-> 7]>>

Hint == [flags : SUBSET {"AI_PASSIVE", "AI_CANONNAME", "AI_NUMERICHOST", "AI_NUMERICSERV"}
                   \cup {{"other"}},
         family : {"unspec", "inet"}, type : {"0", "stream", "dgram"}, protocol : {"0"}]
        \cup [flags : {{}}, family : {"inet6", "inet"}, type : {"raw", "stream"},
              protocol : {"0", "udp", "icmp"}]
Host(e, addrs, in4) == [h_errno |-> e, addrs |-> addrs, in4 |-> in4]
HostAnswers == {Host(e, << >>, TRUE) : e \in {"0", "HOST_NOT_FOUND", "NO_DATA", "NO_RECOVERY", "-1"}}
                 \cup {Host("0", <<A4(12, 0, 9, 1), A4(12, 0, 9, 3)>>, in4) : in4 \in BOOLEAN}
ServiceTexts == {NoText, << >>, <<"n">>, <<"s">>, <<"6", "3">>, <<"6", "4">>, <<" ", "-", "1">>,
                 <<"3", "2", "7", "6", "8">>}

Names == {<< >>, <<<<"h">>>>, <<<<"h">>, <<"h", ".", "a">>>>}
Flags == SUBSET {"NI_NUMERICHOST", "NI_NUMERICSERV", "NI_NAMEREQD", "NI_DGRAM"}

MatchCalls == [fn : {"addr_match"}, a : Hosts, b : Hosts, mask : Masks, long : {AddrBits + 8}]
MCCalls == MatchCalls \cup
  [fn : {"inet_aton"}, text : Texts, long : Longs]
    \cup [fn : {"source"}, family : {"inet", "inet6", "unix"}, long : {AddrBits},
          binds : BOOLEAN, source : Hosts \cup LastTexts \cup Sources]
    \cup [fn : {"sockaddr"}, a : Sockaddr, b : Sockaddr]
    \cup [fn : {"getaddrinfo"}, long : {AddrBits}, hints : Hint, service : ServiceTexts,
          node : {NoText, <<"h">>, <<"1", "2", ".", "1">>}, host : HostAnswers]
    \cup {network_connect_host(node, number, host, AddrBits) :
            node \in {<<"h">>, <<"1", "2", ".", "1">>}, number \in {0, 9, 10, 63}, host \in HostAnswers}
    \cup [fn : {"getnameinfo"}, long : {AddrBits}, flags : Flags, names : Names,
          nodelen : {0, 3, 4, 8, 12}, servicelen : {0, 1, 2, 3},
          sa : [family : {"inet", "unix"}, addr : {A4(12, 0, 10, 1), A4(1, 2, 3, 4)},
                port : {5, 25, 26, 63}]]
=============================================================================
