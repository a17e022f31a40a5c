------------------------------ MODULE Resolver ------------------------------
(***************************************************************************)
(* Calls of the address functions: one of the functions of Address, or     *)
(* getaddrinfo with freeaddrinfo (portable/getaddrinfo.c), or getnameinfo  *)
(* (portable/getnameinfo.c).  getaddrinfo takes several steps, since each  *)
(* of its allocations may fail; the others are one.  The name service is   *)
(* external.                                                               *)
(***************************************************************************)
EXTENDS Address

CONSTANTS
  Calls,      \* the calls that are made, with the answers of the name service
  Services,   \* the services getservbyname and getservbyport know
  PortBits    \* width of a port (16)

ASSUME PortAssumption == PortBits \in Nat \ {0}

(* A name has a character that is no digit, sign or space, and stands for  *)
(* one port of a protocol.                                                 *)
ASSUME ServicesAssumption ==
  /\ Services \in Seq([name : Seq(STRING), proto : STRING, port : Nat])
  /\ \A k \in DOMAIN Services : \E i \in DOMAIN Services[k].name :
       Services[k].name[i] \notin Numeric
  /\ \A j, k \in DOMAIN Services :
       Services[j].name = Services[k].name /\ Services[j].proto = Services[k].proto
         => Services[j].port = Services[k].port

(* A host has IPv4 addresses and names that are texts, a long is wider     *)
(* than a port and as wide as an address, and a socket address has an      *)
(* address and a port of its family.                                       *)
ASSUME CallsAssumption ==
  \A c \in Calls :
    /\ c.fn = "inet_aton" => c.text \in Seq(STRING) /\ c.long \in Nat /\ AddrBits <= c.long
    /\ c.fn = "addr_match" => /\ {c.a, c.b, c.mask} \subseteq Seq(STRING)
                              /\ c.long \in Nat /\ AddrBits <= c.long
    /\ c.fn = "source" => /\ c.source \in Seq(STRING) /\ c.binds \in BOOLEAN
                          /\ c.long \in Nat /\ AddrBits <= c.long
    /\ c.fn = "getaddrinfo" => /\ c.host.addrs \in Seq(In_addr)
                               /\ c.long \in Nat /\ PortBits < c.long
    /\ c.fn = "getnameinfo" => /\ c.names \in Seq(Seq(STRING))
                               /\ c.nodelen \in Nat /\ c.servicelen \in Nat
                               /\ c.long \in Nat /\ PortBits < c.long /\ AddrBits <= c.long
                               /\ c.sa.family = "inet" =>
                                    c.sa.addr \in In_addr /\ c.sa.port \in 0 .. (Pow2[PortBits] - 1)
    /\ c.fn = "sockaddr" => \A s \in {c.a, c.b} :
         /\ s.family = "inet" => s.addr \in In_addr
         /\ s.family = "inet6" => s.addr \in [1 .. V6Octets -> Octet]

VARIABLES
  call,     \* the function and its arguments
  pc,       \* "call", "hints", "service", "lookup", "entry", "done" or "freed"
  result,   \* what the function returned
  type,     \* the local variables socktype
  port,     \* and port of getaddrinfo
  left,     \* addresses the loop has not come to
  list,     \* the list of struct addrinfo built so far
  blocks    \* blocks of memory allocated

vars == <<call, pc, result, type, port, left, list, blocks>>

Init ==
  /\ call \in Calls
  /\ pc = (IF call.fn = "getaddrinfo" THEN "hints" ELSE "call")
  /\ result = "none" /\ type = "0" /\ port = 0
  /\ left = << >> /\ list = << >> /\ blocks = 0

MaxPort == Pow2[PortBits] - 1

(* The services getservbyname(name, proto) finds, with any protocol if it  *)
(* is NULL, and getservbyport; each returns the first.                     *)
getservbyname(name, proto) ==
  {k \in DOMAIN Services : Services[k].name = name /\ proto \in {"NULL", Services[k].proto}}
getservbyport(number, proto) ==
  {k \in DOMAIN Services : Services[k].port = number /\ proto = Services[k].proto}
First(found) == Services[Min(found)]

-----------------------------------------------------------------------------
(* getaddrinfo.                                                            *)

Fail(status) == /\ pc' = "done" /\ result' = status
                /\ UNCHANGED <<call, type, port, left, list, blocks>>

HintError(h) ==
  CASE "other" \in h.flags                        -> "EAI_BADFLAGS"
    [] h.family \notin {"unspec", "inet"}         -> "EAI_FAMILY"
    [] h.type \notin {"0", "stream", "dgram"}     -> "EAI_SOCKTYPE"
    [] h.protocol \notin {"0", "tcp", "udp"}      -> "EAI_SOCKTYPE"
    [] OTHER                                      -> "ok"

(* A null hints is one with nothing set.                                   *)
CheckHints ==
  /\ pc = "hints"
  /\ LET e == HintError(call.hints) IN
     \/ e # "ok" /\ Fail(e)
     \/ /\ e = "ok"
        /\ type' = call.hints.type
        /\ pc' = IF call.service = NoText THEN "lookup" ELSE "service"
        /\ UNCHANGED <<call, result, port, left, list, blocks>>

convert_service(s) ==
  /\ s # << >> /\ strto(s).end = << >> /\ strto(s).value >= 0
  /\ strto(s).value < Pow2[call.long - 1]       \* no ERANGE

(* What gai_service returns and stores.                                    *)
gai_service(s, flags, t) ==
  LET n == strto(s).value
      proto == CASE t = "0" -> "NULL" [] t = "dgram" -> "udp" [] OTHER -> "tcp"
      found == getservbyname(s, proto)
      error(e) == [status |-> e, type |-> t, port |-> 0]
  IN IF convert_service(s)
     THEN IF n > MaxPort THEN error("EAI_SERVICE")
          ELSE [status |-> "ok", type |-> t, port |-> n]
     ELSE IF "AI_NUMERICSERV" \in flags \/ found = {} THEN error("EAI_NONAME")
     ELSE IF First(found).proto \notin {"udp", "tcp"} THEN error("EAI_SERVICE")
     ELSE [status |-> "ok", port |-> First(found).port,
           type |-> IF First(found).proto = "udp" THEN "dgram" ELSE "stream"]

LookUpService ==
  /\ pc = "service"
  /\ LET s == gai_service(call.service, call.hints.flags, type) IN
     \/ s.status # "ok" /\ Fail(s.status)
     \/ /\ s.status = "ok"
        /\ type' = s.type /\ port' = s.port
        /\ pc' = "lookup"
        /\ UNCHANGED <<call, result, left, list, blocks>>

INADDR_ANY      == htonl(0)
INADDR_LOOPBACK == [k \in 1 .. 4 |-> CASE k = 1 -> MaxOctet \div 2 [] k = 4 -> 1 [] OTHER -> 0]

HostError(h_errno) ==
  CASE h_errno = "HOST_NOT_FOUND"          -> "EAI_NONAME"
    [] h_errno \in {"TRY_AGAIN", "NO_DATA"} -> "EAI_AGAIN"
    [] h_errno = "NO_RECOVERY"             -> "EAI_FAIL"
    [] OTHER                               -> "EAI_SYSTEM"

(* gai_lookup up to its loop, or the local addresses without a node: the   *)
(* addresses to make entries of, or the error.                             *)
Found(node, flags, host) ==
  LET these(addrs) == [status |-> "ok", addrs |-> addrs]
      error(e)     == [status |-> e, addrs |-> << >>]
      number       == inet_aton(node, call.long)
  IN CASE node = NoText /\ call.service = NoText -> error("EAI_NONAME")
       [] node = NoText /\ call.service # NoText ->
            these(<<IF "AI_PASSIVE" \in flags THEN INADDR_ANY ELSE INADDR_LOOPBACK>>)
       [] node # NoText /\ number # Invalid -> these(<<htonl(number)>>)
       [] node # NoText /\ number = Invalid ->
            IF "AI_NUMERICHOST" \in flags THEN error("EAI_NONAME")
            ELSE IF host.h_errno # "0" THEN error(HostError(host.h_errno))
            ELSE IF host.addrs = << >> \/ ~ host.in4 THEN error("EAI_FAIL")
            ELSE these(host.addrs)

LookUp ==
  /\ pc = "lookup"
  /\ LET f == Found(call.node, call.hints.flags, call.host) IN
     \/ f.status # "ok" /\ Fail(f.status)
     \/ /\ f.status = "ok"
        /\ left' = f.addrs /\ pc' = "entry"
        /\ UNCHANGED <<call, result, type, port, list, blocks>>

(* The canonical name is copied into every entry.                          *)
Canonical == call.node # NoText /\ "AI_CANONNAME" \in call.hints.flags

Entry(addr) == [addr |-> addr, type |-> type, port |-> port,
                protocol |-> IF type = "dgram" THEN "udp" ELSE "tcp",
                canon |-> Canonical]

(* The struct, its sockaddr and its name.                                  *)
Held(e) == IF e.canon THEN 3 ELSE 2

(* The blocks it frees.                                                    *)
freeaddrinfo(l) == FoldLeft(LAMBDA n, e : n + Held(e), 0, l)

(* Mutant: the struct is kept when its sockaddr cannot be allocated.       *)
Undone_kept(got, e) == IF got = 2 THEN freeaddrinfo(<<[e EXCEPT !.canon = FALSE]>>) ELSE 0

(* What gai_addrinfo_new frees of entry e when it has got blocks for it:   *)
(* nothing if it could not allocate the struct, the struct if it could not *)
(* allocate the sockaddr, and the entry as it is, still without a name, if *)
(* it could not copy the name.                                             *)
Undone(got, e) == CASE got = 0 -> 0
                    [] got = 1 -> 1
                    [] got = 2 -> freeaddrinfo(<<[e EXCEPT !.canon = FALSE]>>)

(* An entry is made, or one of its allocations fails after got of them:    *)
(* what it has is freed, then the list.                                    *)
gai_addrinfo_new ==
  /\ pc = "entry" /\ left # << >>
  /\ LET e == Entry(Head(left)) IN
     \/ /\ list' = Append(list, e) /\ blocks' = blocks + Held(e)
        /\ left' = Tail(left)
        /\ UNCHANGED <<pc, result>>
     \/ \E got \in 0 .. (Held(e) - 1) :
          /\ blocks' = (blocks + got) - Undone(got, e) - freeaddrinfo(list)
          /\ list' = << >> /\ left' = << >>
          /\ pc' = "done" /\ result' = "EAI_MEMORY"
  /\ UNCHANGED <<call, type, port>>

(* The list is stored in *res.                                             *)
Success == /\ pc = "entry" /\ left = << >>
           /\ pc' = "done" /\ result' = "ok"
           /\ UNCHANGED <<call, type, port, left, list, blocks>>

(* The caller is done with the list.                                       *)
Release == /\ pc = "done" /\ call.fn = "getaddrinfo" /\ result = "ok"
           /\ blocks' = blocks - freeaddrinfo(list) /\ list' = << >>
           /\ pc' = "freed"
           /\ UNCHANGED <<call, result, type, port, left>>

(* network_connect_host asks for the port as text and frees the list when  *)
(* network_connect (module NetIO) has returned.                            *)
network_connect_host(host, number, answer, long) ==
  [fn |-> "getaddrinfo", node |-> host, service |-> Decimal[number], long |-> long,
   hints |-> [flags |-> {}, family |-> "unspec", type |-> "stream", protocol |-> "0"],
   host |-> answer]

-----------------------------------------------------------------------------
(* getnameinfo; a length of 0 stands for no buffer.                        *)

(* A name is fully qualified if it has a period.                           *)
Qualified(name) == "." \in ToSet(name)

(* Mutant: the terminating nul is not counted.                             *)
Copy_noNul(name, size) ==
  IF Len(name) > size THEN [status |-> "EAI_OVERFLOW", text |-> << >>]
  ELSE [status |-> "ok", text |-> name]
Copy(name, size) ==
  IF Len(name) + 1 > size THEN [status |-> "EAI_OVERFLOW", text |-> << >>]
  ELSE [status |-> "ok", text |-> name]

(* names: the name and aliases gethostbyaddr finds, none if it fails.      *)
lookup_name(addr, size, flags, names) ==
  LET tried == {k \in DOMAIN names : "NI_NUMERICHOST" \notin flags /\ Qualified(names[k])}
  IN IF tried # {} THEN Copy(names[Min(tried)], size)
     ELSE IF "NI_NAMEREQD" \in flags /\ "NI_NUMERICHOST" \notin flags
     THEN [status |-> "EAI_NONAME", text |-> << >>]
     ELSE Copy(inet_ntoa(addr), size)

(* snprintf cuts off a port that does not fit; only one that is too long   *)
(* by more than the nul is noticed.                                        *)
lookup_service(number, size, flags) ==
  LET found == IF "NI_NUMERICSERV" \in flags THEN {}
               ELSE getservbyport(number, IF "NI_DGRAM" \in flags THEN "udp" ELSE "tcp")
      text == Decimal[number]
  IN IF found # {} THEN Copy(First(found).name, size)
     ELSE IF Len(text) > size THEN [status |-> "EAI_OVERFLOW", text |-> << >>]
     ELSE [status |-> "ok", text |-> IF Len(text) < size THEN text ELSE Front(text)]

getnameinfo(c) ==
  LET none == [status |-> "ok", text |-> << >>]
      n == IF c.nodelen = 0 THEN none
           ELSE lookup_name(c.sa.addr, c.nodelen, c.flags, c.names)
      s == IF c.servicelen = 0 THEN none
           ELSE lookup_service(c.sa.port, c.servicelen, c.flags)
      status == CASE c.nodelen = 0 /\ c.servicelen = 0 -> "EAI_NONAME"
                  [] c.sa.family # "inet" -> "EAI_FAMILY"
                  [] n.status # "ok"      -> n.status
                  [] OTHER                -> s.status
  IN [status |-> status, node |-> n.text, service |-> s.text]

(* The functions of one step.                                              *)
Answer(c) ==
  CASE c.fn = "inet_aton"   -> inet_aton(c.text, c.long)
    [] c.fn = "addr_match"  -> network_addr_match(c.a, c.b, c.mask, c.long)
    [] c.fn = "sockaddr"    -> [equal |-> network_sockaddr_equal(c.a, c.b),
                                ports |-> <<network_sockaddr_port(c.a),
                                            network_sockaddr_port(c.b)>>]
    [] c.fn = "source"      -> network_source(c.family, c.source, c.long, c.binds)
    [] c.fn = "getnameinfo" -> getnameinfo(c)

Call == /\ pc = "call"
        /\ result' = Answer(call) /\ pc' = "done"
        /\ UNCHANGED <<call, type, port, left, list, blocks>>

Next == \/ Call \/ CheckHints \/ LookUpService \/ LookUp
        \/ gai_addrinfo_new \/ Success \/ Release

Spec == Init /\ [][Next]_vars

-----------------------------------------------------------------------------
(* What a dotted text denotes, in integers without bounds.                 *)
Number(t) == FoldLeftDomain(
               LAMBDA sum, k : sum + Value(Digits(t)[k]) * Power(Base(t))[Len(Digits(t)) - k],
               0, Digits(t))
IsNumber(t) == /\ Digits(t) # << >> \/ t = <<"0">>
               /\ \A k \in DOMAIN Digits(t) : Digit(Digits(t)[k], Base(t))
Denotes(s) ==
  LET t == Parts(s)
      n == Len(t)
      room(k) == IF k < n THEN OctetBits ELSE (5 - n) * OctetBits
  IN IF n <= 4 /\ \A k \in 1 .. n : IsNumber(t[k]) /\ Number(t[k]) < Pow2[room(k)]
     THEN FoldLeftDomain(LAMBDA sum, k : sum + Number(t[k]) * Pow2[AddrBits - (k - 1) * OctetBits - room(k)],
                         0, t)
     ELSE Invalid

(* inet_aton reads every form of an address.  An IPv4 socket is bound to   *)
(* the source address that was meant, and network_source succeeds exactly  *)
(* if bind does; with a source that cannot be read it fails, and bind is   *)
(* not called.  inet_aton takes no other text, except a last part of "0x"; *)
(* and with longs of 32 bits the test before the multiplication forgets    *)
(* the digit that is added after it, so that a part that is too large may  *)
(* wrap around to a small number.                                          *)
Wraps(s, long) == /\ long = AddrBits
                  /\ \E k \in DOMAIN Parts(s) : Base(Parts(s)[k]) = 10
                       /\ IsNumber(Parts(s)[k]) /\ Number(Parts(s)[k]) > MaxAddr
BareHex(s) == LET t == Parts(s) IN t[Len(t)] = <<"0", "x">>
Excepted(s) == BareHex(s) \/ Wraps(s, call.long)
ParseExact ==
  pc = "done" =>
    /\ call.fn = "inet_aton" => \/ result = Denotes(call.text)
                                \/ Denotes(call.text) = Invalid /\ Excepted(call.text)
    /\ call.fn = "source" /\ call.family = "inet" /\ ~ AnySource(call.source) =>
         LET n == Denotes(call.source) IN
         \/ n # Invalid /\ result = [ok |-> call.binds, bind |-> htonl(n)]
         \/ n = Invalid /\ result = [ok |-> FALSE, bind |-> << >>]
         \/ n = Invalid /\ Excepted(call.source)

(* A mask that is no decimal number although strtoul reads one from it: it *)
(* is empty, or has a sign or white space.                                 *)
Lax(mask) == /\ "." \notin ToSet(mask) /\ strto(mask).end = << >>
             /\ mask = << >> \/ \E k \in DOMAIN mask : mask[k] \notin Decimals

(* network_addr_match compares the leading bits a mask asks for, for every *)
(* length of the prefix and both families, or the bits of a dotted mask;   *)
(* one of leading bits is the same as their number.  It is false for every *)
(* other argument, except a lax mask.                                      *)
Number6(a) == FoldLeft(LAMBDA n, o : n * Pow2[OctetBits] + o, 0, a)
Bit(n, i) == (n \div Pow2[i]) % 2 = 1
Masked(x, y, m) == \A i \in 0 .. (AddrBits - 1) : Bit(m, i) => (Bit(x, i) <=> Bit(y, i))
Lengths(mask, width, long) ==
  IF mask = NoText THEN {width}
  ELSE {n \in 0 .. width : strto(mask).end = << >> /\ strtoul(mask, long) = n}
Agree(x, y, width, n) == x \div Pow2[width - n] = y \div Pow2[width - n]
MatchExact ==
  pc = "done" /\ call.fn = "addr_match" =>
    LET a == Denotes(call.a)
        b == Denotes(call.b)
        m == Denotes(call.mask)
        w == V6Octets * OctetBits
        dotted == "." \in ToSet(call.mask)
    IN \/ Excepted(call.a) \/ Excepted(call.b) \/ (dotted /\ Excepted(call.mask))
       \/ Lax(call.mask)
       \/ /\ result <=>
               IF a # Invalid /\ b # Invalid
               THEN \/ dotted /\ m # Invalid /\ Masked(a, b, m)
                    \/ ~ dotted /\ \E n \in Lengths(call.mask, AddrBits, call.long) :
                         Agree(a, b, AddrBits, n)
               ELSE \E x \in inet_pton6(call.a), y \in inet_pton6(call.b),
                       n \in Lengths(call.mask, w, call.long) :
                      Agree(Number6(x), Number6(y), w, n)
          /\ \A n \in 0 .. AddrBits :
               a # Invalid /\ b # Invalid /\ dotted /\ m = Pow2[AddrBits] - Pow2[AddrBits - n]
                 => (result <=> Agree(a, b, AddrBits, n))

(* The comment of network_addr_match: "Returns true if the addresses are   *)
(* equal modulo the mask and false otherwise, including on syntax errors   *)
(* in the addresses or mask specification".                                *)
MaskChecked == pc = "done" /\ call.fn = "addr_match" /\ result => ~ Lax(call.mask)

(* Two socket addresses compare equal exactly if they print the same text, *)
(* in either order: an IPv4 address and its IPv6 form are one address.     *)
(* Neither depends on the port.                                            *)
SameAddress ==
  pc = "done" /\ call.fn = "sockaddr" =>
    LET text(s) == network_sockaddr_sprint(INET_ADDRSTRLEN, s) IN
    /\ result.equal <=> text(call.a) = text(call.b) /\ text(call.a) # NoText
    /\ result.equal <=> network_sockaddr_equal(call.b, call.a)

(* getaddrinfo returns one entry for each address of the host, in order,   *)
(* with the type and the port that were asked for, or an error and no      *)
(* list.  Whichever allocation fails, the memory held is that of the list. *)
AddressList ==
  /\ blocks = FoldLeft(LAMBDA n, e : n + Held(e), 0, list)
  /\ pc = "done" /\ call.fn = "getaddrinfo" =>
       /\ result = "ok" <=> list # << >>
       /\ result = "ok" =>
            /\ [k \in DOMAIN list |-> list[k].addr] =
                 Found(call.node, call.hints.flags, call.host).addrs
            /\ \A k \in DOMAIN list :
                 /\ call.hints.type \in {"0", list[k].type}
                 /\ list[k].protocol = "udp" <=> list[k].type = "dgram"
                 /\ \A n \in 0 .. MaxPort : call.service = Decimal[n] => list[k].port = n

(* getnameinfo fills each buffer with a whole name and its nul or reports  *)
(* an error, except that a port whose digits fill the buffer loses its     *)
(* last digit.  A numeric answer is read back as the same address and port.*)
Clipped == /\ Len(Decimal[call.sa.port]) = call.servicelen
           /\ "NI_NUMERICSERV" \in call.flags \/ getservbyport(call.sa.port,
                 IF "NI_DGRAM" \in call.flags THEN "udp" ELSE "tcp") = {}
NamesWhole ==
  pc = "done" /\ call.fn = "getnameinfo" /\ result.status = "ok" =>
    /\ call.nodelen > 0 =>
         /\ Len(result.node) < call.nodelen
         /\ \/ inet_aton(result.node, call.long) # Invalid
               /\ htonl(inet_aton(result.node, call.long)) = call.sa.addr
            \/ result.node \in ToSet(call.names)
    /\ call.servicelen > 0 /\ ~ Clipped =>
         /\ Len(result.service) < call.servicelen
         /\ gai_service(result.service, {},
              IF "NI_DGRAM" \in call.flags THEN "dgram" ELSE "stream").port = call.sa.port
=============================================================================
