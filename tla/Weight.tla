------------------------------- MODULE Weight -------------------------------
(***************************************************************************)
(* The weight calculation: server/weight.c (service table, start-up        *)
(* globals, dispatch to a weight function), server/load.c (the load        *)
(* function) and the parts of server/server.c that store the results.      *)
(*                                                                         *)
(* A weight function is modelled by the set of values it can store, since  *)
(* what it finds depends on the host.  The greeting probes and the command *)
(* have modules of their own; here they are their possible results.        *)
(***************************************************************************)
EXTENDS Protocol

CONSTANTS
  Numeral,     \* the all-digit strings in use, mapped to their values (atoi)
  Max16,       \* largest uint16_t
  Max32,       \* largest uint32_t, the "take me out of the pool" weight
  MaxShort,    \* largest short
  Garbage,     \* what an uninitialised uint32_t on the stack may hold
  CmdOutput,   \* what the -c command may print: [weight, incr] records
  Peers        \* how many peers an NTP server may report

WeightPair == [weight : 0 .. Max32, incr : 0 .. Max32]

ASSUME WordsAssumption == /\ Max16 \in Nat /\ Max32 \in Nat /\ MaxShort \in Nat
                          /\ Max16 <= Max32 /\ 200 <= Max32
ASSUME NumeralAssumption == \A s \in DOMAIN Numeral : Numeral[s] \in Nat
ASSUME OutputsAssumption == /\ Garbage \subseteq 0 .. Max32
                            /\ Peers \subseteq 0 .. Max32
                            /\ CmdOutput \subseteq WeightPair

(* Mutant: the cast to uint16_t is forgotten.                              *)
U16_uncast(n) == n
U16(n) == n % (Max16 + 1)
U32(n) == n % (Max32 + 1)

(* (short) n for a non-negative int n.                                     *)
Short(n) == LET m == n % (2 * (MaxShort + 1)) IN
            IF m > MaxShort THEN m - 2 * (MaxShort + 1) ELSE m

IsDigits(s) == s \in DOMAIN Numeral

(***************************************************************************)
(* Start-up.  The module globals set once by lbcd_weight_init: functab is  *)
(* the base name of the service_table entry, NoFunc stands for NULL.       *)
(***************************************************************************)
NoFunc    == "NULL"
NoService == Name("")

ProbeTable == {"ftp", "http", "imap", "nntp", "pop", "smtp"}
service_table == {"load", "cmd", "rr", "unknown", "ntp", "tcp"} \cup ProbeTable

is_weights(s) == IsDigits(s.base) /\ IsDigits(s.arg)

service_to_func(s, functab) ==
  IF s = DefaultService THEN functab
  ELSE IF s.base \in service_table THEN s.base ELSE "unknown"

(* command: whether -c was given; service: the argument of the last -w,    *)
(* rr after -R, NoService without either.  The globals are zero at start,  *)
(* and lbcd_default_functab is NULL while lbcd_weight_init reads it.       *)
lbcd_weight_init(command, service) ==
  IF service # NoService /\ is_weights(service)
  THEN [functab |-> "rr", weight |-> U32(Numeral[service.base]),
        incr |-> U32(Numeral[service.arg])]
  ELSE IF command
  THEN [functab |-> "cmd", weight |-> 0, incr |-> 0]
  ELSE [functab |-> IF service = NoService THEN "load"
                    ELSE service_to_func(service, NoFunc),
        weight |-> 1, incr |-> 1]

(***************************************************************************)
(* The weight functions.                                                   *)
(***************************************************************************)
Result(w, i) == [weight |-> w, incr |-> i]

lbcd_unknown_weight == Result(Max32, 0)

(* The multiplier for a nearly full temporary directory.                   *)
penalty(used) == CASE used <= 93 -> 2
                   [] used \in 94 .. 96 -> 4
                   [] used \in 97 .. 98 -> 8
                   [] used = 99 -> 16
                   [] OTHER -> 32

(* lb carries the values already packed into the reply; tmp is the fuller  *)
(* of /tmp and P_tmpdir, in percent.  The int is stored as a uint32_t.     *)
lbcd_load_weight(lb, nologin) ==
  LET fudge  == (lb.tot_users - lb.uniq_users) * 20
      weight == lb.uniq_users * 100 + 3 * lb.l1 + fudge
      loaded == CASE lb.tmp < 90  -> weight
                  [] lb.tmp > 100 -> -1
                  [] OTHER        -> weight * penalty(lb.tmp)
  IN Result(U32(IF nologin THEN -1 ELSE loaded), 200)

(* lbcd_tcp_weight returns early, storing nothing, when the argument is    *)
(* missing or is a number that is not positive as a short.                 *)
TcpUnset(arg) == \/ arg = ""
                 \/ IsDigits(arg) /\ Short(Numeral[arg]) < 1

ProbeResult(ok) == IF ok THEN 0 ELSE Max32

(* What lbcd_setweight can store for the service function f with port      *)
(* argument arg: the increment is set first, the function may replace it.  *)
WeightResults(f, arg, glob, lb, nologin) ==
  CASE f = "load"    -> {lbcd_load_weight(lb, nologin)}
    [] f = "cmd"     -> CmdOutput \cup {lbcd_unknown_weight}
    [] f = "rr"      -> {Result(glob.weight, glob.incr)}
    [] f = "unknown" -> {lbcd_unknown_weight}
    [] f = "ntp"     -> {Result(p, glob.incr) : p \in Peers \cup {Max32}}
    [] f = "tcp" /\ TcpUnset(arg) -> {Result(g, glob.incr) : g \in Garbage}
    [] OTHER -> {Result(ProbeResult(ok), glob.incr) : ok \in BOOLEAN}

(* Mutant: the port argument is never looked for.                          *)
PortArg_dropped(s) == ""

(* lbcd_setweight looks for the port argument in the table's own name when *)
(* the service is "default", so the default service never has one.         *)
PortArg(s) == IF s = DefaultService THEN "" ELSE s.arg

lbcd_setweight(s, glob, lb, nologin) ==
  WeightResults(service_to_func(s, glob.functab), PortArg(s), glob, lb, nologin)

(***************************************************************************)
(* lbcd_pack_info and lbcd_proto2_convert (server/server.c).               *)
(***************************************************************************)
(* h is what the kernel, utmp and statvfs report: load is the one-minute   *)
(* load times 100, an arbitrary value when kernel_getload fails; full is   *)
(* the result of tmp_full.                                                 *)
PackInfo(h, full) ==
  [l1 |-> U16(h.load), tot_users |-> U16(h.tot_users),
   uniq_users |-> U16(h.uniq_users), tmp |-> full, weights |-> << >>]

lbcd_proto2_convert(lb) ==
  [lb EXCEPT !.l1 = IF lb.weights[1].weight > Max16 THEN Max16
                    ELSE lb.weights[1].weight,
             !.tot_users = 0, !.uniq_users = 0]
=============================================================================
