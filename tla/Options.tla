------------------------------ MODULE Options -------------------------------
(***************************************************************************)
(* Command-line parsing: the getopt loop of main() in server/lbcd.c.  An   *)
(* option is its letter and its argument; every argument is a string, kept *)
(* in the same base:arg form as a service name.  Options that only affect  *)
(* logging, the port number or backgrounding (-d -f -l -p) leave the       *)
(* configuration as it is.                                                 *)
(***************************************************************************)
EXTENDS Weight, SequencesExt

CONSTANTS
  Atoi,            \* the -T arguments in use, mapped to what atoi makes of them
  Executable,      \* arguments that access(_, X_OK) accepts
  RelativePath     \* arguments that do not begin with a slash

(* atoi reads the number an argument begins with and stops there, at a     *)
(* colon too; it gives 0 if there is none.  On digits alone it is Numeral. *)
ASSUME AtoiAssumption ==
  /\ \A s \in DOMAIN Atoi : Atoi[s] \in Int
  /\ \A s \in DOMAIN Atoi \cap DOMAIN Numeral : Atoi[s] = Numeral[s]

Option == [o : STRING, arg : Service]

NoOptions == [services |-> {}, command |-> FALSE, weight |-> NoService,
              simple |-> FALSE, pid_file |-> "none", bindaddrs |-> 0,
              upstart |-> FALSE, died |-> FALSE]

(* "5s" is 5 to atoi and accepted, "s" is 0 and refused.                   *)
TimeoutOK(v) == Atoi[v.base] \in 1 .. 300

ParseOption(c, opt) ==
  CASE c.died -> c
    [] opt.o = "a" -> [c EXCEPT !.services = @ \cup {opt.arg}]
    [] opt.o = "b" -> [c EXCEPT !.bindaddrs = @ + 1]
    [] opt.o = "c" -> IF opt.arg \in Executable THEN [c EXCEPT !.command = TRUE]
                      ELSE [c EXCEPT !.died = TRUE]
    [] opt.o = "P" -> [c EXCEPT !.pid_file = IF opt.arg \in RelativePath
                                             THEN "relative" ELSE "absolute"]
    [] opt.o = "R" -> [c EXCEPT !.weight = Name("rr")]
    [] opt.o = "S" -> [c EXCEPT !.simple = TRUE]
    [] opt.o = "T" -> [c EXCEPT !.died = ~ TimeoutOK(opt.arg)]
    [] opt.o = "w" -> [c EXCEPT !.weight = opt.arg,
                                !.services = @ \cup {opt.arg}]
    [] opt.o = "Z" -> [c EXCEPT !.upstart = TRUE]
    [] opt.o \in {"d", "f", "l", "p"} -> c
    [] OTHER -> [c EXCEPT !.died = TRUE]

main(opts) == FoldLeft(ParseOption, NoOptions, opts)
=============================================================================
