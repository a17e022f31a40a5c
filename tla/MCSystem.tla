------------------------------ MODULE MCSystem ------------------------------
(* Two clients for the model checker.                                      *)
EXTENDS System

CONSTANTS c1, c2

A(v2, services) == [v2 |-> v2, services |-> services, timeout |-> 10]
Http == [base |-> "http", arg |-> "80"]
MCLongNames == {Name("long")}
First ==
  { A(TRUE, << >>), A(FALSE, << >>), A(FALSE, <<Http>>),
    A(FALSE, <<Http, Name("rr"), Http, Http, Name("rr")>>),  \* the most
    A(FALSE, <<Name("cmd")>>),                           \* never permitted
    A(TRUE, <<Http>>), A(FALSE, <<Name("long")>>),       \* refused by the client
    A(FALSE, [i \in 1 .. 6 |-> Http]),
    [v2 |-> FALSE, services |-> << >>, timeout |-> 0] }
Second == {A(FALSE, <<Http>>)}
MCCommandLines == {[c \in Clients |-> IF c = c1 THEN a ELSE b] :
                     a \in First, b \in Second}
MCDaemonConfigs == {[services |-> {Http, Name("rr"), Name("cmd")}]}
=============================================================================
