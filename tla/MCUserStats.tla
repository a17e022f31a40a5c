---------------------------- MODULE MCUserStats -----------------------------
(* Sessions for the model checker: two users, one of them on the console,  *)
(* and two whose names agree in their first eight characters.              *)
EXTENDS UserStats

Session(eight, rest, console) == [name |-> <<eight, rest>>, console |-> console]
TwoUsers  == {Session("schwimme", "r", TRUE), Session("rra", "", FALSE)}
Namesakes == {Session("schwimme", "r", FALSE), Session("schwimme", "l", FALSE)}
=============================================================================
