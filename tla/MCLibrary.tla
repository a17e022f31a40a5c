----------------------------- MODULE MCLibrary ------------------------------
(* Strings and handlers for the model checker: every text of up to three   *)
(* characters, two of which are separators; handlers alone and in pairs.   *)
EXTENDS Library

Characters == {"x", ",", " "}
MCTexts == UNION {[1 .. n -> Characters] : n \in 0 .. 3}
MCWords == {<< >>, <<"x">>, <<"x", ",", "x">>}
MCHandlerLists == {<< >>, <<"syslog">>, <<"stderr", "syslog">>}
MCCleanups == {NoCleanup, 0}
=============================================================================
