------------------------------ MODULE Library -------------------------------
(***************************************************************************)
(* Programs that use util/: one that works on a vector while there is      *)
(* enough memory, and one that reports messages, sets their handlers and   *)
(* allocates while memory runs out.  The vector functions allocate with    *)
(* the functions of Messages, which return only with the memory, so that   *)
(* nothing is lost by letting a vector operation take one step.            *)
(***************************************************************************)
EXTENDS Vector, Messages

VARIABLE part     \* which of the programs it is

libraryVars == <<vars, messageVars, part>>

LibraryInit ==
  /\ Init /\ MessagesInit /\ part \in {"vectors", "messages"}
  /\ part = "vectors" => cleanup = NoCleanup /\ ~ retry
  /\ part = "messages" => owned

LibraryNext ==
  /\ UNCHANGED part
  /\ \/ part = "vectors" /\ Next /\ UNCHANGED messageVars
     \/ part = "messages" /\ MessagesNext /\ UNCHANGED vars

(* A message that has been begun goes on.                                  *)
LibrarySpec == /\ LibraryInit /\ [][LibraryNext]_libraryVars
               /\ WF_libraryVars(MessageSteps /\ UNCHANGED <<vars, part>>)
=============================================================================
