----------------------------- MODULE MCNetBind ------------------------------
(* Address lists for the model checker.                                    *)
EXTENDS NetBind

A(f, v) == [family |-> f, valid |-> v]
V4 == A("inet", TRUE)
V6 == A("inet6", TRUE)

MCBindAddrs == {<< >>, <<V4>>, <<V6, V4>>, <<A("inet", FALSE)>>,
                <<V4, A("inet", FALSE), V6>>}
MCLocalAddrs == {<< >>, <<V4, V6>>, <<V4, A("unix", TRUE), V6>>,
                 <<V4, V6, V4, V6, V4>>}
=============================================================================
