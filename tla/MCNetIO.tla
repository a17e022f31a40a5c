------------------------------ MODULE MCNetIO -------------------------------
(* Buffers of three bytes in all for the model checker.                    *)
EXTENDS NetIO

MCVectors == {<<3>>, <<2, 1>>, <<0, 1, 0, 2, 0>>}
=============================================================================
