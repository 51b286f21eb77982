------------------------------ MODULE MCClient ------------------------------
(* Model-checking instances of Client. *)
EXTENDS Client

CONSTANTS p1, p2, loop, reader, w

=============================================================================
