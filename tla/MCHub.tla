------------------------------- MODULE MCHub -------------------------------
(* Model-checking instances of Hub. *)
EXTENDS Hub, TLC

CONSTANTS w1, m1

=============================================================================
