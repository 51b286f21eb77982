----------------------------- MODULE MCPresence -----------------------------
(* Model-checking instances of Presence. *)
EXTENDS Presence

CONSTANTS ann, bob, a1, a2, b1, w1

\* ann dials in twice, bob once.
MCOwner == [s \in Sessions |-> IF s = b1 THEN bob ELSE ann]

\* One room, of bob, whose connection may fail.
MCRooms == {{bob}}

\* bob may hide.
MCClaims == {[by |-> b1, of |-> bob, status |-> "offline"]}
NoClaims == {}

=============================================================================
