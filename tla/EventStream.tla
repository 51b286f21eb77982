---------------------------- MODULE EventStream ----------------------------
(***************************************************************************)
(* What a connected client promises for the events it accepts: they are    *)
(* written to the connection in the order of their acceptance, each once   *)
(* and with none left out, until the stream ends; nothing is written after *)
(* its end, and nothing is accepted once it is shut.  Events still under   *)
(* way at the end are lost: what was written is then a prefix of what was  *)
(* accepted.  Client implements this with a bounded channel, waiting       *)
(* senders and a writer.                                                   *)
(***************************************************************************)
EXTENDS Naturals, Sequences

CONSTANT Events

VARIABLES
    accepted,   \* the events accepted, in order
    written,    \* the events written, in order
    ended,      \* nothing more is written
    shut        \* nothing more is accepted

vars == <<accepted, written, ended, shut>>

Init ==
    /\ accepted = <<>>
    /\ written = <<>>
    /\ ended = FALSE
    /\ shut = FALSE

\* A sender's event is taken over, for the first and only time.
Accept(e) ==
    /\ ~shut
    /\ \A i \in 1 .. Len(accepted) : accepted[i] # e
    /\ accepted' = Append(accepted, e)
    /\ UNCHANGED <<written, ended, shut>>

\* The oldest event not yet written is written.
Write ==
    /\ ~ended
    /\ Len(written) < Len(accepted)
    /\ written' = Append(written, accepted[Len(written) + 1])
    /\ UNCHANGED <<accepted, ended, shut>>

\* The writer gives up, or the connection is closed.
End ==
    /\ ended' = TRUE
    /\ UNCHANGED <<accepted, written, shut>>

Shut ==
    /\ shut' = TRUE
    /\ UNCHANGED <<accepted, written, ended>>

Next == Write \/ End \/ Shut \/ \E e \in Events : Accept(e)

Spec == Init /\ [][Next]_vars

=============================================================================
