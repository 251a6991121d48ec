------------------------- MODULE MCOutgoingMessages -------------------------
(* Instances of OutgoingMessages for TLC. *)
EXTENDS OutgoingMessages

CONSTANTS m1, m2, r1, r2

OneMessage   == {m1}
OneReactor == {r1}
TwoReactors == {r1, r2}

=============================================================================
