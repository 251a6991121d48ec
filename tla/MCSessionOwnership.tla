------------------------- MODULE MCSessionOwnership -------------------------
(***************************************************************************)
(* Instances of SessionOwnership for TLC: two processes, which are         *)
(* interchangeable, and one or two sessions.                               *)
(***************************************************************************)
EXTENDS SessionOwnership, TLC

CONSTANTS n1, n2, s1, s2

TwoNodes    == {n1, n2}
OneSession  == {s1}
TwoSessions == {s1, s2}
TwoAlike    == Permutations(TwoNodes)
BothAlike   == Permutations(TwoNodes) \cup Permutations(TwoSessions)
=============================================================================
