------------------------- MODULE MCEngineLifecycle --------------------------
(***************************************************************************)
(* Instances of EngineLifecycle for TLC.  Engine objects, flows and        *)
(* sessions are interchangeable.                                           *)
(***************************************************************************)
EXTENDS EngineLifecycle, TLC

CONSTANTS s1, s2, e1, e2, e3, e4, f1, f2, f3

OneSession   == {s1}
TwoSessions  == {s1, s2}
ThreeEngines == {e1, e2, e3}
FourEngines  == {e1, e2, e3, e4}
TwoFlows     == {f1, f2}
ThreeFlows   == {f1, f2, f3}
Alike        == Permutations(FourEngines) \cup Permutations(ThreeFlows)
BothAlike    == Alike \cup Permutations(TwoSessions)
=============================================================================
