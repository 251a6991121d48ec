--------------------------- MODULE MCPluginRuntime ---------------------------
(* Instances of PluginRuntime for TLC. *)
EXTENDS PluginRuntime, TLC

CONSTANTS w1, w2, w3, c1, c2, old, new, bad

Generations == {w1, w2, w3}
Events      == {c1, c2}
Packages    == {old, new, bad}
Refused     == {bad}
=============================================================================
