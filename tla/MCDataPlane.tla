----------------------------- MODULE MCDataPlane -----------------------------
(* DataPlane for TLC: the configurations a run reloads between.             *)
EXTENDS DataPlane

\* One service stays and grows or shrinks, another comes and goes.
TwoServices == {"s1", "s2"}
TwoConfigs == {[s \in TwoServices |-> 1],
               [s \in TwoServices |-> IF s = "s1" THEN 2 ELSE 0]}
=============================================================================
