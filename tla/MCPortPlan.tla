------------------------------- MODULE MCPortPlan -------------------------------
(* Callers are interchangeable.                                             *)
EXTENDS PortPlan, TLC

MCSymmetry == Permutations(Callers) \cup Permutations(Instances)
=============================================================================
