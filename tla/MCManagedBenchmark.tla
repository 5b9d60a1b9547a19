-------------------------- MODULE MCManagedBenchmark --------------------------
(* Instances of ManagedBenchmark for TLC. *)
EXTENDS ManagedBenchmark, TLC

OneSlot == [o \in Orders |-> "s1"]
Symmetric == Permutations(Orders)

\* Two controllers multiply the states: they get one round each.
Everything == {[kinds |-> {"run", "stop", "crash", "fault", "manual", "user"},
                events |-> 2, rounds |-> 2],
               [kinds |-> {"untyped"}, events |-> 1, rounds |-> 1]}
Stopping == {[kinds |-> {"run", "stop", "crash", "fault"}, events |-> 3, rounds |-> 3],
             [kinds |-> {"untyped", "stop", "crash", "fault"}, events |-> 2, rounds |-> 1]}
=============================================================================
