---------------------------- MODULE DagLifecycle ----------------------------
(***************************************************************************)
(* What invocations of execute_dag_start promise, whatever the order in    *)
(* which agents answer: a container is asked for only when every upstream  *)
(* node is ready, and the instance is declared running only when no node   *)
(* that could still be started is left over.                               *)
(***************************************************************************)
CONSTANTS Node, Edge, Start

VARIABLES
  asked,    \* invocation -> nodes whose container has been requested
  ready,    \* invocation -> nodes that have been seen healthy
  outcome   \* invocation -> "busy", then "running" or "other" for good

vars == <<asked, ready, outcome>>

Up(n) == {m \in Node : <<m, n>> \in Edge}

Init ==
  /\ asked = [r \in Start |-> {}]
  /\ ready = [r \in Start |-> {}]
  /\ outcome = [r \in Start |-> "busy"]

Ask(r, n) ==
  /\ outcome[r] = "busy"
  /\ Up(n) \subseteq ready[r]
  /\ asked' = [asked EXCEPT ![r] = @ \cup {n}]
  /\ UNCHANGED <<ready, outcome>>

\* Also after the invocation is over: its tasks are not cancelled.
BecomeReady(r, n) ==
  /\ n \in asked[r]
  /\ ready' = [ready EXCEPT ![r] = @ \cup {n}]
  /\ UNCHANGED <<asked, outcome>>

\* No node is left whose upstream nodes are all ready.
Complete(r) == \A n \in Node \ ready[r] : ~ (Up(n) \subseteq ready[r])

DeclareRunning(r) ==
  /\ outcome[r] = "busy"
  /\ Complete(r)
  /\ outcome' = [outcome EXCEPT ![r] = "running"]
  /\ UNCHANGED <<asked, ready>>

\* One invocation fails, or the process dies with all it was executing.
GiveUp(R) ==
  /\ \A r \in R : outcome[r] = "busy"
  /\ outcome' = [r \in Start |-> IF r \in R THEN "other" ELSE outcome[r]]
  /\ UNCHANGED <<asked, ready>>

Next ==
  \/ \E r \in Start, n \in Node : Ask(r, n)
  \/ \E r \in Start, n \in Node : BecomeReady(r, n)
  \/ \E r \in Start : DeclareRunning(r)
  \/ \E R \in SUBSET Start : GiveUp(R)

Spec == Init /\ [][Next]_vars
=============================================================================
