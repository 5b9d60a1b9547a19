---------------------------- MODULE MCDagExecutor ----------------------------
(* Small graphs for TLC.                                                    *)
EXTENDS DagExecutor, TLC

CONSTANTS a, b, c

\* One source, two nodes behind it: siblings, no join.
Fork == {<<a, b>>, <<a, c>>}

\* Two sources, one node behind both.
Join == {<<a, c>>, <<b, c>>}
=============================================================================
