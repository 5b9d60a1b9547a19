---------------------------- MODULE MCIntentDrafts ----------------------------
(* Messages, edits and settings for TLC.                                    *)
EXTENDS IntentDrafts, TLC

Nothing ==
  [task |-> Blank, source |-> Blank, dest |-> Blank, start |-> 0, end |-> 0, now |-> "unsaid",
   lasts |-> 0, size |-> Blank, count |-> Blank, strategy |-> Blank]

Complete == [Nothing EXCEPT !.task = "matmul", !.source = "h1", !.dest = "h2", !.now = "yes",
                            !.lasts = 1, !.size = "good", !.count = "good"]
Later == [Nothing EXCEPT !.start = 3, !.now = "not"]
Cheaper == [Nothing EXCEPT !.task = "transfer", !.dest = "h1", !.strategy = "cost_priority", !.size = "zero"]
Unknown == [Nothing EXCEPT !.source = "hx", !.task = "fusion", !.start = 1, !.end = 3]

Ends_ == {[end |-> 1], [start |-> 3, end |-> 4]}
Sinks == {[destInput |-> "h1"], [dest |-> "h1", destInput |-> Blank], [port |-> "off"]}
Callbacks == {[callback |-> "own", port |-> "set"]}
Plans == {[routeOnly |-> TRUE, resources |-> "asked"], [size |-> "bad"], [sourceInput |-> "h2"]}
Junk == {[strategy |-> "junk"]}

\* Talking; editing; both with a stream; endpoints that go; settings that change.
MCScenarios ==
  {[kinds |-> {"message", "confirm"}, said |-> {Complete, Later, Cheaper, Unknown}, edits |-> {}, others |-> {}],
   [kinds |-> {"message", "patch", "confirm"}, said |-> {Complete}, edits |-> Ends_ \cup Sinks, others |-> {}],
   [kinds |-> {"message", "patch", "confirm"}, said |-> {Complete}, edits |-> Plans, others |-> {}],
   [kinds |-> {"stream", "patch", "confirm"}, said |-> {Complete, Later}, edits |-> Junk, others |-> {}],
   [kinds |-> {"message", "patch", "confirm"}, said |-> {Complete}, edits |-> Callbacks, others |-> {"nodes"}],
   [kinds |-> {"message", "confirm"}, said |-> {Complete}, edits |-> {}, others |-> {"admin"}]}

MCPayloads == {[parser |-> "rule", routing |-> "external"], [fallback |-> FALSE, override |-> TRUE]}
MCLegacy == {[mode |-> "development", value |-> [parser |-> "rule"]]}
MCSymmetry == Permutations(Handlers)
=============================================================================
