------------------------------ MODULE MCMemory ------------------------------
(* Instance of Memory: a text file in two versions, a JSON file that adds a *)
(* goal contradicting a transcript, one that retracts a workflow output,    *)
(* and files that are refused or do not parse.                              *)
EXTENDS Memory

Body(kind, nodes, es) == [kind |-> kind, nodes |-> nodes, edges |-> es]
Node(id, status) == [id |-> id, status |-> status]

MCBodies ==
    [v1 |-> Body("text", {}, {}),
     v2 |-> Body("text", {}, {}),
     goal |-> Body("json", {Node(<<"j", "goal">>, "active")}, {<<<<"j", "goal">>, <<"t", "m1">>>>}),
     retract |-> Body("json", {Node(<<"w", "step">>, "retracted"), Node(<<"t", "m1">>, "retracted")}, {}),
     junk |-> Body("refused", {}, {}),
     bad |-> Body("bad", {}, {})]

Scenario(drops, runs, attempts, faults, crashes, moves, ticks, limit) ==
    [drops |-> drops, runs |-> runs, attempts |-> attempts, faults |-> faults,
     crashes |-> crashes, moves |-> moves, ticks |-> ticks, limit |-> limit]

MCScenarios ==
    { Scenario(<<<<"note", "v1">>, <<"note", "v2">>, <<"note", "v1">>>>, <<>>, 0, 1, 1, 0, 0, 22),
      Scenario(<<<<"note", "bad">>, <<"other", "junk">>, <<"note", "v1">>>>, <<>>, 0, 1, 1, 0, 0, 22),
      Scenario(<<<<"note", "retract">>>>, <<"m1", "m1">>, 2, 1, 0, 0, 0, 20),
      Scenario(<<<<"note", "goal">>>>, <<"m1", "m2">>, 1, 0, 0, 1, 0, 20),
      Scenario(<<<<"note", "goal">>>>, <<"m1">>, 1, 0, 0, 0, 0, 9),
      Scenario(<<>>, <<"m1", "m2", "m3">>, 0, 2, 0, 0, 1, 22),
      Scenario(<<>>, <<"m1", "m2", "m1">>, 0, 1, 1, 0, 0, 22) }

MCFileNames == <<"note", "other">>
=============================================================================
