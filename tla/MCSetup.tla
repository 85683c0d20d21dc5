------------------------------- MODULE MCSetup -------------------------------
(* Setup for TLC: identifiers are ranked in alphabetical order.            *)
EXTENDS Setup

Alphabet == << "builder", "default", "extra", "feature_delivery", "local-default", "main",
               "ops", "planner", "prd_draft", "quick_answer", "release_notes", "researcher",
               "reviewer", "writer" >>

MCRank == [name \in ToSet(Alphabet) |-> CHOOSE i \in DOMAIN Alphabet : Alphabet[i] = name]

Start(configured, edit, command) ==
    [configured |-> configured, edits |-> edit, commands |-> command, crashes |-> 1]

\* No settings yet; two edits in a quiet session; one edit beside a command; a command
\* and an edit with two orchestrators.
MCStarts == { Start({}, 1, 0), Start({"main"}, 2, 0), Start({"main"}, 1, 1),
              Start({"main", "ops"}, 1, 1) }

MCOutputInputs == { {"artifact"} }

MCAccessInputs == { {"unknown"} }
=============================================================================
