----------------------------- MODULE MCDispatch -----------------------------
(***************************************************************************)
(* Small instances of Dispatch for TLC.                                    *)
(***************************************************************************)
EXTENDS Dispatch, TLC

Sym == Permutations(Threads)

Alphabet == <<"a", "b">>
\* One step has no output worth showing.
KeysOf == [s \in {"a", "b"} |-> IF s = "a" THEN {"summary"} ELSE {}]

\* Two workflows; the steps of the longer one are not in alphabetical order.
Declared == [w \in {"short", "long"} |-> IF w = "long" THEN <<"b", "a">> ELSE <<"a">>]

Begins(w)   == [action |-> "workflow_start", of |-> w]
Invoke(f)   == [action |-> "command_invoke", of |-> f]
Only(a)     == [action |-> a, of |-> "none"]
Junk        == Begins("undeclared")

M(source, conv, direct, mentioned, text, run) ==
    [source |-> source, conv |-> conv, direct |-> direct, mentioned |-> mentioned, text |-> text, run |-> run]
B(errors, silent, crashes, quits, starts, ticks) ==
    [errors |-> errors, silent |-> silent, crashes |-> crashes, quits |-> quits, starts |-> starts, ticks |-> ticks]

Slack(conv, mentioned, text) == M("slack", conv, FALSE, mentioned, text, 0)
Local(text) == M("local", "chat", TRUE, FALSE, text, 0)
Unknown == 9

S(m1, m2, answers, b) ==
    [msgs |-> [m \in {"m1", "m2"} |-> IF m = "m1" THEN m1 ELSE m2], answers |-> answers, budget |-> b]

Stories ==
  { \* an answer of an earlier delivery; silence for a message that need not be answered
    S(Slack("c1", TRUE, "plain"), Slack("c2", FALSE, "plain"),
      {Junk, Only("no_response"), Begins("short")}, B(2, 1, 0, 0, 1, 0)),
    \* a run is canceled, or its status asked, from another conversation or the same
    S(Slack("c1", TRUE, "plain"), Slack("c2", TRUE, "cancel"),
      {Begins("long"), Invoke("cancel")}, B(1, 0, 0, 0, 1, 1)),
    S(Slack("c1", TRUE, "plain"), Slack("c2", TRUE, "cancel"),
      {Begins("short"), Invoke("cancel")}, B(1, 0, 1, 0, 2, 0)),
    S(Slack("c1", TRUE, "plain"), M("slack", "c1", TRUE, FALSE, "status", 1),
      {Begins("long"), Only("workflow_status")}, B(0, 0, 1, 0, 2, 1)),
    \* the daemon is told to stop by a message
    S(Local("stop"), Slack("c1", TRUE, "show"), {Invoke("stop"), Invoke("show")}, B(0, 0, 0, 0, 2, 0)),
    S(Local("stop"), Slack("c1", TRUE, "show"), {Invoke("stop"), Invoke("show")}, B(1, 0, 0, 0, 1, 0)),
    S(Slack("c1", TRUE, "stop"), Slack("c2", TRUE, "show"), {Invoke("stop"), Invoke("show")}, B(1, 0, 0, 0, 2, 0)),
    \* the chat beside the daemon
    S(Local("plain"), Slack("c1", TRUE, "plain"), {Begins("long")}, B(1, 0, 0, 0, 1, 0)),
    S(Local("show"), Slack("c1", TRUE, "show"), {Invoke("show")}, B(0, 0, 1, 1, 2, 0)),
    S(Local("show"), Slack("c1", TRUE, "show"), {Invoke("show")}, B(1, 0, 0, 1, 1, 0)),
    S(Local("show"), Slack("c1", TRUE, "show"), {Invoke("show")}, B(1, 0, 1, 0, 2, 0)),
    \* a heartbeat, and a message that names a run
    S(M("heartbeat", "hb", FALSE, FALSE, "plain", Unknown), M("slack", "c2", FALSE, TRUE, "plain", 1),
      {Begins("long")}, B(0, 0, 0, 0, 1, 0)),
    S(Slack("c1", TRUE, "plain"), M("slack", "c2", FALSE, TRUE, "plain", 1), {Begins("long")}, B(0, 0, 1, 0, 2, 1)) }
=============================================================================
