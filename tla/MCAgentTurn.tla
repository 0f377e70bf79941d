----------------------------- MODULE MCAgentTurn -----------------------------
(* Small instances of AgentTurn for TLC. *)
EXTENDS AgentTurn

CONSTANTS list1, list2, count, doc, s1, s2

SomeMessages == {{}, {"data"}, {"patrol"}, {"action"}, {"forbidden", "action"}}
SomeQueries == {list1, list2, count, doc}
TerminalQueries == {list1, list2, count}
ListQueries == {list1, list2}
TwoSlots == {s1, s2}
=============================================================================
