--------------------------- MODULE MCGraphBuilder ---------------------------
(* Small instances of the graph builder for TLC. *)
EXTENDS GraphBuilder

CONSTANTS c1, c2, l1

\* c1 and c2 are two screens of one single-activity app, l1 is the launcher.
AppOf(c) == IF c \in {c1, c2} THEN "app" ELSE "launcher"

\* Only c1 has twins: every other screen shows one chrome.
OneTwin(c) == IF c = c1 THEN Observable ELSE {CHOOSE d \in Observable : TRUE}
=============================================================================
