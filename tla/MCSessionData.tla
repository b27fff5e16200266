--------------------------- MODULE MCSessionData ----------------------------
(* An instance of SessionData for TLC. *)
EXTENDS SessionData

\* A chain of three tasks with its last or its second completed, and a ring of them.
TheTasks == {1, 2, 3}
Chain == [t \in TheTasks |-> {t + 1} \ {4}]
Ring == [t \in TheTasks |-> {(t % 3) + 1}]
TheCandidates == [dependencies: {Chain}, completed: {{2}, {3}}] \union [dependencies: {Ring}, completed: {{}}]

\* A turn of one call and turns of two.
TheTurns == {<<1>>, <<2, 3>>, <<4, 5>>}
=============================================================================
