----------------------------- MODULE EventFeed -----------------------------
(***************************************************************************)
(* What the event store promises to the followers of one run: a log that   *)
(* only grows, of which every follower has seen a prefix, each event once  *)
(* and in order.                                                           *)
(***************************************************************************)
EXTENDS Naturals, Sequences

CONSTANT Followers

VARIABLES log,  \* the events of the run, oldest first
          seen  \* what each follower has received

Init == log = << >> /\ seen = [f \in Followers |-> << >>]

\* One event is added at the end.
Publish == /\ Len(log') = Len(log) + 1
           /\ SubSeq(log', 1, Len(log)) = log
           /\ UNCHANGED seen

\* A follower receives the events that come next for it.
Receive == /\ UNCHANGED log
           /\ \E f \in Followers : \E n \in Len(seen[f]) + 1 .. Len(log) :
                 seen' = [seen EXCEPT ![f] = SubSeq(log, 1, n)]

Spec == Init /\ [][Publish \/ Receive]_<<log, seen>>
=============================================================================
