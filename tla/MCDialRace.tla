----------------------------- MODULE MCDialRace -----------------------------
(* Instances of DialRace for TLC. *)
EXTENDS DialRace, TLC

Request(mode, relay, workers, edge, cfproxy) ==
  [mode |-> mode, relay |-> relay, v6 |-> FALSE, workers |-> workers, edge |-> edge,
   custom |-> FALSE, cfproxy |-> cfproxy, dc |-> 2, probe |-> FALSE]

DC2 == {2}
OneBase == {"b1"}
Symm == Permutations(Caller)

\* Dials that share a Worker and the data centre: a Worker and the pool in two
\* batches, a relay and the Worker in one; a probe of the two names of the edge,
\* which the refills dial too; and, beside a single plan only, a dial whose two Workers
\* race before the pool.
Probing(r) == [r EXCEPT !.probe = TRUE]
Long == Request("ws", 0, <<"w1", "w2">>, FALSE, TRUE)
Single == Probing(Request("ws", 0, <<"w1">>, FALSE, FALSE))
Shared ==
  {Request("ws", 0, <<"w1">>, FALSE, TRUE), Request("auto", 443, <<"w1">>, FALSE, FALSE),
   Probing(Request("ws", 0, <<>>, TRUE, FALSE)), Long, Single}

MCInit == Init /\ \A x, y \in Caller : x # y /\ req[x] = Long => req[y] = Single
MCSpec == MCInit /\ [][Next]_vars

\* A relay in front of a Worker and the edge.
Relayed == {Request("auto", 443, <<"w1", "w2">>, TRUE, FALSE)}

\* The default mode, a data centre of the native edge.
Auto == {Request("auto", 0, <<>>, TRUE, FALSE)}

TwoPlans == {Request("ws", 0, <<>>, TRUE, FALSE)}

\* A dial and a probe of one Worker.
Probed ==
  LET dial == Request("ws", 0, <<"w1">>, FALSE, FALSE)
  IN {dial, [dial EXCEPT !.probe = TRUE]}
=============================================================================
