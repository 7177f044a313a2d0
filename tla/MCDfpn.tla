------------------------------- MODULE MCDfpn -------------------------------
(* Games of two OR boards and two AND boards, of which a and x are searched. *)
EXTENDS Dfpn

Lists(S) == {<<>>} \cup {<<x>> : x \in S} \cup {p \in S \X S : p[1] # p[2]}

Pieces == [a : {2}, b : 1..2, x : {1, 3}, y : 1..2]
Shapes == [a : {<<"x">>, <<"x", "y">>, <<"y", "x">>}, b : Lists(AndBoards), x : Lists(OrBoards), y : Lists(OrBoards)]

Ok(g) ==
  /\ \A b \in DOMAIN g.succ : \A i \in DOMAIN g.succ[b] : g.pieces[g.succ[b][i]] - g.pieces[b] \in -1..1
  /\ \A b \in AndBoards : g.near[b] => \A i \in DOMAIN g.succ[b] : g.pieces[g.succ[b][i]] >= g.pieces[b]
  /\ \E b \in AndBoards : \A i \in DOMAIN g.succ[b] : g.pieces[g.succ[b][i]] < g.pieces[b]
  /\ "b" \in ToSet(g.succ.x) \/ ("b" \in ToSet(g.succ.y) /\ Len(g.succ.a) = 2)
  /\ "y" \in ToSet(g.succ.a) \cup ToSet(g.succ.b)

MCGraphs == {g \in [pieces : Pieces, succ : Shapes, near : [x : BOOLEAN, y : BOOLEAN]] : Ok(g)}
=============================================================================
