----------------------------- MODULE MCUctSearch -----------------------------
(***************************************************************************)
(* A small game for UctSearch; r is the node nr, and so on.  A run may     *)
(* leave out some of its nodes.                                            *)
(*                                                                         *)
(*   r --- a --- c --- g    g: a mate search finds a win, so c is lost     *)
(*     |     |-- d --- f    d: repetition, a draw; a is won through c      *)
(*     |-- b --- e          e and f: mate, no reply; b is won, r is lost    *)
(*                                                                         *)
(* A longer one for searches from a: g is open, and its move to e mates.   *)
(***************************************************************************)
EXTENDS BestMove, TLC

CONSTANTS nr, na, nb, nc, nd, ne, nf, ng, t1, t2

TreeKids == [n \in Nodes |-> SelectSeq(
  CASE n = nr -> <<na, nb>> [] n = na -> <<nd, nc>> [] n = nb -> <<ne>> [] n = nc -> <<ng>>
    [] n = nd -> <<nf>> [] OTHER -> << >>, LAMBDA k : k \in Nodes)]
TreePly == [n \in Nodes |-> CASE n = nr -> 0 [] n \in {na, nb} -> 1 [] n \in {nc, nd, ne} -> 2
                            [] OTHER -> 3]
TreeStatus == [n \in Nodes |-> CASE n = ng -> "win" [] n = nd -> "draw" [] OTHER -> "open"]
TreeNN == [n \in Nodes |-> CASE n = na -> 0 [] n = nb -> 2 [] OTHER -> 1]
TreeOutcome == [n \in Nodes |-> CASE n \in {na, nb, ng} -> "win" [] n \in {nr, nc, ne, nf} -> "lose"
                                [] OTHER -> "none"]
\* The side to move could have mated at d, where the game ends in a draw.
MissedOutcome == [n \in Nodes |-> IF n = nd THEN "win" ELSE TreeOutcome[n]]

LongKids == [TreeKids EXCEPT ![ng] = <<ne>>]
LongPly == [TreePly EXCEPT ![ne] = 4]
LongStatus == [TreeStatus EXCEPT ![ng] = "open"]

NoPonder == {FALSE}

Alike == Permutations(Threads)
=============================================================================
