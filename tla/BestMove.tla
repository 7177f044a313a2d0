------------------------------ MODULE BestMove ------------------------------
(***************************************************************************)
(* What the engine makes of a search that has ended (usi/UctSearch.cpp):   *)
(* the order of the moves of the root, the principal variation of one, the *)
(* move that is answered with one line or several, at random or not, and   *)
(* whether it resigns instead.  The nnrate that decides between moves with *)
(* as many visits is left out: either may come first.                      *)
(***************************************************************************)
EXTENDS UctSearch

(* compare_child_node_ptr_descending: moves to positions lost for the       *)
(* opponent come first and those to won ones last; then the visits decide.  *)
(* (No move has both flags: FlagsSound.)                                    *)
Class(k) == IF "W" \in flag[k] THEN 0 ELSE IF "L" \in flag[k] THEN 2 ELSE 1

Precedes(j, k) == \/ Class(j) > Class(k)
                  \/ Class(j) = Class(k) /\ emc[j] > emc[k]

(* The first num moves of a partial sort, each a set: the moves that may    *)
(* stand there.                                                             *)
Sorted(c, num) ==
  [i \in 1 .. num |-> {k \in KidSet(c) :
     /\ Cardinality({j \in KidSet(c) : Precedes(j, k)}) < i
     /\ Cardinality({j \in KidSet(c) : ~ Precedes(k, j)}) >= i}]

(* get_pv: the line from the move to k, by select_max_child_node as far as  *)
(* there are nodes with moves; and the value of the move as a fraction.     *)
Pv(k) ==
  LET from[n \in Nodes] ==
        IF n \in created /\ HasChildren(n) THEN <<n>> \o from[MaxChild(n)] ELSE <<n>>
  IN  from[k]
BestWp(k) == IF "L" \in flag[k] THEN <<One, 1>>
             ELSE IF "W" \in flag[k] THEN <<0, 1>> ELSE <<ewin[k], emc[k]>>
PonderMove(k) == IF Len(Pv(k)) > 1 THEN {Pv(k)[2]} ELSE {}

(* select_random_child_node: the moves in their order up to the first one   *)
(* that was not visited or whose average is more than cutoff below that of  *)
(* the first.  Their average does not know of the flags.                    *)
Eligible(first, k, cutoff) ==
  emc[k] > 0 /\ ewin[k] * emc[first] >= (ewin[first] - cutoff * emc[first]) * emc[k]
RandomChildren(c, cutoff) ==
  UNION {IF emc[first] = 0 THEN {first}
         ELSE {k \in KidSet(c) : /\ Eligible(first, k, cutoff)
                                 /\ \A j \in KidSet(c) : Precedes(j, k) => Eligible(first, j, cutoff)}
         : first \in Sorted(c, 1)[1]}

(* get_and_print_pv without random moves: with one line the greatest child, *)
(* with several the first of the sorted ones.                               *)
Answers(c, multi_pv) == IF multi_pv = 1 THEN {MaxChild(c)} ELSE Sorted(c, 1)[1]

(* UctSearchGenmove resigns when best_wp < RESIGN_THRESHOLD.  A move never  *)
(* visited has no value (0 / 0) and is less than nothing.                   *)
Resigns(k, threshold) ==
  LET wp == BestWp(k) IN wp[2] > 0 /\ wp[1] < threshold * wp[2]

(* GetMultiPonderMove: the positions to think about while the opponent      *)
(* does; none if there is no choice.                                        *)
GetMultiPonderMove(c, num) ==
  IF Cardinality(KidSet(c)) <= 1 THEN << >> ELSE Sorted(c, Min({num, Cardinality(KidSet(c))}))

-----------------------------------------------------------------------------
(* "Once one child is lost, the position is won, so take it" (comment of    *)
(* UctSearch.h:146): the move that is answered wins, whatever the order and *)
(* the visits of the others, with one line or several; it is never resigned *)
(* whatever the threshold; and the lines shown and the positions pondered   *)
(* on begin with the wins.  A random move may give the win up, but is one   *)
(* the search has visited.  Every line is one of the game.                  *)
WinIsPlayed ==
  LET wins == {k \in KidSet(head) : "L" \in flag[k]}
  IN  Answered /\ wins # {} =>
        /\ \A multi_pv \in 1 .. 2 : \A k \in Answers(head, multi_pv) :
             /\ Outcome[k] = "lose"
             /\ PonderMove(k) \subseteq KidSet(k)
             /\ \A i \in 1 .. Len(Pv(k)) - 1 : Pv(k)[i + 1] \in KidSet(Pv(k)[i])
             /\ \A threshold \in 0 .. One : ~ Resigns(k, threshold)
        /\ LET lines == GetMultiPonderMove(head, Cardinality(wins))
           IN  \A i \in DOMAIN lines : lines[i] \subseteq wins
        /\ \A cutoff \in 0 .. One : \A k \in RandomChildren(head, cutoff) :
             emc[k] > 0
=============================================================================
