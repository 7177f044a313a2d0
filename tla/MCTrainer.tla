----------------------------- MODULE MCTrainer -----------------------------
(* Two games that transpose, a file of positions, a file that ends in a     *)
(* game, an empty one; read in several ways, merged and re-evaluated.       *)
EXTENDS Trainer

one == 40320
MCTurn == [a |-> "Black", b |-> "White", c |-> "White", d |-> "Black", e |-> "White"]
MCAfter == [a |-> [m |-> "b", n |-> "c"], b |-> [m |-> "d"], c |-> [n |-> "d"],
            d |-> [m |-> "e"], e |-> [m |-> "d"]]
MCValue == [scale \in {0, 1} |->
              (0 :> one \div 2) @@ (30000 :> one - one \div 16)
              @@ (300 :> IF scale = 0 THEN (3 * one) \div 4 ELSE (5 * one) \div 8)
              @@ (-300 :> IF scale = 0 THEN one \div 4 ELSE (3 * one) \div 8)]

Info(move, eval, candidates, draw) == [move |-> move, eval |-> eval, candidates |-> candidates, draw |-> draw]
Visits(move, visits) == [move |-> move, visits |-> visits]
Game(hcp, result, whole, infos) == [hcp |-> hcp, result |-> result, whole |-> whole, infos |-> infos]
Record(hcp, move, eval, result) == [hcp |-> hcp, move |-> move, eval |-> eval, result |-> result]

MCFiles == [
   games |-> [hcpe |-> FALSE, records |-> <<
      Game("a", 1, TRUE, <<Info("m", 300, <<Visits("m", 3), Visits("n", 1)>>, "Not"),
                           Info("m", 0, <<>>, "Not"),
                           Info("m", 30000, <<Visits("m", 2)>>, "Not"),
                           Info("m", -300, <<Visits("m", 1)>>, "Inferior")>>),
      Game("a", 4, TRUE, <<Info("n", -300, <<Visits("m", 1), Visits("n", 3)>>, "Not"),
                           Info("n", 0, <<Visits("n", 1)>>, "Not"),
                           Info("m", 300, <<Visits("m", 1), Visits("p", 1)>>, "Not")>>)>>],
   more |-> [hcpe |-> FALSE, records |-> <<
      Game("b", 10, TRUE, <<Info("m", 0, <<Visits("m", 1)>>, "Not"),
                            Info("m", 0, <<Visits("m", 5)>>, "Not"),
                            Info("m", 0, <<Visits("m", 5)>>, "Win")>>)>>],
   positions |-> [hcpe |-> TRUE, records |-> <<
      Record("c", "n", 300, 1), Record("d", "p", 30000, 2), Record("c", "p", -300, 0)>>],
   torn |-> [hcpe |-> FALSE, records |-> <<
      Game("d", 2, TRUE, <<Info("m", 0, <<Visits("m", 1)>>, "Not")>>),
      Game("a", 1, FALSE, <<Info("m", 300, <<Visits("m", 1)>>, "Not")>>)>>],
   unsearched |-> [hcpe |-> FALSE, records |-> <<
      Game("a", 1, TRUE, <<Info("m", 300, <<>>, "Not")>>)>>]]

Job(names, average, evalfix, power, patch, cached) ==
   [files |-> names, average |-> average, evalfix |-> evalfix, power |-> power, patch |-> patch,
    cache |-> cached]
MCJobs == {
   Job(<<"games", "positions">>, TRUE, FALSE, 1, <<>>, "A"),
   Job(<<"nowhere", "more", "positions">>, TRUE, TRUE, 1, <<>>, "B"),
   Job(<<"games", "games">>, FALSE, TRUE, 0, <<Record("d", "m", 0, 2), Record("d", "p", 300, 1)>>, None),
   Job(<<"games", "positions">>, TRUE, FALSE, 2, <<Record("a", "m", 0, 2), Record("e", "m", 300, 1)>>, "C"),
   Job(<<"games">>, TRUE, FALSE, 2, <<Record("e", "m", 300, 1)>>, None),
   Job(<<"more", "unsearched">>, FALSE, FALSE, 1, <<>>, None),
   Job(<<"nowhere">>, FALSE, FALSE, 1, <<>>, None)}
MCCaches == {"A", "B", "C"}

Even(x) == one \div x
MCPolicy == [a |-> [m |-> Even(2), n |-> Even(4), p |-> Even(5), q |-> Even(20)],
             b |-> [m |-> Even(2), p |-> Even(2)],
             c |-> [n |-> Even(4), p |-> 3 * Even(4)],
             d |-> [m |-> Even(8), p |-> Even(8), n |-> 3 * Even(4)],
             e |-> [m |-> one]]
MCWorth == [a |-> Even(2), b |-> Even(8), c |-> 0, d |-> one, e |-> 3 * Even(4)]
Mix(p, v, r, limit, dropoff) == [p |-> p, v |-> v, r |-> r, limit |-> limit, dropoff |-> dropoff]
MCMixes == {Mix(4, 0, 3, 2, one), Mix(1, 2, 0, 3, Even(4)), Mix(0, 4, 4, 1, 0)}
MCShuffles == [n \in 0 .. 10 |-> {[k \in 1 .. n |-> n + 1 - k]}]
=============================================================================
