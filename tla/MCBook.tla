------------------------------- MODULE MCBook -------------------------------
(***************************************************************************)
(* Seven positions with a way around 4 - 2 - 5 - 1, one of them mate, and  *)
(* an eighth that no game reaches, the last one of some books.             *)
(***************************************************************************)
EXTENDS BookMaker

MCTurn == [k \in {1, 2, 3, 4, 5, 6, 7, 9} |-> IF k \in {1, 2, 6} THEN "White" ELSE "Black"]
MCAfter ==
   [k \in DOMAIN MCTurn |->
      CASE k = 4 -> "a" :> 2 @@ "x" :> 6
        [] k = 2 -> "b" :> 5 @@ "y" :> 7
        [] k = 5 -> "c" :> 1 @@ "z" :> 6
        [] k = 1 -> "d" :> 4 @@ "w" :> 3
        [] k = 6 -> "e" :> 3
        [] k = 7 -> "f" :> 6
        [] k = 9 -> "p" :> 2 @@ "q" :> 6
        [] OTHER -> <<>>]
MCDrawScore == [c \in {"Black", "White"} |-> IF c = "Black" THEN -30 ELSE 30]

Won(winner, moves) == [winner |-> winner, moves |-> moves]
MCRecords ==
   { << Won("Black", <<"a", "b", "c", "d", "a">>), Won("Black", <<"x">>),
        Won("Black", <<"a", "b", "z">>), Won("Black", <<"a", "y", "f", "f", "e">>) >>,
     << Won("White", <<"a", "y">>), Won("White", <<"a", "b", "c", "d">>),
        Won("White", <<"a", "y", "f">>), Won("Draw", <<"a">>) >> }
Unmet == <<Entry(9, "p", 2, 100), Entry(9, "q", 1, 50)>>
MCOtherBooks ==
   { <<Entry(2, "b", 1, 40), Entry(2, "y", 1, 60), Entry(4, "x", 2, -20), Entry(4, "a", 1, 30)>> \o Unmet,
     <<Entry(1, "w", 1, 80), Entry(4, "a", 1, -70)>> }
MCShares == {[two |-> 0, of |-> 10], [two |-> 5, of |-> 10]}
MCMergeFiles == {<<Entry(4, "x", 700, 10), Entry(5, "c", 500, 20), Entry(5, "z", 300, 25), Entry(7, "f", 5, 0)>>}

Child(move, visits, rate) == [move |-> move, visits |-> visits, rate |-> rate]
MCSearched ==
   [k \in DOMAIN MCTurn |->
      CASE k = 4 -> {<<Child("a", 600, 550), Child("x", 400, 540)>>}
        [] k = 2 -> {<<Child("b", 500, 500), Child("y", 500, 500)>>}
        [] k = 5 -> {<<Child("c", 700, 500), Child("z", 300, 300)>>, <<Child("z", 600, 990), Child("c", 400, 985)>>}
        [] k = 1 -> {<<Child("d", 600, 500), Child("w", 400, 495)>>}
        [] k = 6 -> {<<Child("e", 1000, 550)>>}
        [] k = 7 -> {<<Child("f", 1000, 300)>>}
        [] OTHER -> {<<>>}]
MCScoreOf == [r \in {300, 495, 500, 540, 550, 985, 990} |->
                CASE r = 300 -> -639 [] r = 495 -> -15 [] r = 500 -> 0 [] r = 540 -> 120
                  [] r = 550 -> 151 [] r = 985 -> 3155 [] OTHER -> 3466]
MCMinBookScore == -600
MCOptions == {[draw |-> FALSE, depth |-> 0, best |-> FALSE], [draw |-> FALSE, depth |-> 0, best |-> TRUE],
              [draw |-> TRUE, depth |-> 0, best |-> TRUE], [draw |-> TRUE, depth |-> 2, best |-> TRUE]}
=============================================================================
