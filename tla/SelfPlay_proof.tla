--------------------------- MODULE SelfPlay_proof ---------------------------
(***************************************************************************)
(* Theorems about self-play, for any number of games and engines and any   *)
(* options: a game takes the answers of the mate thread and of the engine  *)
(* for the position it has and no other, and what it writes is the game.   *)
(***************************************************************************)
EXTENDS SelfPlay, TLAPS

Record == [at : Nat, colour : Colours, by : {"self", "engine"}, trained : BOOLEAN]
GameType ==
  [ply : Nat, turn : Colours, engine : {-1, 0, 1}, open : BOOLEAN, playout : Nat, limit : Nat,
   visits : [{1, 2} -> Nat], lost : {0, 1, 2}, mate : BOOLEAN, records : Seq(Record)]
Freshness == SUBSET {"copy", "status", "move", "asked", "answer"}

Types ==
  /\ game \in [Games -> GameType] /\ backup \in [Games -> {0, 1, 2}]
  /\ pc \in {"loop", "play", "eval", "step", "wait", "think", "end"}
  /\ cur \in Games /\ ret \in {"play", "step"}
  /\ slot \in [Games -> {"NOMATE", "RUNING", "WIN", "LOSE"}]
  /\ queue \in Seq(Games) /\ work \in Seq(Games) /\ mpc \in {"take", "copy", "solve", "win", "end"}
  /\ engine \in [Engines -> [pc : {"idle", "start", "think"}, game : Games]]
  /\ answer \in [Games -> {"none", "move", "resign", "win", "abort"}]
  /\ fresh \in [Games -> Freshness]

(* The records of game r are those of its plies, by the side to move.       *)
AtEngine(r) == r.ply % 2 = r.engine /\ r.ply > RandomMove
Side(r, i)  == IF i % 2 = r.ply % 2 THEN r.turn ELSE Other(r.turn)
RecordsOf(r) ==
  \A i \in DOMAIN r.records :
    /\ r.records[i].at = i
    /\ r.records[i].by = "engine" <=> i > RandomMove /\ i % 2 = r.engine
    /\ r.records[i].colour = Side(r, i)

(* A game waits for the mate thread only where it searches a root.          *)
GameOK(r) ==
  /\ r.mate => r.open
  /\ r.open => r.ply > 0 /\ ~ AtEngine(r)
  /\ RecordsOf(r) /\ Len(r.records) = IF r.ply = 0 THEN 0 ELSE r.ply - 1
GamesInv ==
  /\ \A g \in Games : GameOK(game[g])
  /\ pc = "wait" => ~ AtEngine(game[cur])

(* A game is in the queues of the mate thread just if its slot is RUNING,   *)
(* and then once; what the thread is at is of the position it was asked.    *)
Distinct(q) == \A i, j \in DOMAIN q : q[i] = q[j] => i = j
In(g, q)    == \E i \in DOMAIN q : q[i] = g
QueueInv ==
  /\ Distinct(queue) /\ Distinct(work)
  /\ \A g \in Games : ~ (In(g, queue) /\ In(g, work))
  /\ \A g \in Games : slot[g] = "RUNING" <=> In(g, queue) \/ In(g, work)
  /\ \A g \in Games : slot[g] = "RUNING" => game[g].mate
  /\ mpc \in {"copy", "solve", "win"} <=> work # << >>
  /\ mpc \in {"solve", "win"} => "copy" \in fresh[Head(work)]
  /\ mpc = "win" => "move" \in fresh[Head(work)]

(* The thread of an engine is of a game that has it; if that game is at a   *)
(* ply of its engine, the engine was asked for this ply.                    *)
EngineInv ==
  /\ \A e \in Engines : engine[e].pc # "idle" => e = EngineOf(engine[e].game)
  /\ \A e \in Engines : LET g == engine[e].game IN
       engine[e].pc = "think" /\ EnginePly(g) /\ ~ (pc = "think" /\ cur = g) => "asked" \in fresh[g]

(* NextStep comes only to games that have begun, for Playout begins them.   *)
PlyInv ==
  /\ pc = "play" => ret = "play"
  /\ pc = "eval" => \A g \in Games : game[g].ply > 0
  /\ pc \in {"step", "wait", "think"} => game[cur].ply > 0
  /\ pc \in {"play", "step", "wait", "think"} =>
       \A g \in Games : (IF ret = "play" THEN g < cur ELSE g > cur) => game[g].ply > 0

Inv == Types /\ GamesInv /\ QueueInv /\ EngineInv /\ AnswersAreOwn

-----------------------------------------------------------------------------
LEMMA Colour ==
  /\ Other("Black") = "White" /\ Other("White") = "Black"
  /\ \A c \in Colours : Other(c) \in Colours /\ Other(Other(c)) = c /\ Other(c) # c
<1>1. \A c \in Colours : \E d \in Colours : d # c
  BY DEF Colours
<1>2. \A c \in Colours : Other(c) \in Colours /\ Other(c) # c
  BY <1>1 DEF Other
<1> QED BY <1>2 DEF Colours

LEMMA GameNumbers == 1 \in Games /\ (\A g \in Games : g < NGames => g + 1 \in Games) /\ Games \subseteq Nat
BY GameAssumption DEF Games

(* What a sequence has after Append and after Tail.                         *)
LEMMA Appended ==
  ASSUME NEW S, NEW q \in Seq(S), NEW x \in S
  PROVE  /\ Append(q, x) \in Seq(S) /\ Len(Append(q, x)) = Len(q) + 1
         /\ DOMAIN Append(q, x) = DOMAIN q \cup {Len(q) + 1} /\ Len(q) + 1 \notin DOMAIN q
         /\ Append(q, x)[Len(q) + 1] = x
         /\ \A i \in DOMAIN q : Append(q, x)[i] = q[i]
<1>1. DOMAIN q = 1..Len(q) /\ Len(q) \in Nat
  OBVIOUS
<1>2. DOMAIN Append(q, x) = 1..Len(q) + 1
  OBVIOUS
<1> QED BY <1>1, <1>2

LEMMA OneMore ==
  ASSUME NEW S, NEW q \in Seq(S), Distinct(q), NEW x \in S, ~ In(x, q)
  PROVE  /\ Append(q, x) \in Seq(S) /\ Distinct(Append(q, x))
         /\ \A y : In(y, Append(q, x)) <=> y = x \/ In(y, q)
BY Appended DEF Distinct, In

LEMMA OneLess ==
  ASSUME NEW S, NEW q \in Seq(S), Distinct(q), q # << >>
  PROVE  /\ Head(q) \in S /\ Tail(q) \in Seq(S) /\ In(Head(q), q)
         /\ Distinct(Tail(q)) /\ \A y : In(y, Tail(q)) <=> y # Head(q) /\ In(y, q)
         /\ Tail(q) = << >> <=> Len(q) = 1
<1>1. Len(q) \in Nat /\ Len(q) >= 1 /\ DOMAIN q = 1..Len(q) /\ Head(q) = q[1] /\ Tail(q) \in Seq(S)
  OBVIOUS
<1>2. Len(Tail(q)) = Len(q) - 1 /\ DOMAIN Tail(q) = 1..Len(q) - 1
  BY <1>1
<1>3. \A i \in 1..Len(q) - 1 : Tail(q)[i] = q[i + 1]
  BY <1>1
<1>4. Distinct(Tail(q))
  BY <1>1, <1>2, <1>3 DEF Distinct
<1>5. \A y : In(y, Tail(q)) => y # Head(q) /\ In(y, q)
  BY <1>1, <1>2, <1>3 DEF Distinct, In
<1>6. ASSUME NEW y, y # Head(q), In(y, q)
      PROVE  In(y, Tail(q))
  <2>1. PICK i \in 1..Len(q) : q[i] = y
    BY <1>1, <1>6 DEF In
  <2>2. i - 1 \in 1..Len(q) - 1 /\ Tail(q)[i - 1] = y
    BY <1>1, <1>3, <1>6, <2>1
  <2> QED BY <1>2, <2>2 DEF In
<1>7. Head(q) \in S /\ In(Head(q), q)
  BY <1>1 DEF In
<1>8. Tail(q) = << >> <=> Len(q) = 1
  <2>1. \A t \in Seq(S) : t = << >> <=> Len(t) = 0
    OBVIOUS
  <2>2. Len(Tail(q)) = 0 <=> Len(q) = 1
    BY <1>1, <1>2
  <2> QED BY <1>1, <2>1, <2>2, Zenon
<1> QED BY <1>1, <1>4, <1>5, <1>6, <1>7, <1>8

(* A record more.                                                           *)
LEMMA Recorded ==
  ASSUME NEW r \in GameType, NEW own \in BOOLEAN, own, NEW by \in {"self", "engine"}, NEW trained \in BOOLEAN,
         r.ply > 0, RecordsOf(r), Len(r.records) = r.ply - 1, by = "engine" <=> AtEngine(r)
  PROVE  LET s == AddRecord(r, own, by, trained)
         IN  /\ s \in GameType /\ RecordsOf(s) /\ Len(s.records) = r.ply
             /\ s.ply = r.ply /\ s.turn = r.turn /\ s.engine = r.engine /\ s.mate = r.mate /\ s.open = r.open
<1> DEFINE n == [at |-> r.ply, colour |-> r.turn, by |-> by, trained |-> trained]
           s == AddRecord(r, own, by, trained)
<1>1. n \in Record
  BY DEF GameType, Record
<1>2. s = [r EXCEPT !.records = Append(r.records, n)]
  BY DEF AddRecord
<1> HIDE DEF n
<1>3. r.records \in Seq(Record) /\ r.ply \in Nat
  BY DEF GameType
<1>4. /\ Append(r.records, n) \in Seq(Record) /\ Len(Append(r.records, n)) = Len(r.records) + 1
      /\ DOMAIN Append(r.records, n) = DOMAIN r.records \cup {Len(r.records) + 1}
      /\ Append(r.records, n)[Len(r.records) + 1] = n
      /\ \A i \in DOMAIN r.records : Append(r.records, n)[i] = r.records[i]
      /\ Len(r.records) + 1 \notin DOMAIN r.records
  BY <1>1, <1>3, Appended
<1>5. s \in GameType
  BY <1>2, <1>4 DEF GameType
<1>6. /\ s.records = Append(r.records, n) /\ s.ply = r.ply /\ s.turn = r.turn /\ s.engine = r.engine
      /\ s.mate = r.mate /\ s.open = r.open
  BY <1>2 DEF GameType
<1> HIDE DEF s
<1>7. Len(s.records) = r.ply
  BY <1>3, <1>4, <1>6
<1>8. RecordsOf(s)
  <2> SUFFICES ASSUME NEW i \in DOMAIN s.records
               PROVE  /\ s.records[i].at = i
                      /\ s.records[i].by = "engine" <=> i > RandomMove /\ i % 2 = s.engine
                      /\ s.records[i].colour = Side(s, i)
    BY DEF RecordsOf
  <2>1. \A k : Side(s, k) = Side(r, k)
    BY <1>6 DEF Side
  <2>0. Len(r.records) + 1 = r.ply
    BY <1>3
  <2>2. CASE i = r.ply
    <3>1. s.records[i] = n
      BY <1>4, <1>6, <2>0, <2>2
    <3>2. n.at = r.ply /\ n.by = by /\ n.colour = r.turn
      BY DEF n
    <3> QED BY <1>6, <2>1, <2>2, <3>1, <3>2 DEF Side, AtEngine
  <2>3. CASE i # r.ply
    <3>1. i \in DOMAIN r.records /\ s.records[i] = r.records[i]
      BY <1>4, <1>6, <2>0, <2>3
    <3> QED BY <1>6, <2>1, <3>1 DEF RecordsOf
  <2> QED BY <2>2, <2>3
<1> QED BY <1>5, <1>6, <1>7, <1>8 DEF s

LEMMA AddType ==
  ASSUME NEW r \in GameType, NEW own, NEW by \in {"self", "engine"}, NEW trained \in BOOLEAN
  PROVE  AddRecord(r, own, by, trained) \in GameType /\ AddRecord(r, own, by, trained).ply = r.ply
<1> DEFINE n == [at |-> IF own THEN r.ply ELSE 0, colour |-> r.turn, by |-> by, trained |-> trained]
<1>1. n \in Record /\ r.records \in Seq(Record)
  BY DEF GameType, Record
<1>2. AddRecord(r, own, by, trained) = [r EXCEPT !.records = Append(r.records, n)]
  BY DEF AddRecord
<1> HIDE DEF n
<1>3. Append(r.records, n) \in Seq(Record)
  BY <1>1, Appended
<1> QED BY <1>2, <1>3 DEF GameType

LEMMA OwnRecorded ==
  ASSUME NEW r \in GameType, NEW trained \in BOOLEAN,
         RecordsOf(r), Len(r.records) = r.ply - 1, r.ply > 0, ~ AtEngine(r)
  PROVE  LET s == AddRecord(r, TRUE, "self", trained)
         IN  /\ s \in GameType /\ RecordsOf(s) /\ Len(s.records) = s.ply
             /\ s.ply = r.ply /\ s.mate = r.mate
BY Recorded

-----------------------------------------------------------------------------
(* Steps that leave the positions of the games as they are, and at most see *)
(* that the mate thread has answered.                                       *)
Same(s, r) == s.ply = r.ply /\ s.turn = r.turn /\ s.engine = r.engine /\ s.records = r.records /\ s.open = r.open

LEMMA Stays ==
  ASSUME Inv, game' \in [Games -> GameType], backup' \in [Games -> {0, 1, 2}],
         \A g \in Games : Same(game'[g], game[g]),
         \A g \in Games : \/ game'[g].mate = game[g].mate
                          \/ game'[g].mate = (game[g].mate /\ slot[g] = "RUNING"),
         pc' \in {"loop", "play", "eval", "step", "wait", "think", "end"}, cur' \in Games, ret' \in {"play", "step"},
         pc = "think" => pc' = "think" /\ cur' = cur,
         pc' = "wait" => ~ AtEngine(game'[cur']),
         mate' = mate, usi' = usi, fresh' = fresh
  PROVE  Inv'
<1> USE DEF Inv
<1>1. /\ slot' = slot /\ queue' = queue /\ mpc' = mpc /\ work' = work /\ engine' = engine /\ answer' = answer
  BY DEF mate, usi
<1>2. Types'
  BY <1>1 DEF Types
<1>3. \A g \in Games : AtEngine(game'[g]) <=> AtEngine(game[g])
  BY DEF Same, AtEngine
<1>4. \A g \in Games : EnginePly(g)' <=> EnginePly(g)
  BY DEF Same, EnginePly
<1>5. \A g \in Games : game'[g].mate => game[g].mate
  OBVIOUS
<1>6. GamesInv'
  <2>1. ASSUME NEW g \in Games PROVE GameOK(game'[g])
    <3>1. GameOK(game[g])
      BY DEF GamesInv
    <3>2. RecordsOf(game'[g])
      BY <3>1 DEF GameOK, RecordsOf, Same, Side
    <3> QED BY <1>3, <1>5, <3>1, <3>2 DEF GameOK, Same
  <2> QED BY <2>1 DEF GamesInv
<1>7. QueueInv'
  BY <1>1 DEF QueueInv
<1>8. EngineInv'
  BY <1>1, <1>4 DEF EngineInv, Types, EngineOf
<1>9. AnswersAreOwn'
  BY <1>1, <1>4, <1>5 DEF AnswersAreOwn, MateIsOfRoot, EngineAnswersPly
<1> QED BY <1>2, <1>6, <1>7, <1>8, <1>9

(* Steps that give a game another position.                                 *)
LEMMA Moved ==
  ASSUME Inv, NEW g \in Games, NEW s \in GameType, GameOK(s), ~ s.mate,
         game' = [game EXCEPT ![g] = s], fresh' = [fresh EXCEPT ![g] = {}], backup' = backup,
         slot[g] # "RUNING", pc \in {"play", "step", "wait"},
         pc' \in {"loop", "play", "step", "think"}, cur' \in Games, ret' \in {"play", "step"},
         AtEngine(s) => pc' = "think" /\ cur' = g,
         mate' = mate, usi' = usi
  PROVE  Inv'
<1> USE DEF Inv
<1>1. /\ slot' = slot /\ queue' = queue /\ mpc' = mpc /\ work' = work /\ engine' = engine /\ answer' = answer
  BY DEF mate, usi
<1>2. game'[g] = s /\ fresh'[g] = {} /\ \A h \in Games \ {g} : game'[h] = game[h] /\ fresh'[h] = fresh[h]
  BY DEF Types
<1>3. Types'
  <2>1. game' \in [Games -> GameType]
    BY DEF Types
  <2>2. fresh' \in [Games -> Freshness]
    BY DEF Types, Freshness
  <2> QED BY <1>1, <2>1, <2>2 DEF Types
<1>4. GamesInv'
  BY <1>2 DEF GamesInv
<1>5. QueueInv'
  <2>1. ~ In(g, queue) /\ ~ In(g, work)
    BY DEF QueueInv
  <2>2. work # << >> => Head(work) \in Games \ {g}
    BY <2>1, OneLess DEF Types, QueueInv
  <2>3. \A h \in Games : slot[h] = "RUNING" => game'[h].mate
    BY <1>2 DEF QueueInv
  <2> QED BY <1>1, <1>2, <2>2, <2>3 DEF QueueInv
<1>6. EnginePly(g)' => pc' = "think" /\ cur' = g
  BY <1>2 DEF EnginePly, AtEngine
<1>7. \A h \in Games \ {g} : EnginePly(h)' <=> EnginePly(h)
  BY <1>2 DEF EnginePly
<1>8. EngineInv'
  <2>1. \A e \in Engines : engine[e].game \in Games
    BY DEF Types
  <2> QED BY <1>1, <1>2, <1>6, <1>7, <2>1 DEF EngineInv, EngineOf
<1>9. AnswersAreOwn'
  BY <1>1, <1>2, <1>6, <1>7 DEF AnswersAreOwn, MateIsOfRoot, EngineAnswersPly
<1> QED BY <1>3, <1>4, <1>5, <1>8, <1>9

LEMMA Returned ==
  ASSUME NEW g \in Games, cur = g, ret \in {"play", "step"}, Return(g)
  PROVE  pc' \in {"loop", "play", "step"} /\ cur' \in Games /\ ret' \in {"play", "step"}
BY GameNumbers DEF Return

(* What is written is what OutputIsTheGame says of it.                      *)
LEMMA Written ==
  ASSUME NEW r \in GameType, RecordsOf(r), r.records = << >> \/ Len(r.records) \in {r.ply - 1, r.ply},
         NEW result \in {"Draw", "BlackWin", "WhiteWin"},
         out' = [moves |-> r.records, ply |-> r.ply, opponent |-> Opponent(r),
                 result |-> result, usiWin |-> UsiWin(r, result)]
  PROVE  OutputIsTheGame'
<1>1. /\ out'.moves = r.records /\ out'.ply = r.ply /\ out'.opponent = Opponent(r)
      /\ out'.result = result /\ out'.usiWin = UsiWin(r, result)
  OBVIOUS
<1>2. r.engine \in {-1, 0, 1} /\ r.ply \in Nat /\ r.turn \in Colours /\ r.records \in Seq(Record)
  BY DEF GameType
<1>3. Opponent(r) \in {0, 1, 2} /\ (Opponent(r) = 0 <=> r.engine = -1)
  BY <1>2 DEF Opponent
<1>4. StartTurn(r) \in Colours
  BY <1>2, Colour DEF StartTurn
<1>5. UsiWin(r, result) => Opponent(r) # 0 /\ result # "Draw"
  BY <1>2, <1>3, <1>4 DEF UsiWin, Shifted, Win, Colours
<1>6. ASSUME NEW i \in DOMAIN r.records
      PROVE  /\ r.records[i].at = i
             /\ r.records[i].by = "engine" <=>
                  /\ i > RandomMove
                  /\ Opponent(r) # 0 /\ r.records[i].colour = IF Opponent(r) = 1 THEN "Black" ELSE "White"
  <2>1. i \in Nat /\ i % 2 \in {0, 1} /\ r.ply % 2 \in {0, 1}
    BY <1>2
  <2>2. Side(r, i) = IF i % 2 = 1 THEN StartTurn(r) ELSE Other(StartTurn(r))
    BY <1>2, <2>1, Colour DEF Side, StartTurn
  <2>3. i % 2 = r.engine <=> Opponent(r) # 0 /\ Side(r, i) = IF Opponent(r) = 1 THEN "Black" ELSE "White"
    <3>1. CASE r.engine = -1
      BY <1>3, <2>1, <3>1
    <3>2. CASE r.engine \in {0, 1} /\ StartTurn(r) = "Black"
      BY <2>1, <2>2, <3>2, Colour DEF Opponent
    <3>3. CASE r.engine \in {0, 1} /\ StartTurn(r) = "White"
      BY <2>1, <2>2, <3>3, Colour DEF Opponent
    <3> QED BY <1>2, <1>4, <3>1, <3>2, <3>3 DEF Colours
  <2> QED BY <2>3 DEF RecordsOf
<1> QED BY <1>1, <1>5, <1>6 DEF OutputIsTheGame

LEMMA Kept == Keep => OutputIsTheGame'
BY DEF Keep, NoOutput, OutputIsTheGame

(* A game ends, and a turn.                                                 *)
AtGame(g) ==
  /\ g \in Games /\ cur = g /\ pc \in {"play", "step", "wait"} /\ slot[g] # "RUNING"
  /\ backup' = backup /\ mate' = mate /\ usi' = usi

LEMMA NextGameStep ==
  ASSUME Inv, NEW g, AtGame(g), NEW r \in GameType, ~ r.mate, RecordsOf(r),
         r.records = << >> \/ Len(r.records) \in {r.ply - 1, r.ply},
         NEW result \in {"Draw", "BlackWin", "WhiteWin"}, NextGame(g, r, result)
  PROVE  Inv' /\ OutputIsTheGame'
<1> DEFINE s == [r EXCEPT !.ply = 0, !.playout = 0, !.turn = "Black", !.engine = -1, !.records = <<>>,
                          !.open = FALSE, !.visits = <<0, 0>>, !.lost = 0]
<1>1. s \in GameType
  <2>1. <<0, 0>> \in [{1, 2} -> Nat] /\ << >> \in Seq(Record)
    OBVIOUS
  <2> QED BY <2>1 DEF GameType, Colours
<1>2. GameOK(s) /\ ~ AtEngine(s) /\ ~ s.mate
  <2>1. s.ply = 0 /\ s.records = << >> /\ ~ s.open /\ ~ s.mate
    BY DEF GameType
  <2> HIDE DEF s
  <2>2. ~ AtEngine(s)
    BY <2>1, NumberAssumption DEF AtEngine
  <2> QED BY <2>1, <2>2 DEF GameOK, RecordsOf
<1>3. game' = [game EXCEPT ![g] = s] /\ fresh' = [fresh EXCEPT ![g] = {}]
  BY DEF NextGame
<1> HIDE DEF s
<1>4. pc' \in {"loop", "play", "step"} /\ cur' \in Games /\ ret' \in {"play", "step"}
  BY Returned DEF NextGame, AtGame, Inv, Types
<1>5. Inv'
  BY <1>1, <1>2, <1>3, <1>4, Moved DEF AtGame
<1>6. OutputIsTheGame'
  BY Kept, Written DEF NextGame
<1> QED BY <1>5, <1>6

LEMMA NextPlyStep ==
  ASSUME Inv, NEW g, AtGame(g), NEW r \in GameType, ~ r.mate, RecordsOf(r), r.ply > 0, Len(r.records) = r.ply,
         NextPly(g, r)
  PROVE  Inv' /\ OutputIsTheGame'
<1>1. CASE r.ply >= MaxMove
  <2>1. CASE OutMaxMove
    BY <1>1, <2>1, NextGameStep DEF NextPly
  <2>2. CASE ~ OutMaxMove
    <3> DEFINE s == [r EXCEPT !.records = <<>>]
    <3>1. s \in GameType /\ s.records = << >> /\ ~ s.mate
      <4>1. << >> \in Seq(Record)
        OBVIOUS
      <4> QED BY <4>1 DEF GameType
    <3>2. NextGame(g, s, "Draw")
      BY <1>1, <2>2 DEF NextPly
    <3> HIDE DEF s
    <3>3. RecordsOf(s)
      BY <3>1 DEF RecordsOf
    <3> QED BY <3>1, <3>2, <3>3, NextGameStep
  <2> QED BY <2>1, <2>2
<1>2. CASE ~ r.ply >= MaxMove
  <2> DEFINE n == [r EXCEPT !.ply = r.ply + 1, !.turn = Other(r.turn)]
             s == [n EXCEPT !.playout = 0, !.limit = PlayoutNum, !.open = FALSE, !.visits = <<0, 0>>, !.lost = 0]
  <2>1. n \in GameType
    <3>1. r.ply + 1 \in Nat /\ Other(r.turn) \in Colours
      BY Colour DEF GameType
    <3> QED BY <3>1 DEF GameType
  <2>2. n.ply = r.ply + 1 /\ n.turn = Other(r.turn) /\ n.engine = r.engine /\ n.records = r.records /\ ~ n.mate
    BY DEF GameType
  <2>3. s \in GameType
    <3>1. <<0, 0>> \in [{1, 2} -> Nat]
      OBVIOUS
    <3> HIDE DEF n
    <3> QED BY <2>1, <3>1, GameAssumption DEF GameType
  <2>4. Same(s, [n EXCEPT !.open = FALSE]) /\ ~ s.mate /\ ~ s.open /\ s.ply = n.ply /\ s.engine = n.engine
        /\ s.records = n.records /\ s.turn = n.turn
    BY <2>2 DEF GameType, Same
  <2>5. \/ \E result \in {"Draw", Win("Black"), Win("White")} : NextGame(g, n, result)
        \/ /\ game' = [game EXCEPT ![g] = s]
           /\ IF n.ply % 2 = n.engine THEN pc' = "think" /\ UNCHANGED <<cur, ret>> ELSE Return(g)
           /\ fresh' = [fresh EXCEPT ![g] = {}] /\ Keep
    BY <1>2 DEF NextPly
  <2> HIDE DEF n, s
  <2>6. RecordsOf(n)
    <3>1. r.ply \in Nat /\ r.turn \in Colours
      BY DEF GameType
    <3>2. \A i \in Nat : Side(n, i) = Side(r, i)
      BY <2>2, <3>1, Colour DEF Side
    <3>3. DOMAIN r.records \subseteq Nat
      BY DEF GameType
    <3> QED BY <2>2, <3>2, <3>3 DEF RecordsOf
  <2>7. Len(n.records) = n.ply - 1
    BY <2>2 DEF GameType
  <2>8. CASE \E result \in {"Draw", Win("Black"), Win("White")} : NextGame(g, n, result)
    BY <2>1, <2>2, <2>6, <2>7, <2>8, NextGameStep DEF Win
  <2>9. CASE /\ game' = [game EXCEPT ![g] = s]
             /\ IF n.ply % 2 = n.engine THEN pc' = "think" /\ UNCHANGED <<cur, ret>> ELSE Return(g)
             /\ fresh' = [fresh EXCEPT ![g] = {}] /\ Keep
    <3>1. GameOK(s)
      <4>1. s.ply # 0
        BY <2>2, <2>4 DEF GameType
      <4>2. RecordsOf(s)
        BY <2>4, <2>6 DEF RecordsOf, Side
      <4> QED BY <2>4, <2>7, <4>1, <4>2 DEF GameOK
    <3>2. pc' \in {"loop", "play", "step", "think"} /\ cur' \in Games /\ ret' \in {"play", "step"}
      BY <2>9, Returned DEF AtGame, Inv, Types
    <3>3. AtEngine(s) => pc' = "think" /\ cur' = g
      BY <2>4, <2>9 DEF AtEngine, AtGame
    <3> QED BY <2>3, <2>4, <2>9, <3>1, <3>2, <3>3, Moved, Kept DEF AtGame
  <2> QED BY <2>5, <2>8, <2>9
<1> QED BY <1>1, <1>2

-----------------------------------------------------------------------------
(* The actions of the self-play thread.                                     *)
Good == Inv' /\ OutputIsTheGame'

LEMMA Halts == \A g \in Games : Inv /\ ~ game[g].open => ~ game[g].mate /\ slot[g] # "RUNING"
BY DEF Inv, GamesInv, GameOK, QueueInv

LEMMA Turned ==
  ASSUME Inv, NEW g \in Games
  PROVE  /\ game[g] \in GameType /\ RecordsOf(game[g]) /\ game[g].ply \in Nat
         /\ game[g].records = << >> \/ Len(game[g].records) = game[g].ply - 1
         /\ game[g].ply > 0 => Len(game[g].records) = game[g].ply - 1
<1>1. game[g] \in GameType /\ GameOK(game[g])
  BY DEF Inv, Types, GamesInv
<1>2. game[g].ply \in Nat /\ game[g].records \in Seq(Record)
  BY <1>1 DEF GameType
<1>3. Len(game[g].records) = 0 => game[g].records = << >>
  BY <1>2
<1> QED BY <1>1, <1>2, <1>3 DEF GameOK

LEMMA LoopStep == Inv /\ Loop => Good
<1> SUFFICES ASSUME Inv, Loop PROVE Good
  OBVIOUS
<1> QED BY Stays, Kept, GameNumbers DEF Good, Loop, Inv, Types, Same

LEMMA NewGameStep == ASSUME Inv, NEW g \in Games, NewGame(g) PROVE Good
<1>0. PICK c \in Colours : \E t \in Turns(g, c) :
        /\ game' = [game EXCEPT ![g].ply = 1, ![g].turn = c, ![g].engine = t]
        /\ IF t = 1 /\ RandomMove = 0 THEN pc' = "think" ELSE pc' = pc
  BY DEF NewGame
<1>1. PICK t \in Turns(g, c) :
        /\ game' = [game EXCEPT ![g].ply = 1, ![g].turn = c, ![g].engine = t]
        /\ IF t = 1 /\ RandomMove = 0 THEN pc' = "think" ELSE pc' = pc
  BY <1>0
<1> DEFINE s == [game[g] EXCEPT !.ply = 1, !.turn = c, !.engine = t]
<1>2. t \in {-1, 0, 1}
  BY DEF Turns
<1>3. game \in [Games -> GameType] /\ game[g] \in GameType
  BY DEF Inv, Types
<1>4. s \in GameType
  BY <1>2, <1>3 DEF GameType
<1>5. game' = [game EXCEPT ![g] = s]
  BY <1>1, <1>3 DEF GameType
<1>6. GameOK(game[g]) /\ game[g].ply = 0
  BY DEF NewGame, Inv, GamesInv
<1>7. s.ply = 1 /\ s.engine = t /\ s.records = game[g].records /\ s.mate = game[g].mate /\ s.open = game[g].open
  BY <1>3 DEF GameType
<1>8. ~ game[g].open /\ ~ game[g].mate /\ slot[g] # "RUNING"
  BY <1>6, Halts DEF GameOK
<1> HIDE DEF s
<1>9. GameOK(s)
  <2>1. Len(s.records) = 0 /\ DOMAIN s.records = {}
    BY <1>3, <1>6, <1>7 DEF GameOK, GameType
  <2> QED BY <1>7, <1>8, <2>1 DEF GameOK, RecordsOf
<1>10. AtEngine(s) => pc' = "think" /\ cur' = g
  BY <1>1, <1>2, <1>7, NumberAssumption DEF AtEngine, NewGame, Playing
<1>11. pc' \in {"play", "think"} /\ cur' \in Games /\ ret' \in {"play", "step"} /\ pc = "play"
  BY <1>1 DEF NewGame, Playing, Inv, Types
<1>12. backup' = backup /\ mate' = mate /\ usi' = usi /\ fresh' = [fresh EXCEPT ![g] = {}] /\ Keep
  BY DEF NewGame, Quiet
<1>13. Inv'
  BY <1>4, <1>5, <1>7, <1>8, <1>9, <1>10, <1>11, <1>12, Moved
<1> QED BY <1>12, <1>13, Kept DEF Good

LEMMA PlayedOn ==
  ASSUME Inv, NEW g \in Games, pc = "play", cur = g, Played(g)
  PROVE  pc' \in {"play", "eval"} /\ cur' \in Games /\ ret' \in {"play", "step"}
BY GameNumbers DEF Played, Done, Inv, Types

LEMMA EngineTurnStep == ASSUME Inv, NEW g \in Games, EngineTurn(g) PROVE Good
<1>1. pc' \in {"play", "eval"} /\ cur' \in Games /\ ret' \in {"play", "step"} /\ pc = "play"
  BY PlayedOn DEF EngineTurn, Turn, Playing
<1> QED BY <1>1, Stays, Kept DEF Good, EngineTurn, Quiet, Same, Inv, Types

LEMMA TurnStep ==
  ASSUME Inv, NEW g \in Games, Turn(g), ~ EnginePly(g), Quiet
  PROVE  /\ AtGame(g) /\ ~ game[g].mate /\ game[g].ply > 0 /\ ~ AtEngine(game[g])
         /\ game[g] \in GameType /\ RecordsOf(game[g]) /\ Len(game[g].records) = game[g].ply - 1
BY Halts, Turned DEF Turn, Playing, Quiet, AtGame, EnginePly, AtEngine

LEMMA MatedStep == ASSUME Inv, NEW g \in Games, Mated(g) \/ Nyugyoku(g) PROVE Good
<1>1. Turn(g) /\ ~ EnginePly(g) /\ Quiet /\ \E result \in {"BlackWin", "WhiteWin"} : NextGame(g, game[g], result)
  BY DEF Mated, Nyugyoku, Win
<1> QED BY <1>1, TurnStep, NextGameStep DEF Good

(* A move of the game itself is recorded and played.                        *)
LEMMA OwnMove ==
  ASSUME Inv, NEW g \in Games, AtGame(g), NEW r \in GameType, Same(r, game[g]), ~ r.mate, r.ply > 0, ~ AtEngine(r),
         NEW trained \in BOOLEAN, NextPly(g, AddRecord(r, TRUE, "self", trained))
  PROVE  Good
<1> DEFINE s == AddRecord(r, TRUE, "self", trained)
<1>1. RecordsOf(r) /\ Len(r.records) = r.ply - 1
  BY Turned DEF Same, RecordsOf, Side
<1>2. s \in GameType /\ RecordsOf(s) /\ Len(s.records) = s.ply /\ s.ply = r.ply /\ s.mate = r.mate
  BY <1>1, Recorded
<1>3. NextPly(g, s)
  OBVIOUS
<1> HIDE DEF s
<1> QED BY <1>2, <1>3, NextPlyStep DEF Good

LEMMA OnlyMoveStep == ASSUME Inv, NEW g \in Games, OnlyMove(g) PROVE Good
<1>1. Turn(g) /\ ~ EnginePly(g) /\ Quiet /\ NextPly(g, AddRecord(game[g], TRUE, "self", FALSE))
  BY DEF OnlyMove
<1> QED BY <1>1, TurnStep, OwnMove DEF Same

LEMMA OpenRootStep == ASSUME Inv, NEW g \in Games, OpenRoot(g) PROVE Good
<1> USE DEF Inv
<1> DEFINE s == [game[g] EXCEPT !.open = TRUE, !.mate = TRUE]
<1>1. game \in [Games -> GameType] /\ game[g] \in GameType
  BY DEF Types
<1>2. /\ s \in GameType /\ s.ply = game[g].ply /\ s.turn = game[g].turn /\ s.engine = game[g].engine
      /\ s.records = game[g].records /\ s.open /\ s.mate
  BY <1>1 DEF GameType
<1>3. game' = [game EXCEPT ![g] = s]
  BY <1>1 DEF OpenRoot, GameType
<1> HIDE DEF s
<1>4. /\ slot' = [slot EXCEPT ![g] = "RUNING"] /\ fresh' = [fresh EXCEPT ![g] = @ \ {"status"}]
      /\ queue' = Append(queue, g) /\ Keep /\ backup' = backup /\ mpc' = mpc /\ work' = work
      /\ engine' = engine /\ answer' = answer
      /\ pc = "play" /\ cur = g /\ ~ game[g].open /\ game[g].ply > 0 /\ ~ AtEngine(game[g])
  BY DEF OpenRoot, Turn, Playing, AtEngine, EnginePly, usi
<1>5. ~ game[g].mate /\ slot[g] # "RUNING" /\ ~ In(g, queue) /\ ~ In(g, work)
  BY <1>4, Halts DEF QueueInv
<1>6. pc' \in {"play", "eval"} /\ cur' \in Games /\ ret' \in {"play", "step"}
  BY <1>4, PlayedOn DEF OpenRoot, Types
<1>7. queue' \in Seq(Games) /\ Distinct(queue') /\ \A h : In(h, queue') <=> h = g \/ In(h, queue)
  BY <1>4, <1>5, OneMore DEF Types, QueueInv
<1>8. /\ game'[g] = s /\ slot'[g] = "RUNING" /\ fresh'[g] = fresh[g] \ {"status"}
      /\ \A h \in Games \ {g} : game'[h] = game[h] /\ slot'[h] = slot[h] /\ fresh'[h] = fresh[h]
  BY <1>3, <1>4 DEF Types
<1>9. Types'
  <2>1. game' \in [Games -> GameType] /\ slot' \in [Games -> {"NOMATE", "RUNING", "WIN", "LOSE"}]
    BY <1>2, <1>3, <1>4 DEF Types
  <2>2. fresh' \in [Games -> Freshness]
    BY <1>4 DEF Types, Freshness
  <2> QED BY <1>4, <1>6, <1>7, <2>1, <2>2 DEF Types
<1>10. GamesInv'
  <2>1. GameOK(game[g])
    BY DEF GamesInv
  <2>2. RecordsOf(s)
    BY <1>2, <2>1 DEF GameOK, RecordsOf, Side
  <2>3. GameOK(s)
    BY <1>2, <1>4, <2>1, <2>2 DEF GameOK, AtEngine
  <2> QED BY <1>6, <1>8, <2>3 DEF GamesInv
<1>11. QueueInv'
  <2>1. work # << >> => Head(work) \in Games \ {g}
    BY <1>5, OneLess DEF Types, QueueInv
  <2>2. \A h \in Games : ~ (In(h, queue') /\ In(h, work'))
    BY <1>4, <1>5, <1>7 DEF QueueInv
  <2>3. \A h \in Games : slot'[h] = "RUNING" <=> In(h, queue') \/ In(h, work')
    BY <1>4, <1>7, <1>8 DEF QueueInv
  <2>4. \A h \in Games : slot'[h] = "RUNING" => game'[h].mate
    BY <1>2, <1>8 DEF QueueInv
  <2>5. mpc \in {"solve", "win"} => "copy" \in fresh'[Head(work)]
    BY <1>8, <2>1 DEF QueueInv
  <2>6. mpc = "win" => "move" \in fresh'[Head(work)]
    BY <1>8, <2>1 DEF QueueInv
  <2>7. (mpc \in {"copy", "solve", "win"} <=> work # << >>) /\ Distinct(work)
    BY DEF QueueInv
  <2> QED BY <1>4, <1>7, <2>2, <2>3, <2>4, <2>5, <2>6, <2>7 DEF QueueInv
<1>12. \A h \in Games : EnginePly(h)' <=> EnginePly(h)
  BY <1>2, <1>8 DEF EnginePly
<1>13. EngineInv'
  BY <1>4, <1>6, <1>8, <1>12 DEF EngineInv, EngineOf, Types
<1>14. AnswersAreOwn'
  BY <1>4, <1>6, <1>8, <1>12 DEF AnswersAreOwn, MateIsOfRoot, EngineAnswersPly
<1> QED BY <1>4, <1>9, <1>10, <1>11, <1>13, <1>14, Kept DEF Good

LEMMA SearchStep == ASSUME Inv, NEW g \in Games, Search(g) PROVE Good
<1> USE DEF Inv
<1>1. game \in [Games -> GameType] /\ game[g] \in GameType /\ backup \in [Games -> {0, 1, 2}] /\ ret \in {"play", "step"}
  BY DEF Types
<1>2. PICK c \in {1, 2} :
       \/ /\ backup' = [backup EXCEPT ![g] = c]
          /\ Played(g) /\ UNCHANGED game
       \/ /\ \E l \in {0, c} : game' = [game EXCEPT ![g].visits[c] = @ + 1, ![g].lost = IF @ = 0 THEN l ELSE @]
          /\ pc' = "step" /\ UNCHANGED <<backup, cur, ret>>
  <2>1. game[g].lost \in {0, 1, 2}
    BY <1>1 DEF GameType
  <2> QED BY <2>1 DEF Search
<1>3. Keep /\ mate' = mate /\ usi' = usi /\ fresh' = fresh /\ pc = "play" /\ cur = g
  BY DEF Search, Playing
<1>4. CASE backup' = [backup EXCEPT ![g] = c] /\ Played(g) /\ UNCHANGED game
  <2>1. pc' \in {"play", "eval"} /\ cur' \in Games /\ ret' \in {"play", "step"} /\ backup' \in [Games -> {0, 1, 2}]
    BY <1>1, <1>3, <1>4, PlayedOn
  <2>2. \A h \in Games : Same(game'[h], game[h]) /\ game'[h].mate = game[h].mate
    BY <1>4 DEF Same
  <2> QED BY <1>1, <1>3, <1>4, <2>1, <2>2, Stays, Kept DEF Good
<1>5. CASE /\ \E l \in {0, c} : game' = [game EXCEPT ![g].visits[c] = @ + 1, ![g].lost = IF @ = 0 THEN l ELSE @]
           /\ pc' = "step" /\ UNCHANGED <<backup, cur, ret>>
  <2>1. PICK l \in {0, c} : game' = [game EXCEPT ![g].visits[c] = @ + 1, ![g].lost = IF @ = 0 THEN l ELSE @]
    BY <1>5
  <2> DEFINE v == [game[g].visits EXCEPT ![c] = @ + 1]
             m == IF game[g].lost = 0 THEN l ELSE game[g].lost
             s == [game[g] EXCEPT !.visits = v, !.lost = m]
  <2>2. v \in [{1, 2} -> Nat] /\ m \in {0, 1, 2}
    BY <1>1 DEF GameType
  <2>3. game' = [game EXCEPT ![g] = s]
    BY <1>1, <2>1 DEF GameType
  <2> HIDE DEF v, m
  <2>4. s \in GameType /\ Same(s, game[g]) /\ s.mate = game[g].mate
    BY <1>1, <2>2 DEF GameType, Same
  <2> HIDE DEF s
  <2>5. game' \in [Games -> GameType] /\ \A h \in Games : Same(game'[h], game[h]) /\ game'[h].mate = game[h].mate
    BY <1>1, <2>3, <2>4 DEF Same
  <2> QED BY <1>1, <1>3, <1>5, <2>5, Stays, Kept DEF Good
<1> QED BY <1>2, <1>4, <1>5

LEMMA EvalStep == Inv /\ Eval => Good
<1> SUFFICES ASSUME Inv, Eval PROVE Good
  OBVIOUS
<1>1. game \in [Games -> GameType] /\ backup \in [Games -> {0, 1, 2}]
  BY DEF Inv, Types
<1>2. ASSUME NEW g \in Games
      PROVE  game'[g] \in GameType /\ Same(game'[g], game[g]) /\ game'[g].mate = game[g].mate
  <2>1. CASE backup[g] = 0
    BY <1>1, <2>1 DEF Eval, Same
  <2>2. CASE backup[g] # 0
    <3> DEFINE v == [game[g].visits EXCEPT ![backup[g]] = @ + 1]
    <3>1. v \in [{1, 2} -> Nat]
      BY <1>1, <2>2 DEF GameType
    <3>2. game'[g] = [game[g] EXCEPT !.visits = v]
      BY <1>1, <2>2 DEF Eval, GameType
    <3> HIDE DEF v
    <3> QED BY <1>1, <3>1, <3>2 DEF GameType, Same
  <2> QED BY <2>1, <2>2
<1>3. game' = [g \in Games |-> game'[g]] /\ backup' \in [Games -> {0, 1, 2}]
  BY DEF Eval
<1>4. game' \in [Games -> GameType]
  BY <1>2, <1>3
<1> QED BY <1>2, <1>3, <1>4, Stays, Kept, GameNumbers DEF Good, Eval

-----------------------------------------------------------------------------
(* The answer of the engine: it is of the position, for the request of this *)
(* turn has been sent and its answer is the only one since.                 *)
LEMMA TakeAnswerStep == ASSUME Inv, NEW g \in Games, TakeAnswer(g) PROVE Good
<1>1. pc = "step" /\ cur = g /\ AtEngine(game[g]) /\ Quiet /\ EnginePly(g)
  BY DEF TakeAnswer, Stepping, AtEngine, EnginePly
<1>2. ~ game[g].open /\ game[g].ply > 0 /\ game[g] \in GameType /\ RecordsOf(game[g])
  <2>1. game[g] \in GameType /\ RecordsOf(game[g]) /\ game[g].ply \in Nat
    BY Turned
  <2>2. game[g].ply # 0
    BY <1>1, NumberAssumption DEF AtEngine
  <2>3. ~ game[g].open
    BY <1>1 DEF Inv, GamesInv, GameOK
  <2> QED BY <2>1, <2>2, <2>3
<1>3. AtGame(g) /\ ~ game[g].mate /\ Len(game[g].records) = game[g].ply - 1
  BY <1>1, <1>2, Halts, Turned DEF AtGame, Quiet
<1>4. CASE Return(g) /\ Keep /\ UNCHANGED <<game, fresh>>
  <2>1. pc' \in {"loop", "play", "step"} /\ cur' \in Games /\ ret' \in {"play", "step"}
    BY <1>1, <1>4, Returned DEF Inv, Types
  <2> QED BY <1>1, <1>4, <2>1, Stays, Kept DEF Good, Quiet, Inv, Types, Same
<1>5. CASE \E result \in {"BlackWin", "WhiteWin"} : NextGame(g, game[g], result)
  BY <1>2, <1>3, <1>5, NextGameStep DEF Good
<1>6. CASE answer[g] = "move" /\ NextPly(g, AddRecord(game[g], "answer" \in fresh[g], "engine", FALSE))
  <2>1. "answer" \in fresh[g]
    BY <1>1, <1>6 DEF Inv, AnswersAreOwn, EngineAnswersPly
  <2> DEFINE own == "answer" \in fresh[g]
             s == AddRecord(game[g], own, "engine", FALSE)
  <2>2. own \in BOOLEAN /\ own
    BY <2>1
  <2>3. NextPly(g, s)
    BY <1>6
  <2> HIDE DEF own
  <2>4. s \in GameType /\ RecordsOf(s) /\ Len(s.records) = s.ply /\ s.ply = game[g].ply /\ s.mate = game[g].mate
    BY <1>1, <1>2, <1>3, <2>2, Recorded
  <2> HIDE DEF s
  <2> QED BY <1>2, <1>3, <2>3, <2>4, NextPlyStep DEF Good
<1> QED BY <1>4, <1>5, <1>6 DEF TakeAnswer, Win

(* The answer of the mate thread.                                           *)
LEMMA MateEndsStep ==
  ASSUME Inv, NEW g \in Games, cur = g, pc \in {"step", "wait"}, game[g].mate, MateEnds(g), Quiet
  PROVE  Good
<1> DEFINE r == [game[g] EXCEPT !.mate = FALSE]
<1>1. game[g] \in GameType /\ game[g].open /\ game[g].ply > 0 /\ ~ AtEngine(game[g])
  BY DEF Inv, Types, GamesInv, GameOK
<1>2. r \in GameType /\ Same(r, game[g]) /\ ~ r.mate
  BY <1>1 DEF GameType, Same
<1>3. \/ /\ slot[g] = "WIN"
         /\ NextGame(g, IF r.ply > RandomMove THEN AddRecord(r, "move" \in fresh[g], "self", FALSE) ELSE r, Win(r.turn))
      \/ slot[g] = "LOSE" /\ NextGame(g, r, Win(Other(r.turn)))
  BY DEF MateEnds
<1> HIDE DEF r
<1>4. RecordsOf(r) /\ Len(r.records) = r.ply - 1 /\ r.ply > 0 /\ ~ AtEngine(r)
  BY <1>1, <1>2, Turned DEF Same, RecordsOf, Side, AtEngine
<1>5. slot[g] \in {"WIN", "LOSE"} /\ AtGame(g)
  BY <1>3 DEF AtGame, Quiet
<1>6. \A c : Win(c) \in {"Draw", "BlackWin", "WhiteWin"}
  BY DEF Win
<1>7. CASE slot[g] = "LOSE" \/ ~ r.ply > RandomMove
  <2>1. \E c : NextGame(g, r, Win(c))
    BY <1>3, <1>7
  <2> QED BY <1>2, <1>4, <1>5, <1>6, <2>1, NextGameStep DEF Good
<1>8. CASE slot[g] = "WIN" /\ r.ply > RandomMove
  <2>1. "move" \in fresh[g]
    BY <1>8 DEF Inv, AnswersAreOwn, MateIsOfRoot
  <2>2. ("move" \in fresh[g]) = TRUE
    BY <2>1
  <2> DEFINE s == AddRecord(r, TRUE, "self", FALSE)
  <2>3. NextGame(g, s, Win(r.turn))
    BY <1>3, <1>8, <2>2
  <2>4. s \in GameType /\ RecordsOf(s) /\ Len(s.records) = s.ply /\ s.ply = r.ply /\ s.mate = r.mate
    BY <1>2, <1>4, OwnRecorded
  <2> HIDE DEF s
  <2> QED BY <1>2, <1>5, <1>6, <2>3, <2>4, NextGameStep DEF Good
<1> QED BY <1>5, <1>7, <1>8

LEMMA PollStep == ASSUME Inv, NEW g \in Games, PollMate(g) \/ WaitMate(g) PROVE Good
BY MateEndsStep DEF PollMate, WaitMate, Stepping

LEMMA CountStep == ASSUME Inv, NEW g \in Games, Count(g) PROVE Good
<1> DEFINE m == game[g].mate /\ slot[g] = "RUNING"
           r == [game[g] EXCEPT !.playout = @ + 1, !.mate = m]
           t == [r EXCEPT !.limit = @ + PlayoutNum \div 2]
<1>1. game \in [Games -> GameType] /\ game[g] \in GameType /\ ret \in {"play", "step"}
  BY DEF Inv, Types
<1>2. r \in GameType /\ Same(r, game[g]) /\ r.mate = (game[g].mate /\ slot[g] = "RUNING")
  <2>1. m \in BOOLEAN /\ m = (game[g].mate /\ slot[g] = "RUNING")
    OBVIOUS
  <2> HIDE DEF m
  <2>2. game[g].playout + 1 \in Nat
    BY <1>1 DEF GameType
  <2>3. r \in GameType
    BY <1>1, <2>1, <2>2 DEF GameType
  <2>4. Same(r, game[g]) /\ r.mate = m
    BY <1>1 DEF GameType, Same
  <2> QED BY <2>1, <2>3, <2>4
<1>3. t \in GameType /\ Same(t, game[g]) /\ t.mate = r.mate
  <2> HIDE DEF r
  <2>1. r.limit \in Nat
    BY <1>2 DEF GameType
  <2>2. r.limit + PlayoutNum \div 2 \in Nat
    BY <2>1, GameAssumption
  <2> QED BY <1>2, <2>2 DEF GameType, Same
<1>4. \/ game' \in {[game EXCEPT ![g] = r], [game EXCEPT ![g] = t]} /\ Return(g)
      \/ game' = [game EXCEPT ![g] = r] /\ pc' = "wait" /\ UNCHANGED <<cur, ret>>
  BY DEF Count
<1>5. Keep /\ Quiet /\ fresh' = fresh /\ pc = "step" /\ cur = g /\ ~ AtEngine(game[g])
  BY DEF Count, Stepping, AtEngine, EnginePly
<1> HIDE DEF r, t
<1>6. /\ game' \in [Games -> GameType]
      /\ \A h \in Games : /\ Same(game'[h], game[h])
                          /\ \/ game'[h].mate = game[h].mate
                             \/ game'[h].mate = (game[h].mate /\ slot[h] = "RUNING")
  BY <1>1, <1>2, <1>3, <1>4 DEF Same
<1>7. /\ pc' \in {"loop", "play", "step", "wait"} /\ cur' \in Games /\ ret' \in {"play", "step"}
      /\ pc' = "wait" => cur' = g
  BY <1>1, <1>4, <1>5, Returned
<1>8. pc' = "wait" => ~ AtEngine(game'[cur'])
  BY <1>5, <1>6, <1>7 DEF Same, AtEngine
<1>9. backup' \in [Games -> {0, 1, 2}] /\ mate' = mate /\ usi' = usi
  BY <1>5 DEF Quiet, Inv, Types
<1> QED BY <1>5, <1>6, <1>7, <1>8, <1>9, Stays, Kept DEF Good

LEMMA ChooseStep == ASSUME Inv, PlyInv, NEW g \in Games, Choose(g) PROVE Good
<1> DEFINE r == [game[g] EXCEPT !.mate = FALSE]
<1>1. /\ game[g] \in GameType /\ ~ AtEngine(game[g]) /\ pc = "wait" /\ cur = g /\ Quiet
      /\ game[g].mate => slot[g] = "NOMATE"
  BY DEF Choose, Inv, Types, GamesInv
<1>2. r \in GameType /\ Same(r, game[g]) /\ ~ r.mate
  BY <1>1 DEF GameType, Same
<1>3. \/ NextGame(g, r, Win(r.turn)) \/ NextGame(g, r, Win(Other(r.turn)))
      \/ NextPly(g, AddRecord(r, TRUE, "self", r.ply > RandomMove \/ TrainRandom))
  BY DEF Choose
<1> HIDE DEF r
<1>4. AtGame(g)
  BY <1>1 DEF AtGame, Quiet, Inv, QueueInv
<1>5. RecordsOf(r) /\ (r.records = << >> \/ Len(r.records) = r.ply - 1) /\ ~ AtEngine(r)
  BY <1>1, <1>2, Turned DEF Same, RecordsOf, Side, AtEngine
<1>6. CASE \E c : NextGame(g, r, Win(c))
  <2>1. \A c : Win(c) \in {"Draw", "BlackWin", "WhiteWin"}
    BY DEF Win
  <2> QED BY <1>2, <1>4, <1>5, <1>6, <2>1, NextGameStep DEF Good
<1>7. CASE NextPly(g, AddRecord(r, TRUE, "self", r.ply > RandomMove \/ TrainRandom))
  <2>1. (r.ply > RandomMove \/ TrainRandom) \in BOOLEAN
    BY FlagAssumption
  <2>2. r.ply > 0
    BY <1>1, <1>2 DEF Same, PlyInv
  <2> QED BY <1>2, <1>4, <1>5, <1>7, <2>1, <2>2, OwnMove
<1> QED BY <1>3, <1>6, <1>7

(* The request: the last answer is forgotten, and the engine, which was     *)
(* idle, has no older one.                                                  *)
LEMMA ThinkAsyncStep == ASSUME Inv, NEW g \in Games, ThinkAsync(g) PROVE Good
<1> USE DEF Inv
<1> DEFINE e == EngineOf(g)
           next == [pc |-> "start", game |-> g]
<1>1. e \in Engines
  <2>1. UsiThreads \in Nat /\ UsiThreads > 0 /\ g \in Nat
    BY GameAssumption DEF Games
  <2> QED BY <2>1 DEF EngineOf, Engines
<1>2. /\ pc = "think" /\ cur = g /\ engine[e].pc = "idle" /\ answer' = [answer EXCEPT ![g] = "none"]
      /\ engine' = [engine EXCEPT ![e] = next] /\ Return(g) /\ Keep
      /\ game' = game /\ backup' = backup /\ mate' = mate /\ fresh' = fresh
  BY DEF ThinkAsync
<1>3. slot' = slot /\ queue' = queue /\ mpc' = mpc /\ work' = work
  BY <1>2 DEF mate
<1>4. pc' \in {"loop", "play", "step"} /\ cur' \in Games /\ ret' \in {"play", "step"}
  BY <1>2, Returned DEF Types
<1>5. Types'
  <2>1. engine' \in [Engines -> [pc : {"idle", "start", "think"}, game : Games]]
    BY <1>1, <1>2 DEF Types
  <2>2. answer' \in [Games -> {"none", "move", "resign", "win", "abort"}]
    BY <1>2 DEF Types
  <2> QED BY <1>2, <1>3, <1>4, <2>1, <2>2 DEF Types
<1>6. GamesInv' /\ QueueInv' /\ MateIsOfRoot'
  BY <1>2, <1>3, <1>4 DEF GamesInv, QueueInv, AnswersAreOwn, MateIsOfRoot
<1>7. /\ engine'[e].pc = "start" /\ engine'[e].game = g /\ answer'[g] = "none"
      /\ \A d \in Engines \ {e} : engine'[d] = engine[d]
      /\ \A h \in Games \ {g} : answer'[h] = answer[h]
  BY <1>1, <1>2 DEF Types
<1>8. \A h \in Games : EnginePly(h)' <=> EnginePly(h)
  BY <1>2 DEF EnginePly
<1> HIDE DEF next
<1>9. EngineInv'
  <2>1. \A d \in Engines : engine'[d].pc # "idle" => d = EngineOf(engine'[d].game)
    BY <1>7 DEF EngineInv
  <2>2. \A d \in Engines : d # e => engine[d].pc = "idle" \/ engine[d].game # g
    BY DEF EngineInv
  <2>3. \A d \in Engines : engine[d].game \in Games
    BY DEF Types
  <2> HIDE DEF e
  <2>4. ASSUME NEW d \in Engines, engine'[d].pc = "think"
        PROVE  /\ engine'[d].game = engine[d].game
               /\ EnginePly(engine[d].game) => "asked" \in fresh[engine[d].game]
    <3>1. d # e /\ engine'[d] = engine[d] /\ engine[d].game # g
      BY <1>7, <2>2, <2>4
    <3> QED BY <1>2, <2>4, <3>1 DEF EngineInv
  <2> QED BY <1>2, <2>1, <2>4 DEF EngineInv, EngineOf, EnginePly
<1>10. EngineAnswersPly'
  BY <1>2, <1>7, <1>8 DEF AnswersAreOwn, EngineAnswersPly
<1> QED BY <1>2, <1>5, <1>6, <1>9, <1>10, Kept DEF Good, AnswersAreOwn

-----------------------------------------------------------------------------
(* The actions of the mate thread.                                          *)
LEMMA TakeStep == Inv /\ Take => Inv'
<1> SUFFICES ASSUME Inv, Take PROVE Inv'
  OBVIOUS
<1> USE DEF Inv
<1>1. /\ game' = game /\ backup' = backup /\ pc' = pc /\ cur' = cur /\ ret' = ret /\ engine' = engine
      /\ answer' = answer /\ fresh' = fresh /\ slot' = slot /\ mpc = "take"
  BY DEF Take, selfplay, usi
<1>2. \/ queue # << >> /\ work' = queue /\ queue' = <<>> /\ mpc' = "copy"
      \/ mpc' = "end" /\ UNCHANGED <<work, queue>>
  BY DEF Take
<1>3. work = << >> /\ Distinct(<< >>) /\ << >> \in Seq(Games) /\ \A h : ~ In(h, << >>)
  BY <1>1 DEF QueueInv, Distinct, In
<1>4. Types'
  BY <1>1, <1>2, <1>3 DEF Types
<1>5. GamesInv' /\ EngineInv' /\ AnswersAreOwn'
  BY <1>1 DEF GamesInv, EngineInv, AnswersAreOwn, MateIsOfRoot, EngineAnswersPly, EnginePly, EngineOf
<1>6. QueueInv'
  <2>1. CASE work' = queue /\ queue' = <<>> /\ mpc' = "copy" /\ queue # << >>
    BY <1>1, <1>3, <2>1 DEF QueueInv
  <2>2. CASE mpc' = "end" /\ UNCHANGED <<work, queue>>
    BY <1>1, <1>3, <2>2 DEF QueueInv
  <2> QED BY <1>2, <2>1, <2>2
<1> QED BY <1>4, <1>5, <1>6

(* The thread works for a game that waits for it.                           *)
LEMMA Working ==
  ASSUME Inv, mpc \in {"copy", "solve", "win"}
  PROVE  /\ work # << >> /\ Head(work) \in Games /\ slot[Head(work)] = "RUNING" /\ game[Head(work)].mate
         /\ Tail(work) \in Seq(Games) /\ Distinct(Tail(work)) /\ In(Head(work), work)
         /\ \A y : In(y, Tail(work)) <=> y # Head(work) /\ In(y, work)
         /\ Tail(work) = << >> <=> Len(work) = 1
<1>1. work # << >> /\ work \in Seq(Games) /\ Distinct(work)
  BY DEF Inv, Types, QueueInv
<1> QED BY <1>1, OneLess DEF Inv, QueueInv

(* A step of another thread that only adds to what is fresh, or drops what  *)
(* no invariant needs.                                                      *)
LEMMA CopyStep == Inv /\ Copy => Inv'
<1> SUFFICES ASSUME Inv, Copy PROVE Inv'
  OBVIOUS
<1> USE DEF Inv
<1> DEFINE g == Head(work)
<1>1. /\ game' = game /\ backup' = backup /\ pc' = pc /\ cur' = cur /\ ret' = ret /\ engine' = engine
      /\ answer' = answer /\ slot' = slot /\ mpc = "copy" /\ mpc' = "solve" /\ queue' = queue /\ work' = work
      /\ fresh' = [fresh EXCEPT ![g] = @ \cup {"copy"}]
  BY DEF Copy, selfplay, usi, Fresh
<1>2. g \in Games /\ work # << >>
  BY <1>1, Working
<1> HIDE DEF g
<1>3. fresh'[g] = fresh[g] \cup {"copy"} /\ \A h \in Games \ {g} : fresh'[h] = fresh[h]
  BY <1>1, <1>2 DEF Types
<1>4. Types'
  <2>1. fresh' \in [Games -> Freshness]
    BY <1>1, <1>2 DEF Types, Freshness
  <2> QED BY <1>1, <2>1 DEF Types
<1>5. \A h \in Games : fresh[h] \subseteq fresh'[h]
  BY <1>3
<1>6. \A e \in Engines : engine[e].game \in Games
  BY DEF Types
<1>7. GamesInv' /\ EngineInv' /\ AnswersAreOwn'
  BY <1>1, <1>5, <1>6 DEF GamesInv, EngineInv, AnswersAreOwn, MateIsOfRoot, EngineAnswersPly, EnginePly, EngineOf
<1>8. QueueInv'
  BY <1>1, <1>2, <1>3 DEF QueueInv, g
<1> QED BY <1>4, <1>7, <1>8

LEMMA SetStatusStep ==
  ASSUME Inv, mpc \in {"solve", "win"}, NEW status \in {"NOMATE", "WIN", "LOSE"}, SetStatus(status),
         status = "WIN" => mpc = "win",
         UNCHANGED <<selfplay, queue, usi, stop>>
  PROVE  Inv'
<1> USE DEF Inv
<1> DEFINE g == Head(work)
<1>1. /\ game' = game /\ backup' = backup /\ pc' = pc /\ cur' = cur /\ ret' = ret /\ engine' = engine
      /\ answer' = answer /\ slot' = [slot EXCEPT ![g] = status] /\ queue' = queue /\ work' = Tail(work)
      /\ mpc' = IF Len(work) = 1 THEN "take" ELSE "copy"
  BY DEF SetStatus, selfplay, usi
<1>2. /\ g \in Games /\ game[g].mate /\ slot[g] = "RUNING" /\ "copy" \in fresh[g]
      /\ mpc = "win" => "move" \in fresh[g]
  BY Working DEF QueueInv
<1>3. /\ work' \in Seq(Games) /\ Distinct(work') /\ In(g, work) /\ work # << >>
      /\ \A y : In(y, work') <=> y # g /\ In(y, work)
      /\ work' = << >> <=> Len(work) = 1
  BY <1>1, Working
<1>4. fresh' = [fresh EXCEPT ![g] = @ \cup {"status"}]
  BY <1>2 DEF SetStatus, FreshAs, Types
<1> HIDE DEF g
<1>5. /\ fresh'[g] = fresh[g] \cup {"status"} /\ slot'[g] = status
      /\ \A h \in Games \ {g} : fresh'[h] = fresh[h] /\ slot'[h] = slot[h]
  BY <1>1, <1>2, <1>4 DEF Types
<1>6. Types'
  <2>1. fresh' \in [Games -> Freshness]
    BY <1>2, <1>4 DEF Types, Freshness
  <2>2. slot' \in [Games -> {"NOMATE", "RUNING", "WIN", "LOSE"}]
    BY <1>1, <1>2 DEF Types
  <2> QED BY <1>1, <1>3, <2>1, <2>2 DEF Types
<1>7. \A h \in Games : fresh[h] \subseteq fresh'[h]
  BY <1>5
<1>8. \A e \in Engines : engine[e].game \in Games
  BY DEF Types
<1>9. GamesInv' /\ EngineInv' /\ EngineAnswersPly'
  BY <1>1, <1>7, <1>8 DEF GamesInv, EngineInv, AnswersAreOwn, EngineAnswersPly, EnginePly, EngineOf
<1>10. MateIsOfRoot'
  BY <1>1, <1>2, <1>5 DEF AnswersAreOwn, MateIsOfRoot
<1>11. QueueInv'
  <2>1. \A h \in Games : ~ (In(h, queue') /\ In(h, work'))
    BY <1>1, <1>3 DEF QueueInv
  <2>2. \A h \in Games : slot'[h] = "RUNING" <=> In(h, queue') \/ In(h, work')
    BY <1>1, <1>2, <1>3, <1>5 DEF QueueInv
  <2>3. \A h \in Games : slot'[h] = "RUNING" => game'[h].mate
    BY <1>1, <1>5 DEF QueueInv
  <2> QED BY <1>1, <1>3, <2>1, <2>2, <2>3 DEF QueueInv
<1> QED BY <1>6, <1>9, <1>10, <1>11 DEF AnswersAreOwn

LEMMA SolveStep == Inv /\ (Solve \/ Won) => Inv'
<1> SUFFICES ASSUME Inv, Solve \/ Won PROVE Inv'
  OBVIOUS
<1>1. CASE /\ mpc = "solve" /\ FreshAs(Head(work), "move", "copy") /\ mpc' = "win" /\ UNCHANGED <<slot, work>>
           /\ UNCHANGED <<selfplay, queue, usi, stop>>
  <2> USE DEF Inv
  <2> DEFINE g == Head(work)
  <2>1. /\ game' = game /\ backup' = backup /\ pc' = pc /\ cur' = cur /\ ret' = ret /\ engine' = engine
        /\ answer' = answer /\ slot' = slot /\ mpc = "solve" /\ mpc' = "win" /\ queue' = queue /\ work' = work
    BY <1>1 DEF selfplay, usi
  <2>2. g \in Games /\ work # << >> /\ "copy" \in fresh[g]
    BY <1>1, Working DEF QueueInv
  <2>3. fresh' = [fresh EXCEPT ![g] = @ \cup {"move"}]
    BY <1>1, <2>2 DEF FreshAs, Types
  <2> HIDE DEF g
  <2>4. fresh'[g] = fresh[g] \cup {"move"} /\ \A h \in Games \ {g} : fresh'[h] = fresh[h]
    BY <2>2, <2>3 DEF Types
  <2>5. Types'
    <3>1. fresh' \in [Games -> Freshness]
      BY <2>2, <2>3 DEF Types, Freshness
    <3> QED BY <2>1, <3>1 DEF Types
  <2>6. \A h \in Games : fresh[h] \subseteq fresh'[h]
    BY <2>4
  <2>7. \A e \in Engines : engine[e].game \in Games
    BY DEF Types
  <2>8. GamesInv' /\ EngineInv' /\ AnswersAreOwn'
    BY <2>1, <2>6, <2>7 DEF GamesInv, EngineInv, AnswersAreOwn, MateIsOfRoot, EngineAnswersPly, EnginePly, EngineOf
  <2>9. QueueInv'
    BY <2>1, <2>2, <2>4 DEF QueueInv, g
  <2> QED BY <2>5, <2>8, <2>9
<1>2. CASE /\ mpc = "solve" /\ \E status \in {"LOSE", "NOMATE"} : SetStatus(status)
           /\ UNCHANGED <<selfplay, queue, usi, stop>>
  BY <1>2, SetStatusStep
<1>3. CASE Won
  BY <1>3, SetStatusStep DEF Won
<1> QED BY <1>1, <1>2, <1>3 DEF Solve

-----------------------------------------------------------------------------
(* The actions of an engine.                                                *)
LEMMA SendStep == ASSUME Inv, NEW e \in Engines, Send(e) PROVE Inv'
<1> USE DEF Inv
<1> DEFINE g == engine[e].game
<1>1. /\ game' = game /\ backup' = backup /\ pc' = pc /\ cur' = cur /\ ret' = ret /\ answer' = answer
      /\ slot' = slot /\ mpc' = mpc /\ queue' = queue /\ work' = work
      /\ engine[e].pc = "start" /\ engine' = [engine EXCEPT ![e].pc = "think"]
      /\ fresh' = [fresh EXCEPT ![g] = @ \cup {"asked"}]
  BY DEF Send, selfplay, mate, Fresh
<1>2. g \in Games /\ e = EngineOf(g) /\ \A d \in Engines : engine[d].game \in Games
  BY <1>1 DEF Types, EngineInv
<1>3. /\ engine'[e].pc = "think" /\ engine'[e].game = g
      /\ \A d \in Engines \ {e} : engine'[d] = engine[d]
  BY <1>1 DEF Types
<1>4. fresh'[g] = fresh[g] \cup {"asked"} /\ \A h \in Games \ {g} : fresh'[h] = fresh[h]
  BY <1>1, <1>2 DEF Types
<1>5. Types'
  <2>1. fresh' \in [Games -> Freshness]
    BY <1>1, <1>2 DEF Types, Freshness
  <2>2. engine' \in [Engines -> [pc : {"idle", "start", "think"}, game : Games]]
    BY <1>1 DEF Types
  <2> QED BY <1>1, <2>1, <2>2 DEF Types
<1> HIDE DEF g
<1>6. \A h \in Games : fresh[h] \subseteq fresh'[h]
  BY <1>4
<1>7. GamesInv' /\ AnswersAreOwn'
  BY <1>1, <1>6 DEF GamesInv, AnswersAreOwn, MateIsOfRoot, EngineAnswersPly, EnginePly
<1>8. QueueInv'
  <2>1. work # << >> => Head(work) \in Games
    BY OneLess DEF Types, QueueInv
  <2> QED BY <1>1, <1>6, <2>1 DEF QueueInv
<1>9. EngineInv'
  <2>1. \A d \in Engines : engine'[d].pc # "idle" => d = EngineOf(engine'[d].game)
    BY <1>2, <1>3 DEF EngineInv
  <2>2. \A d \in Engines : engine'[d].game = engine[d].game
    BY <1>3 DEF g
  <2>3. ASSUME NEW d \in Engines, engine'[d].pc = "think", EnginePly(engine[d].game),
               ~ (pc = "think" /\ cur = engine[d].game)
        PROVE  "asked" \in fresh'[engine[d].game]
    <3>1. CASE d = e
      BY <1>4, <3>1 DEF g
    <3>2. CASE d # e
      BY <1>2, <1>3, <1>6, <2>3, <3>2 DEF EngineInv
    <3> QED BY <3>1, <3>2
  <2> QED BY <1>1, <2>1, <2>2, <2>3 DEF EngineInv, EnginePly, EngineOf
<1> QED BY <1>5, <1>7, <1>8, <1>9

LEMMA AnswerStep == ASSUME Inv, NEW e \in Engines, Answer(e) PROVE Inv'
<1> USE DEF Inv
<1> DEFINE g == engine[e].game
<1>1. PICK kind \in {"move", "resign", "win", "abort"} : answer' = [answer EXCEPT ![g] = kind]
  BY DEF Answer
<1>2. /\ game' = game /\ backup' = backup /\ pc' = pc /\ cur' = cur /\ ret' = ret
      /\ slot' = slot /\ mpc' = mpc /\ queue' = queue /\ work' = work
      /\ engine[e].pc = "think" /\ engine' = [engine EXCEPT ![e].pc = "idle"]
      /\ fresh' = [fresh EXCEPT ![g] = IF "asked" \in @ THEN @ \cup {"answer"} ELSE @ \ {"answer"}]
  BY DEF Answer, selfplay, mate, FreshAs
<1>3. g \in Games /\ \A d \in Engines : engine[d].game \in Games
  BY DEF Types
<1>4. /\ engine'[e].pc = "idle" /\ engine'[e].game = g
      /\ \A d \in Engines \ {e} : engine'[d] = engine[d]
  BY <1>2 DEF Types
<1>5. /\ fresh'[g] = IF "asked" \in fresh[g] THEN fresh[g] \cup {"answer"} ELSE fresh[g] \ {"answer"}
      /\ \A h \in Games \ {g} : fresh'[h] = fresh[h] /\ answer'[h] = answer[h]
  BY <1>1, <1>2, <1>3 DEF Types
<1>6. Types'
  <2>1. fresh' \in [Games -> Freshness]
    BY <1>2, <1>3 DEF Types, Freshness
  <2>2. engine' \in [Engines -> [pc : {"idle", "start", "think"}, game : Games]]
    BY <1>2 DEF Types
  <2>3. answer' \in [Games -> {"none", "move", "resign", "win", "abort"}]
    BY <1>1, <1>3 DEF Types
  <2> QED BY <1>2, <2>1, <2>2, <2>3 DEF Types
<1>7. "asked" \in fresh[g] \/ ~ EnginePly(g) \/ (pc = "think" /\ cur = g)
  BY <1>2 DEF EngineInv
<1> HIDE DEF g
<1>8. \A h \in Games : \A x \in {"copy", "status", "move", "asked"} : x \in fresh[h] <=> x \in fresh'[h]
  BY <1>5
<1>9. GamesInv' /\ MateIsOfRoot'
  BY <1>2, <1>8 DEF GamesInv, AnswersAreOwn, MateIsOfRoot
<1>10. EngineAnswersPly'
  BY <1>2, <1>5, <1>7 DEF AnswersAreOwn, EngineAnswersPly, EnginePly
<1>11. QueueInv'
  <2>1. work # << >> => Head(work) \in Games
    BY OneLess DEF Types, QueueInv
  <2> QED BY <1>2, <1>8, <2>1 DEF QueueInv
<1>12. EngineInv'
  BY <1>2, <1>3, <1>4, <1>8 DEF EngineInv, EnginePly, EngineOf
<1> QED BY <1>6, <1>9, <1>10, <1>11, <1>12 DEF AnswersAreOwn

-----------------------------------------------------------------------------
(* The order of playouts and steps: at most one game takes another ply.     *)
LEMMA Plies ==
  ASSUME Inv, PlyInv, NEW g \in Games, cur = g, \A h \in Games \ {g} : game'[h].ply = game[h].ply,
         \/ Return(g) /\ pc \in {"play", "step", "wait", "think"}
         \/ /\ pc \in {"play", "step", "wait"} /\ pc' \in {"step", "wait", "think"} /\ UNCHANGED <<cur, ret>>
            /\ game'[g].ply > 0
         \/ pc = "play" /\ Played(g) /\ game'[g].ply > 0
         \/ pc = "play" /\ UNCHANGED <<pc, cur, ret>>
  PROVE  PlyInv'
<1>1. cur \in 1..NGames /\ Games = 1..NGames /\ NGames \in Nat /\ ret \in {"play", "step"}
  BY GameAssumption DEF Inv, Types, Games
<1>2. CASE Return(g) /\ pc \in {"play", "step", "wait", "think"}
  BY <1>1, <1>2 DEF Return, PlyInv
<1>3. CASE /\ pc \in {"play", "step", "wait"} /\ pc' \in {"step", "wait", "think"} /\ UNCHANGED <<cur, ret>>
           /\ game'[g].ply > 0
  BY <1>1, <1>3 DEF PlyInv
<1>4. CASE pc = "play" /\ Played(g) /\ game'[g].ply > 0
  <2>1. \A h \in Games : h <= cur => game'[h].ply > 0
    BY <1>1, <1>4 DEF PlyInv
  <2>2. ret' = "play"
    BY <1>4 DEF Played, PlyInv
  <2>3. CASE g < NGames
    BY <1>1, <1>4, <2>1, <2>2, <2>3 DEF Played, Done, PlyInv
  <2>4. CASE g = NGames
    BY <1>1, <1>4, <2>1, <2>2, <2>4 DEF Played, Done, PlyInv
  <2> QED BY <1>1, <2>3, <2>4
<1>5. CASE pc = "play" /\ UNCHANGED <<pc, cur, ret>>
  BY <1>1, <1>5 DEF PlyInv
<1> QED BY <1>2, <1>3, <1>4, <1>5

LEMMA GamePlies ==
  ASSUME Inv, PlyInv, NEW g \in Games, cur = g, pc \in {"play", "step", "wait"},
         NEW r \in GameType, r.ply = game[g].ply,
         (\E result : NextGame(g, r, result)) \/ NextPly(g, r)
  PROVE  PlyInv'
<1>1. game \in [Games -> GameType] /\ r.ply \in Nat
  BY DEF Inv, Types, GameType
<1>2. CASE Return(g) /\ \E s : game' = [game EXCEPT ![g] = s]
  BY <1>1, <1>2, Plies
<1>3. CASE NextPly(g, r) /\ ~ Return(g)
  <2> DEFINE n == [r EXCEPT !.ply = @ + 1, !.turn = Other(@)]
             s == [n EXCEPT !.playout = 0, !.limit = PlayoutNum, !.open = FALSE, !.visits = <<0, 0>>, !.lost = 0]
  <2>1. game' = [game EXCEPT ![g] = s] /\ pc' = "think" /\ UNCHANGED <<cur, ret>>
    BY <1>3 DEF NextPly, NextGame
  <2>2. s.ply = r.ply + 1
    BY DEF GameType
  <2> HIDE DEF s
  <2> QED BY <1>1, <2>1, <2>2, Plies
<1>4. (\E result : NextGame(g, r, result)) => Return(g) /\ \E s : game' = [game EXCEPT ![g] = s]
  BY DEF NextGame
<1>5. NextPly(g, r) => \E s : game' = [game EXCEPT ![g] = s]
  BY DEF NextPly, NextGame
<1> QED BY <1>2, <1>3, <1>4, <1>5

LEMMA PliesStep == Inv /\ PlyInv /\ [Next]_vars => PlyInv'
<1> SUFFICES ASSUME Inv, PlyInv, [Next]_vars PROVE PlyInv'
  OBVIOUS
<1>0. game \in [Games -> GameType] /\ cur \in Games /\ Games = 1..NGames
  BY DEF Inv, Types, Games
<1>1. ASSUME UNCHANGED selfplay PROVE PlyInv'
  BY <1>1 DEF selfplay, PlyInv
<1>2. CASE Loop
  BY <1>0, <1>2 DEF Loop, PlyInv
<1>3. CASE Eval
  <2>1. \A g \in Games : game'[g].ply = game[g].ply
    BY <1>0, <1>3 DEF Eval, GameType
  <2> QED BY <1>0, <1>3, <2>1, GameNumbers DEF Eval, PlyInv
<1> SUFFICES ASSUME NEW g \in Games,
      \/ NewGame(g) \/ EngineTurn(g) \/ Mated(g) \/ OnlyMove(g) \/ Nyugyoku(g) \/ OpenRoot(g) \/ Search(g)
      \/ TakeAnswer(g) \/ PollMate(g) \/ Count(g) \/ WaitMate(g) \/ Choose(g) \/ ThinkAsync(g)
    PROVE PlyInv'
  BY <1>1, <1>2, <1>3
  DEF Next, vars, SelfPlayThread, MateThread, EngineThread, Take, Copy, Solve, Won, Send, Answer, Stop
<1>4. game[g] \in GameType /\ \A h \in Games : game[h].open => game[h].ply > 0
  BY <1>0 DEF Inv, GamesInv, GameOK
<1> DEFINE r == [game[g] EXCEPT !.mate = FALSE]
<1>5. r \in GameType /\ r.ply = game[g].ply
  BY <1>4 DEF GameType
<1> HIDE DEF r
<1>6. ASSUME NewGame(g) PROVE PlyInv'
  <2>1. PICK c \in Colours : \E t \in Turns(g, c) :
          /\ game' = [game EXCEPT ![g].ply = 1, ![g].turn = c, ![g].engine = t]
          /\ IF t = 1 /\ RandomMove = 0 THEN pc' = "think" ELSE pc' = pc
    BY <1>6 DEF NewGame
  <2>2. game'[g].ply = 1 /\ \A h \in Games \ {g} : game'[h] = game[h]
    BY <1>0, <1>4, <2>1 DEF GameType
  <2>3. pc = "play" /\ cur = g /\ UNCHANGED <<cur, ret>> /\ pc' \in {"think", "play"}
    BY <1>6, <2>1 DEF NewGame, Playing
  <2> QED BY <2>2, <2>3, Plies
<1>7. ASSUME EngineTurn(g) PROVE PlyInv'
  BY <1>7, Plies DEF EngineTurn, Turn, Playing
<1>8. ASSUME Mated(g) \/ Nyugyoku(g) PROVE PlyInv'
  BY <1>4, <1>8, GamePlies DEF Mated, Nyugyoku, Turn, Playing
<1>9. ASSUME OnlyMove(g) PROVE PlyInv'
  <2>1. AddRecord(game[g], TRUE, "self", FALSE) \in GameType /\ AddRecord(game[g], TRUE, "self", FALSE).ply = game[g].ply
    BY <1>4, AddType
  <2> QED BY <1>9, <2>1, GamePlies DEF OnlyMove, Turn, Playing
<1>10. ASSUME OpenRoot(g) PROVE PlyInv'
  <2>1. \A h \in Games : game'[h].ply = game[h].ply
    BY <1>0, <1>10 DEF OpenRoot, GameType
  <2> QED BY <1>10, <2>1, Plies DEF OpenRoot, Turn, Playing
<1>11. ASSUME Search(g) PROVE PlyInv'
  <2>1. \A h \in Games : game'[h].ply = game[h].ply
    <3>1. PICK c : \/ UNCHANGED game
                  \/ \E l \in {0, c} : game' = [game EXCEPT ![g].visits[c] = @ + 1, ![g].lost = IF @ = 0 THEN l ELSE @]
      BY <1>11 DEF Search
    <3>2. ASSUME NEW l, game' = [game EXCEPT ![g].visits[c] = @ + 1, ![g].lost = IF @ = 0 THEN l ELSE @]
          PROVE  \A h \in Games : game'[h].ply = game[h].ply
      BY <1>0, <3>2 DEF GameType
    <3> QED BY <3>1, <3>2
  <2> QED BY <1>4, <1>11, <2>1, Plies DEF Search, Playing
<1>12. ASSUME TakeAnswer(g) PROVE PlyInv'
  <2> DEFINE s == AddRecord(game[g], "answer" \in fresh[g], "engine", FALSE)
  <2>1. s \in GameType /\ s.ply = game[g].ply
    BY <1>4, AddType
  <2>2. \/ Return(g) /\ UNCHANGED game
        \/ \E result : NextGame(g, game[g], result)
        \/ NextPly(g, s)
    BY <1>12 DEF TakeAnswer
  <2> HIDE DEF s
  <2>3. pc = "step" /\ cur = g
    BY <1>12 DEF TakeAnswer, Stepping
  <2> QED BY <1>4, <2>1, <2>2, <2>3, GamePlies, Plies
<1>13. ASSUME MateEnds(g), pc \in {"step", "wait"}, cur = g PROVE PlyInv'
  <2> DEFINE s == AddRecord(r, "move" \in fresh[g], "self", FALSE)
  <2>1. s \in GameType /\ s.ply = game[g].ply
    BY <1>5, AddType
  <2>2. \E result : NextGame(g, r, result) \/ NextGame(g, s, result)
    BY <1>13 DEF MateEnds, r
  <2> HIDE DEF s
  <2> QED BY <1>5, <1>13, <2>1, <2>2, GamePlies
<1>14. ASSUME PollMate(g) \/ WaitMate(g) PROVE PlyInv'
  BY <1>13, <1>14 DEF PollMate, WaitMate, Stepping
<1>15. ASSUME Count(g) PROVE PlyInv'
  <2>1. \A h \in Games : game'[h].ply = game[h].ply
    <3> DEFINE m == [game[g] EXCEPT !.playout = @ + 1, !.mate = @ /\ slot[g] = "RUNING"]
               t == [m EXCEPT !.limit = @ + PlayoutNum \div 2]
    <3>1. m.ply = game[g].ply /\ t.ply = game[g].ply
      BY <1>4 DEF GameType
    <3>2. game' = [game EXCEPT ![g] = m] \/ game' = [game EXCEPT ![g] = t]
      BY <1>15 DEF Count
    <3> HIDE DEF m, t
    <3> QED BY <1>0, <3>1, <3>2
  <2>2. pc = "step" /\ cur = g /\ (Return(g) \/ (pc' = "wait" /\ UNCHANGED <<cur, ret>>))
    BY <1>15 DEF Count, Stepping
  <2> QED BY <2>1, <2>2, Plies DEF PlyInv
<1>16. ASSUME Choose(g) PROVE PlyInv'
  <2> DEFINE s == AddRecord(r, TRUE, "self", r.ply > RandomMove \/ TrainRandom)
  <2>1. (r.ply > RandomMove \/ TrainRandom) \in BOOLEAN
    BY FlagAssumption
  <2>2. s \in GameType /\ s.ply = game[g].ply
    BY <1>5, <2>1, AddType
  <2>3. (\E result : NextGame(g, r, result)) \/ NextPly(g, s)
    BY <1>16 DEF Choose, r
  <2>4. pc = "wait" /\ cur = g
    BY <1>16 DEF Choose
  <2> HIDE DEF s
  <2> QED BY <1>5, <2>2, <2>3, <2>4, GamePlies
<1>17. ASSUME ThinkAsync(g) PROVE PlyInv'
  BY <1>17, Plies DEF ThinkAsync
<1> QED BY <1>6, <1>7, <1>8, <1>9, <1>10, <1>11, <1>12, <1>14, <1>15, <1>16, <1>17

-----------------------------------------------------------------------------
LEMMA Starts == Init => Inv /\ PlyInv /\ OutputIsTheGame
<1> SUFFICES ASSUME Init PROVE Inv /\ PlyInv /\ OutputIsTheGame
  OBVIOUS
<1> DEFINE r == [ply |-> 0, turn |-> "Black", engine |-> -1, open |-> FALSE,
       playout |-> 0, limit |-> PlayoutNum, visits |-> <<0, 0>>, lost |-> 0, mate |-> FALSE, records |-> <<>>]
<1>1. r \in GameType
  <2>1. <<0, 0>> \in [{1, 2} -> Nat] /\ << >> \in Seq(Record) /\ PlayoutNum \in Nat
    BY GameAssumption
  <2> QED BY <2>1 DEF GameType, Colours
<1>2. r.ply = 0 /\ ~ r.open /\ ~ r.mate /\ r.records = << >>
  OBVIOUS
<1>3. game = [g \in Games |-> r]
  BY DEF Init
<1> HIDE DEF r
<1>4. \A g \in Games : game[g] = r
  BY <1>3
<1>5. Types
  <2>1. << >> \in Seq(Games) /\ 1 \in Games
    BY GameNumbers
  <2> QED BY <1>1, <1>3, <2>1 DEF Init, Types, Freshness
<1>6. GamesInv
  <2>1. GameOK(r)
    BY <1>2 DEF GameOK, RecordsOf
  <2> QED BY <1>4, <2>1 DEF GamesInv, Init
<1>7. QueueInv
  BY DEF Init, QueueInv, Distinct, In
<1>8. EngineInv
  BY DEF Init, EngineInv
<1>9. AnswersAreOwn
  BY <1>2, <1>4 DEF Init, AnswersAreOwn, MateIsOfRoot, EngineAnswersPly
<1>10. PlyInv
  BY DEF Init, PlyInv
<1>11. OutputIsTheGame
  BY DEF Init, NoOutput, OutputIsTheGame
<1> QED BY <1>5, <1>6, <1>7, <1>8, <1>9, <1>10, <1>11 DEF Inv

LEMMA Steps == Inv /\ PlyInv /\ OutputIsTheGame /\ [Next]_vars => Good
<1> SUFFICES ASSUME Inv, PlyInv, OutputIsTheGame, [Next]_vars PROVE Good
  OBVIOUS
<1>1. CASE Stop \/ UNCHANGED vars
  <2>1. UNCHANGED <<selfplay, mate, usi, fresh>>
    BY <1>1 DEF Stop, vars
  <2>2. UNCHANGED <<game, backup, pc, cur, ret, out>>
    BY <2>1 DEF selfplay
  <2>3. OutputIsTheGame'
    BY <2>2 DEF OutputIsTheGame
  <2> QED BY <2>1, <2>2, <2>3, Stays DEF Good, Inv, Types, Same, GamesInv
<1>2. CASE Take \/ Copy \/ Solve \/ Won \/ \E e \in Engines : Send(e) \/ Answer(e)
  <2>1. Inv'
    BY <1>2, TakeStep, CopyStep, SolveStep, SendStep, AnswerStep
  <2>2. out' = out
    BY <1>2 DEF Take, Copy, Solve, Won, Send, Answer, selfplay
  <2> QED BY <2>1, <2>2 DEF Good, OutputIsTheGame
<1>3. CASE SelfPlayThread
  BY <1>3, LoopStep, EvalStep, NewGameStep, EngineTurnStep, MatedStep, OnlyMoveStep, OpenRootStep, SearchStep,
     TakeAnswerStep, PollStep, CountStep, ChooseStep, ThinkAsyncStep DEF SelfPlayThread
<1> QED BY <1>1, <1>2, <1>3 DEF Next, MateThread, EngineThread

LEMMA Invariance == Spec => [](Inv /\ PlyInv /\ OutputIsTheGame)
BY Starts, Steps, PliesStep, PTL DEF Spec, Good

(* Every answer that a game takes, of the mate thread or of its engine, is  *)
(* for the position that the game has (NextStep, MateSearch, Think).        *)
THEOREM OwnAnswers == Spec => []AnswersAreOwn
BY Invariance, PTL DEF Inv

(* The records that NextGame writes are those of the plies of one game,     *)
(* with the engine's moves on the engine's plies.                           *)
THEOREM GamesAreWritten == Spec => []OutputIsTheGame
BY Invariance, PTL
=============================================================================
