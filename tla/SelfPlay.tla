------------------------------ MODULE SelfPlay ------------------------------
(***************************************************************************)
(* A group of self-play games (selfplay/self_play.cpp, UCTSearcherGroup    *)
(* and UCTSearcher) with its two threads and the USI engines it plays      *)
(* against (selfplay/USIEngine.cpp).                                       *)
(*                                                                         *)
(* The self-play thread goes round: a playout of every game, one           *)
(* evaluation of the batch, one NextStep of every game.  The mate thread   *)
(* takes whole queues of roots and answers each in the slot of its game.   *)
(* An engine has one thread at a time, which a new request joins first.    *)
(*                                                                         *)
(* A position is known by its game and its ply: the moves there are and    *)
(* how the game ends are chosen where the code asks for them.  What the    *)
(* other threads compute carries whether it is of the position that the    *)
(* game has now (the history variable fresh).  A root has two children     *)
(* that are visited.  ROOT_MATE_SEARCH_DEPTH is not 0.                      *)
(***************************************************************************)
EXTENDS Integers, Sequences

CONSTANTS
  NGames,        (* policy_value_batch_maxsize, the games of the group       *)
  UsiThreads,    (* usi_threads, the engines                                 *)
  UsiEngineNum,  (* usi_engine_num: games with a smaller id meet an engine   *)
  UsiTurn,       (* usi_turn: a colour, or any other value for both          *)
  PlayoutNum,    (* playout_num                                              *)
  ExtensionTimes, (* EXTENSION_TIMES                                         *)
  RandomMove, MinMove, MaxMove, (* RANDOM_MOVE, MIN_MOVE, MAX_MOVE           *)
  OutMaxMove, TrainRandom, (* OUT_MAX_MOVE, TRAIN_RANDOM                     *)
  TeacherNodes   (* teacherNodes; made is counted up to it                   *)

Games   == 1..NGames
Engines == 0..UsiThreads - 1

ASSUME GameAssumption   == {NGames, UsiThreads, PlayoutNum, MaxMove} \subseteq Nat \ {0}
ASSUME NumberAssumption == {UsiEngineNum, ExtensionTimes, RandomMove, MinMove, TeacherNodes} \subseteq Nat
ASSUME FlagAssumption   == {OutMaxMove, TrainRandom} \subseteq BOOLEAN

VARIABLES
  game,    \* the UCTSearcher of each game, see Init
  backup,  \* the child of the trajectory whose leaf is in the batch, or 0
  pc, cur, ret, \* where the self-play thread is, at which game, who called NextStep
  slot, queue,  \* status of mate_search_slot, mate_search_queue
  mpc, work,    \* the mate thread: where it is, its queue
  engine,  \* the thread of each USI engine
  answer,  \* results[] of the engines, by game
  fresh,   \* history: what there is of the position the game has now: "copy" (pos_copy),
           \* "status" and "move" of its slot, "asked" of the engine and its "answer"
  out, made, \* the game that the self-play thread has just written, madeTeacherNodes
  stop, running

selfplay == <<game, backup, pc, cur, ret, out, made, running>>
mate     == <<slot, queue, mpc, work>>
usi      == <<engine, answer>>
vars     == <<selfplay, mate, usi, fresh, stop>>

Colours == {"Black", "White"}
Other(c) == CHOOSE d \in Colours : d # c
Win(c)   == IF c = "Black" THEN "BlackWin" ELSE "WhiteWin"

NoOutput == [moves |-> <<>>, ply |-> 0, opponent |-> 0, result |-> "Draw", usiWin |-> FALSE]

EngineOf(g)  == g % UsiThreads
EnginePly(g) == game[g].ply % 2 = game[g].engine /\ game[g].ply > RandomMove

Init ==
  /\ game = [g \in Games |-> [ply |-> 0, turn |-> "Black", engine |-> -1, open |-> FALSE,
       playout |-> 0, limit |-> PlayoutNum, visits |-> <<0, 0>>, lost |-> 0, mate |-> FALSE, records |-> <<>>]]
  /\ backup = [g \in Games |-> 0]
  /\ pc = "loop" /\ cur = 1 /\ ret = "play"
  /\ slot = [g \in Games |-> "NOMATE"]
  /\ queue = <<>> /\ mpc = "take" /\ work = <<>>
  /\ engine = [e \in Engines |-> [pc |-> "idle", game |-> 1]]
  /\ answer = [g \in Games |-> "none"] /\ fresh = [g \in Games |-> {}]
  /\ out = NoOutput /\ made = 0
  /\ stop = FALSE /\ running = TRUE

-----------------------------------------------------------------------------
Keep == out' = NoOutput /\ UNCHANGED made

(* The parts of NextStep.  r stands for game[g] as changed so far.          *)

(* The thread is done with game g.                                          *)
Done(g, after) == IF g < NGames THEN cur' = g + 1 /\ pc' = pc ELSE cur' = 1 /\ pc' = after

(* NextStep returns: to Playout, which goes on with its loop, or to the     *)
(* loop over the games.                                                     *)
Return(g) ==
  /\ IF ret = "play" THEN pc' = "play" /\ cur' = cur
     ELSE IF g < NGames THEN pc' = "step" /\ cur' = g + 1 ELSE pc' = "loop" /\ cur' = 1
  /\ UNCHANGED ret

(* own: whether the move is one of the position it is recorded at.          *)
AddRecord(r, own, by, trained) ==
  [r EXCEPT !.records = Append(@, [at |-> IF own THEN r.ply ELSE 0, colour |-> r.turn, by |-> by, trained |-> trained])]

(* opponent of the file: 0 self-play, 1 the engine is Black, 2 it is White. *)
StartTurn(r) == IF r.ply % 2 = 1 THEN r.turn ELSE Other(r.turn)
Opponent(r)  ==
  IF r.engine < 0 THEN 0 ELSE IF (r.engine = 1) = (StartTurn(r) = "Black") THEN 1 ELSE 2

(* ++usi_wins: BlackWin + usi_engine_turn and WhiteWin - usi_engine_turn    *)
(* are the same result if the turn is 0 and the opposite one if it is 1.    *)
Shifted(result, turn) ==
  IF turn = 0 THEN result ELSE IF result = "BlackWin" THEN "WhiteWin" ELSE "BlackWin"
UsiWin(r, result) ==
  r.engine >= 0 /\ result = Shifted(Win(StartTurn(r)), r.engine)

(* NextGame: the records are written if the game is long enough.            *)
NextGame(g, r, result) ==
  /\ IF r.ply >= MinMove /\ r.records # <<>>
     THEN /\ out' = [moves |-> r.records, ply |-> r.ply, opponent |-> Opponent(r),
                     result |-> result, usiWin |-> UsiWin(r, result)]
          /\ LET n == Len(SelectSeq(r.records, LAMBDA m : m.trained))
             IN  made' = IF made + n > TeacherNodes THEN TeacherNodes ELSE made + n
     ELSE Keep
  /\ game' = [game EXCEPT ![g] =
       [r EXCEPT !.ply = 0, !.playout = 0, !.turn = "Black", !.engine = -1, !.records = <<>>,
                 !.open = FALSE, !.visits = <<0, 0>>, !.lost = 0]]
  /\ fresh' = [fresh EXCEPT ![g] = {}]
  /\ Return(g)

(* NextPly: the end by MAX_MOVE or by repetition, or the next turn, which   *)
(* asks the engine first when it is the engine's (also in random moves).    *)
NextPly(g, r) ==
  IF r.ply >= MaxMove
  THEN NextGame(g, IF OutMaxMove THEN r ELSE [r EXCEPT !.records = <<>>], "Draw")
  ELSE LET n == [r EXCEPT !.ply = @ + 1, !.turn = Other(@)]
       IN  \/ \E result \in {"Draw", Win("Black"), Win("White")} : NextGame(g, n, result)
           \/ /\ game' = [game EXCEPT ![g] = [n EXCEPT !.playout = 0, !.limit = PlayoutNum,
                   !.open = FALSE, !.visits = <<0, 0>>, !.lost = 0]]
              /\ IF n.ply % 2 = n.engine THEN pc' = "think" /\ UNCHANGED <<cur, ret>> ELSE Return(g)
              /\ fresh' = [fresh EXCEPT ![g] = {}] /\ Keep

-----------------------------------------------------------------------------
(* SelfPlay: the loop, the playouts, the batch, the steps.                  *)
Loop ==
  /\ pc = "loop"
  /\ IF made < TeacherNodes /\ ~ stop
     THEN pc' = "play" /\ ret' = "play" /\ UNCHANGED running
     ELSE pc' = "end" /\ running' = FALSE /\ UNCHANGED ret
  /\ cur' = 1
  /\ Keep /\ UNCHANGED <<fresh, backup, game, mate, usi, stop>>

Playing(g) == pc = "play" /\ cur = g
Quiet      == UNCHANGED <<backup, running, mate, usi, stop>>

(* Playout returns: the batch is evaluated when all games have had theirs.  *)
Played(g) == Done(g, "eval") /\ UNCHANGED ret

(* The start position is any; usi_turn says which colour the engine has.    *)
Turns(g, c) ==
  IF g > UsiEngineNum THEN {-1} ELSE IF UsiTurn \in Colours THEN {IF UsiTurn = c THEN 1 ELSE 0} ELSE {0, 1}

NewGame(g) ==
  /\ Playing(g) /\ game[g].playout = 0 /\ game[g].ply = 0
  /\ \E c \in Colours : \E t \in Turns(g, c) :
       /\ game' = [game EXCEPT ![g].ply = 1, ![g].turn = c, ![g].engine = t]
       /\ IF t = 1 /\ RandomMove = 0 THEN pc' = "think" ELSE pc' = pc
  /\ fresh' = [fresh EXCEPT ![g] = {}] /\ Keep /\ UNCHANGED <<cur, ret>> /\ Quiet

Turn(g) == Playing(g) /\ game[g].playout = 0 /\ game[g].ply > 0 /\ ~ game[g].open

EngineTurn(g) ==
  /\ Turn(g) /\ EnginePly(g) /\ Played(g)
  /\ Keep /\ UNCHANGED <<game, fresh>> /\ Quiet

(* Fault: the only move is not recorded.                                    *)
OnlyMoveUnrecorded(g) ==
  /\ Turn(g) /\ ~ EnginePly(g)
  /\ NextPly(g, game[g]) /\ Quiet

(* No move: mated.  One move: it is played.  nyugyoku: the side wins.       *)
Mated(g) ==
  /\ Turn(g) /\ ~ EnginePly(g)
  /\ NextGame(g, game[g], Win(Other(game[g].turn))) /\ Quiet

OnlyMove(g) ==
  /\ Turn(g) /\ ~ EnginePly(g)
  /\ NextPly(g, AddRecord(game[g], TRUE, "self", FALSE)) /\ Quiet

Nyugyoku(g) ==
  /\ Turn(g) /\ ~ EnginePly(g)
  /\ NextGame(g, game[g], Win(game[g].turn)) /\ Quiet

(* The root goes to the mate thread, and to the batch unless its            *)
(* probabilities are in the cache or in the subtree that is reused.         *)
OpenRoot(g) ==
  /\ Turn(g) /\ ~ EnginePly(g)
  /\ game' = [game EXCEPT ![g].open = TRUE, ![g].mate = TRUE]
  /\ slot' = [slot EXCEPT ![g] = "RUNING"]
  /\ fresh' = [fresh EXCEPT ![g] = @ \ {"status"}]
  /\ queue' = Append(queue, g)
  /\ \/ Played(g)
     \/ UNCHANGED <<pc, cur, ret>>
  /\ Keep /\ UNCHANGED <<backup, running, mpc, work, usi, stop>>

(* UctSearch down child c: to a leaf that goes to the batch, or to one that *)
(* has a result, when NextStep follows at once and may learn that the child *)
(* is lost for the opponent.                                                *)
Search(g) ==
  /\ Playing(g) /\ game[g].open
  /\ \E c \in IF game[g].lost = 0 THEN {1, 2} ELSE {game[g].lost} :
       \/ /\ backup' = [backup EXCEPT ![g] = c]
          /\ Played(g) /\ UNCHANGED game
       \/ /\ \E l \in {0, c} : game' = [game EXCEPT ![g].visits[c] = @ + 1, ![g].lost = IF @ = 0 THEN l ELSE @]
          /\ pc' = "step" /\ UNCHANGED <<backup, cur, ret>>
  /\ Keep /\ UNCHANGED <<fresh, running, mate, usi, stop>>

(* EvalNode, and the backup along the trajectories of the batch.            *)
Eval ==
  /\ pc = "eval"
  /\ game' = [g \in Games |-> IF backup[g] = 0 THEN game[g] ELSE [game[g] EXCEPT !.visits[backup[g]] = @ + 1]]
  /\ backup' = [g \in Games |-> 0]
  /\ pc' = "step" /\ cur' = 1 /\ ret' = "step"
  /\ Keep /\ UNCHANGED <<fresh, running, mate, usi, stop>>

-----------------------------------------------------------------------------
(* NextStep.  mate is mate_status == RUNING.                                *)
Stepping(g) == pc = "step" /\ cur = g

(* At the engine's ply its answer is taken, if there is one.                *)
TakeAnswer(g) ==
  /\ Stepping(g) /\ EnginePly(g)
  /\ LET a == answer[g]
     IN  \/ /\ a = "none" \/ (a = "abort" /\ stop)
            /\ Return(g) /\ Keep /\ UNCHANGED <<game, fresh>>
         \/ a = "resign" /\ NextGame(g, game[g], Win(Other(game[g].turn)))
         \/ a = "win"    /\ NextGame(g, game[g], Win(game[g].turn))
         \/ a = "move"   /\ NextPly(g, AddRecord(game[g], "answer" \in fresh[g], "engine", FALSE))
  /\ Quiet

(* The end by the answer of the mate thread; its move is recorded but after *)
(* a random one.                                                            *)
MateEnds(g) ==
  LET r == [game[g] EXCEPT !.mate = FALSE]
  IN  \/ /\ slot[g] = "WIN"
         /\ NextGame(g, IF r.ply > RandomMove THEN AddRecord(r, "move" \in fresh[g], "self", FALSE) ELSE r, Win(r.turn))
      \/ slot[g] = "LOSE" /\ NextGame(g, r, Win(Other(r.turn)))

(* InterruptionCheck, of the two children by the order of their visits.     *)
Most(v)  == IF v[2] > v[1] THEN 2 ELSE 1
Leads(v, rest) == v[Most(v)] - v[3 - Most(v)] > rest
Extends(r) ==
  /\ r.limit < PlayoutNum * (IF r.ply > RandomMove THEN ExtensionTimes ELSE 0)
  /\ 5 * r.visits[Most(r.visits)] < 6 * r.visits[3 - Most(r.visits)]
Found(r) == r.lost # 0 /\ r.lost = Most(r.visits)

(* A playout is counted, and the search of the turn may be over.            *)
Count(g) ==
  /\ Stepping(g) /\ ~ EnginePly(g)
  /\ game[g].mate => slot[g] \in {"RUNING", "NOMATE"}
  /\ LET r == [game[g] EXCEPT !.playout = @ + 1,
                 !.mate = @ /\ slot[g] = "RUNING"]
         over == Leads(r.visits, r.limit - r.playout)
     IN  IF ~ Found(r) /\ (~ over \/ Extends(r))
         THEN /\ game' = [game EXCEPT ![g] = IF over THEN [r EXCEPT !.limit = @ + PlayoutNum \div 2] ELSE r]
              /\ Return(g)
         ELSE game' = [game EXCEPT ![g] = r] /\ pc' = "wait" /\ UNCHANGED <<cur, ret>>
  /\ Keep /\ Quiet /\ UNCHANGED fresh

PollMate(g) == Stepping(g) /\ ~ EnginePly(g) /\ game[g].mate /\ MateEnds(g) /\ Quiet

(* The thread spins until the mate thread has answered.                     *)
WaitMate(g) == pc = "wait" /\ cur = g /\ game[g].mate /\ MateEnds(g) /\ Quiet

(* Neither: a random move, or the best one unless the game is as good as    *)
(* over.                                                                    *)
Choose(g) ==
  /\ pc = "wait" /\ cur = g
  /\ game[g].mate => slot[g] = "NOMATE"
  /\ LET r == [game[g] EXCEPT !.mate = FALSE]
     IN  \/ /\ r.ply > RandomMove
            /\ \/ NextGame(g, r, Win(r.turn))
               \/ r.lost = 0 /\ NextGame(g, r, Win(Other(r.turn)))
         \/ NextPly(g, AddRecord(r, TRUE, "self", r.ply > RandomMove \/ TrainRandom))
  /\ Quiet

(* Fault: the last answer is left in results.                               *)
ThinkAsyncKeeps(g) ==
  /\ pc = "think" /\ cur = g /\ engine[EngineOf(g)].pc = "idle"
  /\ engine' = [engine EXCEPT ![EngineOf(g)] = [pc |-> "start", game |-> g]]
  /\ Return(g)
  /\ Keep /\ UNCHANGED <<game, backup, running, mate, answer, fresh, stop>>

(* ThinkAsync: the last thread of the engine is joined first.               *)
ThinkAsync(g) ==
  /\ pc = "think" /\ cur = g /\ engine[EngineOf(g)].pc = "idle"
  /\ answer' = [answer EXCEPT ![g] = "none"]
  /\ engine' = [engine EXCEPT ![EngineOf(g)] = [pc |-> "start", game |-> g]]
  /\ Return(g)
  /\ Keep /\ UNCHANGED <<game, backup, running, mate, fresh, stop>>

-----------------------------------------------------------------------------
(* x is of the position that game g has now just if y is.                   *)
FreshAs(g, x, y) == fresh' = [fresh EXCEPT ![g] = IF y \in @ THEN @ \cup {x} ELSE @ \ {x}]
Fresh(g, x)      == fresh' = [fresh EXCEPT ![g] = @ \cup {x}]

(* Think, with the position as it is when the thread comes to read it.      *)
Send(e) ==
  /\ engine[e].pc = "start"
  /\ engine' = [engine EXCEPT ![e].pc = "think"]
  /\ Fresh(engine[e].game, "asked")
  /\ UNCHANGED <<selfplay, mate, answer, stop>>

Answer(e) ==
  /\ engine[e].pc = "think"
  /\ \E kind \in {"move", "resign", "win"} \cup IF stop THEN {"abort"} ELSE {} :
       answer' = [answer EXCEPT ![engine[e].game] = kind]
  /\ FreshAs(engine[e].game, "answer", "asked")
  /\ engine' = [engine EXCEPT ![e].pc = "idle"]
  /\ UNCHANGED <<selfplay, mate, stop>>

(* MateSearch.                                                              *)
Take ==
  /\ mpc = "take"
  /\ IF running THEN queue # <<>> /\ work' = queue /\ queue' = <<>> /\ mpc' = "copy"
     ELSE mpc' = "end" /\ UNCHANGED <<work, queue>>
  /\ UNCHANGED <<selfplay, slot, usi, fresh, stop>>

Copy ==
  /\ mpc = "copy"
  /\ Fresh(Head(work), "copy") /\ mpc' = "solve"
  /\ UNCHANGED <<selfplay, slot, queue, work, usi, stop>>

SetStatus(status) ==
  /\ slot' = [slot EXCEPT ![Head(work)] = status] /\ FreshAs(Head(work), "status", "copy")
  /\ work' = Tail(work) /\ mpc' = IF Len(work) = 1 THEN "take" ELSE "copy"

(* Fault: the slot is left as it is when there is no mate.                  *)
SolveSilent ==
  /\ mpc = "solve"
  /\ \/ /\ FreshAs(Head(work), "move", "copy")
        /\ mpc' = "win" /\ UNCHANGED <<slot, work>>
     \/ \E status \in {"LOSE", "RUNING"} : SetStatus(status)
  /\ UNCHANGED <<selfplay, queue, usi, stop>>

Solve ==
  /\ mpc = "solve"
  /\ \/ /\ FreshAs(Head(work), "move", "copy")
        /\ mpc' = "win" /\ UNCHANGED <<slot, work>>
     \/ \E status \in {"LOSE", "NOMATE"} : SetStatus(status)
  /\ UNCHANGED <<selfplay, queue, usi, stop>>

Won ==
  /\ mpc = "win" /\ SetStatus("WIN")
  /\ UNCHANGED <<selfplay, queue, usi, stop>>

(* SIGINT.                                                                  *)
Stop == ~ stop /\ stop' = TRUE /\ UNCHANGED <<selfplay, mate, usi, fresh>>

SelfPlayThread ==
  \/ Loop \/ Eval
  \/ \E g \in Games :
       \/ NewGame(g) \/ EngineTurn(g) \/ Mated(g) \/ OnlyMove(g) \/ Nyugyoku(g) \/ OpenRoot(g) \/ Search(g)
       \/ TakeAnswer(g) \/ PollMate(g) \/ Count(g) \/ WaitMate(g) \/ Choose(g) \/ ThinkAsync(g)
MateThread      == Take \/ Copy \/ Solve \/ Won
EngineThread(e) == Send(e) \/ Answer(e)

Next == SelfPlayThread \/ MateThread \/ Stop \/ \E e \in Engines : EngineThread(e)

Spec == Init /\ [][Next]_vars

(* The operating system runs all threads, an engine answers, and a playout  *)
(* does not go on for ever without a position that the network has to       *)
(* evaluate: the games do not all end in the cache.                         *)
Leave == SelfPlayThread /\ pc = "play" /\ <<pc', cur'>> # <<pc, cur>> /\ pc' \in {"play", "eval"}

FairSpec ==
  /\ Spec
  /\ WF_vars(SelfPlayThread) /\ SF_vars(Leave)
  /\ WF_vars(MateThread) /\ \A e \in Engines : WF_vars(EngineThread(e))

-----------------------------------------------------------------------------
(* What a game is about to read in its slot is for the root it searches,    *)
(* the move too, though the mate thread takes the position from the game    *)
(* when it comes to it and answers without the mutex; and the answer of an  *)
(* engine that NextStep plays is for the position of the game, though       *)
(* engines are shared and are asked in random moves too, whose answers      *)
(* nobody takes.                                                            *)
MateIsOfRoot ==
  \A g \in Games :
    game[g].mate /\ slot[g] # "RUNING" =>
      "status" \in fresh[g] /\ (slot[g] = "WIN" => "move" \in fresh[g])
EngineAnswersPly ==
  \A g \in Games :
    EnginePly(g) /\ ~ (pc = "think" /\ cur = g) /\ answer[g] # "none" => "answer" \in fresh[g]
AnswersAreOwn == MateIsOfRoot /\ EngineAnswersPly

(* A game that is written can be replayed: its moves are those of its       *)
(* positions one by one, up to the last position or the one before it, and  *)
(* those of the engine are, after the random moves, all moves of the colour *)
(* that the file gives it; only decided games with it change usi_wins.      *)
OutputIsTheGame ==
  /\ out.moves # <<>> => Len(out.moves) \in {out.ply - 1, out.ply}
  /\ \A i \in DOMAIN out.moves :
       /\ out.moves[i].at = i
       /\ out.moves[i].by = "engine" <=>
            /\ i > RandomMove
            /\ out.opponent # 0 /\ out.moves[i].colour = IF out.opponent = 1 THEN "Black" ELSE "White"
  /\ out.usiWin => out.opponent # 0 /\ out.result # "Draw"

(* Every game comes to its end, unless the generation is over: each search  *)
(* has an end however often it is extended, mate searches and engines are   *)
(* waited for in vain by none; and SIGINT ends both threads.                *)
GamesEnd == \A g \in Games : game[g].ply > 0 ~> (game[g].ply = 0 \/ pc = "end")
StopEnds == stop ~> (pc = "end" /\ mpc = "end")
AllEnds == GamesEnd /\ StopEnds
=============================================================================
