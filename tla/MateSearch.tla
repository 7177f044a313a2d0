---------------------------- MODULE MateSearch -----------------------------
(***************************************************************************)
(* The mate search of a fixed depth by which the search threads and the    *)
(* self-play games look at a new node (mate.h): every check, every answer, *)
(* and so on, down to mateMoveIn1Ply.  plies is draw_ply - gamePly(), what *)
(* is left before the game is a draw.                                      *)
(***************************************************************************)
EXTENDS Position

CONSTANT Searched   \* the starts whose positions are searched deeper than one ply

\* The positions after the checks that the searches try, and after the answers.
OrPositions(p) ==
   {Made(p, m) : m \in {c \in Check(p, TRUE) : p.checkers # {} => MoveIsPseudoLegal(p, c)}}
AndPositions(p) ==
   {Made(p, m) : m \in {a \in Evasion(p, p.turn, FALSE) :
                          PseudoLegalMoveIsLegal(p, a, PinnedBB(p))}}

\* An answer that does not give check itself and leaves the attacker a mate in one.
AnswerFails(q) == q.checkers = {} /\ MateMoveIn1Ply(q) # {}

(* Fault: one answer that is mated is enough.                               *)
SomeAnswerFails(answers) == \E q \in answers : AnswerFails(q)

AllAnswersFail(answers) == \A q \in answers : AnswerFails(q)

MateMoveIn3Ply(p, plies) ==
   /\ plies >= 2
   /\ \E q \in OrPositions(p) :
         /\ IsDraw(q) # "Win"
         /\ \E answers \in {AndPositions(q)} :
               answers = {} \/ (plies >= 4 /\ AllAnswersFail(answers))

(***************************************************************************)
(* The searches of the other depths, for the depth the programs are built  *)
(* with: the odd ones are the attacker's, the even ones the defender's.    *)
(***************************************************************************)
MateMoveIn4Ply(p, plies) ==
   \A q \in AndPositions(p) : \E verdict \in {IsDraw(q)} :
      \/ verdict = "Win"
      \/ verdict \in {"Not", "Superior"} /\ MateMoveIn3Ply(q, plies - 1)
MateMoveIn5Ply(p, plies) ==
   plies >= 2 /\ \E q \in OrPositions(p) : \E verdict \in {IsDraw(q)} :
      \/ verdict = "Lose"
      \/ verdict \in {"Not", "Inferior"} /\ MateMoveIn4Ply(q, plies - 1)

(***************************************************************************)
(* The rules.                                                              *)
(***************************************************************************)
\* The side to move after the games gs, gives telling which moves gave check, can
\* mate by giving check with every move and not for ever: with the next move, or
\* whatever is answered if Then holds after every answer.
ForcesBy(Then(_, _), gs, gives) ==
   \E now \in {gs[Len(gs)]} : \E m \in LegalMoves(now) : \E g \in {Played(now, m)} :
      /\ Checkers(g.board, g.turn) # {}
      /\ \E seq \in {Append(gs, g)}, checks \in {Append(gives, TRUE)} :
         \E verdict \in {Repetition(seq, checks, CheckMaxPly)} :
            \/ verdict = "Lose"
            \/ verdict # "Win" /\ \A a \in LegalMoves(g) : \E h \in {Played(g, a)} :
                  \E seq2 \in {Append(seq, h)},
                     checks2 \in {Append(checks, Checkers(h.board, h.turn) # {})} : Then(seq2, checks2)
Never(gs, gives) == FALSE
Forces1(gs, gives) == ForcesBy(Never, gs, gives)
Forces3(gs, gives) == ForcesBy(Forces1, gs, gives)
Forces5(gs, gives) == ForcesBy(Forces3, gs, gives)

Gives(gs) == [i \in 1 .. Len(gs) |-> IF i = 1 THEN FALSE ELSE IsCheck(gs[i - 1], line[i - 1])]

\* A mate that mateMoveIn1Ply, mateMoveIn3Ply or mateMoveInOddPly<5> claims is forced
\* by the rules, in the plies that are left before the game is a draw: the checks
\* that cannot be made, the answers the generators leave out (promotions declined),
\* the mates by a pawn drop and the perpetual checks are the rules'.
MatesAreForced ==
   /\ Top.checkersBB = {} =>
         LET g == Current
             legal == LegalMoves(g)
         IN  \A m \in MateMoveIn1Ply(Pos) : m \in legal /\ IsMate(Played(g, m))
   /\ start \in Searched =>
         \E gs \in {Game}, p \in {Pos} : \E gives \in {Gives(gs)} :
            \A plies \in {2, 4, 6} : MateMoveIn5Ply(p, plies) =>
               \/ Forces1(gs, gives)
               \/ plies >= 4 /\ Forces3(gs, gives)
               \/ plies >= 6 /\ Forces5(gs, gives)
=============================================================================
