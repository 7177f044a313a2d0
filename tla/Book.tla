-------------------------------- MODULE Book --------------------------------
(***************************************************************************)
(* Opening books: the file of entries that book.cpp searches and the three *)
(* ways it picks a move, the book it makes of game records, and the tool   *)
(* that merges two books.                                                  *)
(*                                                                         *)
(* A position is its book key, a number; a game is the sequence of the     *)
(* positions it went through.  A file is the sequence of its entries       *)
(* [key, move, count, score], the positions in the order of their keys.    *)
(***************************************************************************)
EXTENDS Integers, Sequences, SequencesExt, FiniteSetsExt, Functions

CONSTANTS
  Turn,          \* the color to move of each position
  After,         \* After[key][move], the position a legal move leads to
  Checks,        \* the positions in which the side to move is in check
  MaxEvaluate, Infinite,
  MaxCount,      \* the largest count an entry has room for
  DrawScore,     \* what a draw is worth to each color, from Draw_Value and Eval_Coef
  MinBookScore   \* Min_Book_Score

ScoreNone == Infinite + 1
NoMove == "none"
The(S) == CHOOSE x \in S : TRUE   \* the element of a singleton
Opp(c) == IF c = "Black" THEN "White" ELSE "Black"
Entry(key, move, count, score) == [key |-> key, move |-> move, count |-> count, score |-> score]

(***************************************************************************)
(* Repetition, as Position::moveIsDraw and Position::isDraw see it.        *)
(***************************************************************************)
\* continuousCheck: twice the number of checks c gave in its last moves.
ContinuousCheck(game, c) ==
   LET own == {n \in 2 .. Len(game) : Turn[game[n]] # c}
       quiet == Max({n \in own : game[n] \notin Checks} \cup {1})
   IN  2 * Cardinality({n \in own : n > quiet})

\* A position i plies back that is the one after the move.
Back(game, key, last) == {i \in 4 .. last : i % 2 = 0 /\ game[Len(game) + 1 - i] = key}

\* The verdicts are those on the opponent: a mover who gave check all the time loses,
\* and its opponent has the win.
Verdict(game, last, back, who) ==
   IF back = {} THEN "Not"
   ELSE IF Min(back) <= ContinuousCheck(game, who) THEN last[1]
   ELSE IF Min(back) <= ContinuousCheck(game, Opp(who)) THEN last[2]
   ELSE "Draw"

MoveIsDraw(game, move) ==
   Verdict(game, <<"Win", "Lose">>, Back(game, After[Last(game)][move], Len(game)), Turn[Last(game)])

IsDraw(game) ==
   Verdict(game, <<"Lose", "Win">>, Back(Front(game), Last(game), Len(game) - 1), Turn[Last(game)])

(***************************************************************************)
(* The file.                                                               *)
(***************************************************************************)
\* Where reading starts, in entries; size_ - 1 is the last place looked at.
BinarySearch(file, key) ==
   LET at[r \in (0 .. Len(file)) \X (0 .. Len(file))] ==
          LET mid == (r[1] + r[2]) \div 2 IN
          IF r[1] >= r[2] THEN r[1]
          ELSE IF key <= file[mid + 1].key THEN at[<<r[1], mid>>]
          ELSE at[<<mid + 1, r[2]>>]
   IN  at[<<0, Len(file) - 1>>]

\* The entries of a position, and where the stream stands after them: behind the entry
\* that is not one of them, or at the end of the file.  An empty file cannot be read.
Block(file, key) ==
   IF file = <<>> THEN [entries |-> <<>>, tell |-> 0]
   ELSE LET s == BinarySearch(file, key)
            end == Min({n \in s .. Len(file) - 1 : file[n + 1].key # key} \cup {Len(file)})
        IN  [entries |-> SubSeq(file, s + 1, end), tell |-> Min({Len(file), end + 1})]

(***************************************************************************)
(* Probing.                                                                *)
(***************************************************************************)
\* The moves that are chosen by their counts, as far as chance allows: each entry replaces
\* the one before with the share of its count in those read so far; or the last of those
\* that were counted most so far.
Probe(file, game, pickBest) ==
   LET entries == Block(file, Last(game)).entries
       Sum(n) == FoldLeft(LAMBDA x, e : x + e.count, 0, SubSeq(entries, 1, n))
       Most(n) == \A m \in 1 .. n : entries[m].count <= entries[n].count
       able == {n \in 1 .. Len(entries) : MinBookScore <= entries[n].score}
       sure == {n \in able : IF pickBest THEN Most(n) ELSE 0 < Sum(n) /\ Sum(n) = entries[n].count}
       may == {n \in able : IF pickBest THEN Most(n) ELSE entries[n].count > 0}
       last == Max(sure \cup {0})
   IN  {[move |-> entries[n].move, score |-> entries[n].score] : n \in {m \in may : last <= m}}
       \cup IF sure = {} THEN {[move |-> NoMove, score |-> 0]} ELSE {}

\* What repetition makes of the score of an entry, trusted being the least one so far.
Overwritten(game, move, trusted) ==
   [Draw |-> DrawScore[Turn[Last(game)]], Win |-> -Infinite, Lose |-> MaxEvaluate,
    Not |-> trusted][MoveIsDraw(game, move)]

\* The least score up to an entry: those counted less are not trusted.
Trusted(entries, n) == Min({entries[m].score : m \in 1 .. n})

\* The first of the largest scores above -Infinite, given the score of each entry.
FirstBest(entries, scores) ==
   LET most == {n \in DOMAIN scores : scores[n] > -Infinite /\ \A m \in DOMAIN scores : scores[m] <= scores[n]}
   IN  IF most = {} THEN [move |-> NoMove, score |-> 0]
       ELSE [move |-> entries[Min(most)].move, score |-> scores[Min(most)]]

ProbeConsideringDraw(file, game) ==
   The({FirstBest(entries, [n \in DOMAIN entries |->
                              Overwritten(game, entries[n].move, Trusted(entries, n))]) :
           entries \in {Block(file, Last(game)).entries}})

\* The score of the n-th entry, reply being what the position after it is worth.
ScoreWith(game, entries, n, reply) ==
   IF reply = ScoreNone THEN Overwritten(game, entries[n].move, Trusted(entries, n)) ELSE -reply

(* Fault: the window is handed down as it is, not turned round.             *)
MinMaxUnturned(file, top) ==
   LET value[x \in Seq(DOMAIN Turn) \X (-Infinite .. Infinite) \X (-Infinite .. Infinite) \X Nat] ==
          LET Reply(move, s) ==
                 IF MoveIsDraw(x[1], move) = "Not" /\ x[4] > 0
                   THEN value[<<Append(x[1], After[Last(x[1])][move]), s.score, x[3], x[4] - 1>>]
                   ELSE [score |-> ScoreNone, tell |-> s.tell]
              Step(entries, n, s, reply) ==
                 [score |-> Max({s.score, ScoreWith(x[1], entries, n, reply.score)}), tell |-> reply.tell]
              Loop(block) ==
                 LET after[n \in 0 .. Len(block.entries)] ==
                        IF n = 0 THEN [score |-> x[2], tell |-> block.tell]
                        ELSE The({IF n > 1 /\ (s.score >= x[3] \/ s.tell = Len(file)) THEN s
                                  ELSE The({Step(block.entries, n, s, reply) :
                                               reply \in {Reply(block.entries[n].move, s)}}) :
                                    s \in {after[n - 1]}})
                 IN  IF block.entries = <<>> THEN [score |-> ScoreNone, tell |-> block.tell]
                     ELSE after[Len(block.entries)]
          IN  The({Loop(block) : block \in {Block(file, Last(x[1]))}})
   IN  value[top]

\* getMinMaxBookScore of <<game, alpha, beta, depth>>.  The loop over the entries also ends
\* where the stream, which the probes below share, stands at the end of the file.
MinMaxBookScore(file, top) ==
   LET value[x \in Seq(DOMAIN Turn) \X (-Infinite .. Infinite) \X (-Infinite .. Infinite) \X Nat] ==
          LET Reply(move, s) ==
                 IF MoveIsDraw(x[1], move) = "Not" /\ x[4] > 0
                   THEN value[<<Append(x[1], After[Last(x[1])][move]), -x[3], -s.score, x[4] - 1>>]
                   ELSE [score |-> ScoreNone, tell |-> s.tell]
              Step(entries, n, s, reply) ==
                 [score |-> Max({s.score, ScoreWith(x[1], entries, n, reply.score)}), tell |-> reply.tell]
              Loop(block) ==
                 LET after[n \in 0 .. Len(block.entries)] ==
                        IF n = 0 THEN [score |-> x[2], tell |-> block.tell]
                        ELSE The({IF n > 1 /\ (s.score >= x[3] \/ s.tell = Len(file)) THEN s
                                  ELSE The({Step(block.entries, n, s, reply) :
                                               reply \in {Reply(block.entries[n].move, s)}}) :
                                    s \in {after[n - 1]}})
                 IN  IF block.entries = <<>> THEN [score |-> ScoreNone, tell |-> block.tell]
                     ELSE after[Len(block.entries)]
          IN  The({Loop(block) : block \in {Block(file, Last(x[1]))}})
   IN  value[top]

\* Each entry of the position is searched for more than the best score so far.
ProbeConsideringDrawDepth(file, game, depth) ==
   LET Reply(move, alpha) ==
          IF MoveIsDraw(game, move) = "Not"
            THEN MinMaxBookScore(file, <<Append(game, After[Last(game)][move]), -Infinite, -alpha,
                                         depth - 1>>).score
            ELSE ScoreNone
       Scores(entries) ==
          LET upto[n \in 0 .. Len(entries)] ==
                 IF n = 0 THEN <<>>
                 ELSE The({Append(scores, ScoreWith(game, entries, n,
                                             Reply(entries[n].move, Max(Range(scores) \cup {-Infinite})))) :
                              scores \in {upto[n - 1]}})
          IN  upto[Len(entries)]
   IN  The({FirstBest(entries, scores) :
              entries \in {Block(file, Last(game)).entries}, scores \in {Scores(Block(file, Last(game)).entries)}})

\* The move goUct takes from the book, by its options; none if the book has none.
BookMoves(file, game, options) ==
   IF ~options.draw THEN Probe(file, game, options.best)
   ELSE IF options.depth > 0 THEN {ProbeConsideringDrawDepth(file, game, options.depth)}
   ELSE {ProbeConsideringDraw(file, game)}

(***************************************************************************)
(* Making books.  A map is a function from keys to sequences of entries.   *)
(***************************************************************************)
Grouped(file) == [key \in {file[n].key : n \in DOMAIN file} |->
                     SelectSeq(file, LAMBDA e : e.key = key)]
Flat(map) == FlattenSeq([n \in 1 .. Cardinality(DOMAIN map) |->
                            map[SetToSortSeq(DOMAIN map, LAMBDA a, b : a < b)[n]]])
Put(map, key, entries) == (key :> entries) @@ map
Of(map, key) == IF key \in DOMAIN map THEN map[key] ELSE <<>>

(* Fault: the count of a move goes around at its limit.                     *)
CountedAround(entries, key, move) ==
   IF \E n \in DOMAIN entries : entries[n].move = move
     THEN [n \in DOMAIN entries |->
             IF entries[n].move = move
               THEN [entries[n] EXCEPT !.count = (@ + 1) % (MaxCount + 1)]
               ELSE entries[n]]
     ELSE Append(entries, Entry(key, move, 1, 0))

\* Once more the move among the entries of a position; a count that went around is put back.
Counted(entries, key, move) ==
   LET Up(count) == IF (count + 1) % (MaxCount + 1) < 1 THEN count ELSE count + 1
   IN  IF \E n \in DOMAIN entries : entries[n].move = move
         THEN [n \in DOMAIN entries |->
                 IF entries[n].move = move THEN [entries[n] EXCEPT !.count = Up(@)] ELSE entries[n]]
         ELSE Append(entries, Entry(key, move, 1, 0))

\* The moves of a record up to the first one that is not legal, counted when the winner made them.
OfRecord(map, record, start) ==
   LET Step(s, move) ==
          IF s.illegal \/ move \notin DOMAIN After[s.key] THEN [s EXCEPT !.illegal = TRUE]
          ELSE [illegal |-> FALSE, key |-> After[s.key][move],
                map |-> IF Turn[s.key] # record.winner THEN s.map
                        ELSE Put(s.map, s.key, Counted(Of(s.map, s.key), s.key, move))]
   IN  FoldLeft(Step, [illegal |-> FALSE, key |-> start, map |-> map], record.moves).map

\* makeBook of book.cpp: the moves of the winners, the most frequent first.
BookOfRecords(records, start) ==
   LET map == FoldLeft(LAMBDA m, r : OfRecord(m, r, start), <<>>, records)
   IN  Flat([key \in DOMAIN map |-> SortSeq(map[key], LAMBDA a, b : a.count > b.count)])

\* A truncated quotient.
Trunc(n, d) == IF n < 0 THEN -((-n) \div d) ELSE n \div d

\* The entries of a position that both books have: the counts of each scaled to its share
\* of the sum, in parts of share.of.
Mixed(one, two, share) ==
   LET Total(entries) == FoldLeft(LAMBDA x, e : x + e.count, 0, entries)
       sum == Min({Total(one) + Total(two), MaxCount})
       Part(e, entries, parts) == (e.count * parts * sum) \div (Total(entries) * share.of)
       rest == share.of - share.two
       kept == [n \in DOMAIN one |-> [one[n] EXCEPT !.count = Part(one[n], one, rest)]]
       Add(s, e) ==
          IF \E n \in DOMAIN s : s[n].move = e.move
            THEN [n \in DOMAIN s |->
                    IF s[n].move # e.move THEN s[n]
                    ELSE [s[n] EXCEPT !.count = @ + Part(e, two, share.two),
                                      !.score = Trunc(@ * rest + e.score * share.two, share.of)]]
            ELSE Append(s, [e EXCEPT !.count = Part(e, two, share.two)])
   IN  FoldLeft(Add, kept, two)

\* merge_book.py: positions of either book; without a share the second book goes first.
MergedBooks(one, two, share) ==
   LET a == Grouped(one)
       b == Grouped(two)
   IN  Flat([key \in DOMAIN a \cup DOMAIN b |->
               IF key \notin DOMAIN b THEN a[key]
               ELSE IF key \notin DOMAIN a \/ share.two = 0 THEN b[key]
               ELSE Mixed(a[key], b[key], share)])
=============================================================================
