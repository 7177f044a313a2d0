----------------------------- MODULE BookMaker -----------------------------
(***************************************************************************)
(* A book and its use: makeBook of book.cpp turns game records into a      *)
(* book, merge_book.py mixes two, the command make_book of main.cpp walks  *)
(* from the start position, one walk for each color in turn, and searches  *)
(* the first position of that color that it does not know yet, and goUct   *)
(* plays from the file that was saved.                                     *)
(*                                                                         *)
(* make_book_inner calls itself for the next position of the walk: one     *)
(* action is one call.                                                     *)
(***************************************************************************)
EXTENDS Book

CONSTANTS
  StartKey,
  Records,        \* the collections of game records a book is made of
  OtherBooks,     \* the books it may be mixed with
  Shares,         \* the shares of the other book, [two, of]
  MergeFiles,     \* what another process writes into the file of Book_Merge_File
  Searched,       \* Searched[key], the outcomes of its search: children in the order of
                  \* their visits, [move, visits, rate]; none if the position is mate
  ScoreOf,        \* ScoreOf[rate], the score of a winning rate in thousandths
  VisitThreshold, \* Book_Visit_Threshold, in thousandths
  Cutoff,         \* Book_Cutoff, in thousandths
  EvalThreshold,  \* Book_Eval_Threshold
  Interval,       \* Save_Book_Interval
  TrialLimit,     \* limitTrialNum
  Options,        \* the options of goUct: [draw, depth, best]
  MaxPlies,       \* bound: the length of the games played from the book
  MaxCrashes,     \* bound: how often make_book dies
  Cuts            \* bound: how many entries of a file such a crash may leave

VARIABLES
  book,      \* the file of game books, and
  out,       \* the file make_book adds to; <<>> also stands for a file that is not there
  merge,     \* the file of Book_Merge_File
  fresh,     \* stat shows another time of it than at the last merge
  pc,        \* what goes on
  color,     \* the color of the walk, or of the engine in a game
  trial,
  outMap,
  prevNum,
  game,      \* the positions of the walk or of the game
  made,      \* what make_book searched since it started, and
  saved,     \* what files that were written to their end had, kept for the properties
  crashes,
  options    \* of goUct, in a game

file == <<book, out, merge>>
maker == <<trial, outMap, prevNum, made, saved>>
vars == <<book, out, merge, fresh, pc, color, trial, outMap, prevNum, game, made, saved, crashes,
          options>>

Here == Last(game)
Colors == {"Black", "White"}

Init ==
   /\ book = <<>>
   /\ out = <<>>
   /\ merge = <<>>
   /\ fresh = FALSE
   /\ pc = "idle"
   /\ color = "Black"
   /\ trial = 0
   /\ outMap = <<>>
   /\ prevNum = 0
   /\ game = <<StartKey>>
   /\ made = <<>>
   /\ saved = <<>>
   /\ crashes = 0
   /\ options = <<>>

(***************************************************************************)
(* The tools.                                                              *)
(***************************************************************************)
MakeBook ==
   /\ pc = "idle" /\ book = <<>>
   /\ \E records \in Records : book' = BookOfRecords(records, StartKey)
   /\ UNCHANGED <<out, merge, fresh, pc, color, maker, game, crashes, options>>

MixBooks ==
   /\ pc = "idle" /\ book # <<>> /\ out = <<>>
   /\ \E other \in OtherBooks, share \in Shares : out' = MergedBooks(book, other, share)
   /\ saved' = Grouped(out')
   /\ UNCHANGED <<book, merge, fresh, pc, color, trial, outMap, prevNum, game, made, crashes, options>>

\* Another process writes the file that is merged.
WriteMergeFile ==
   /\ pc \in {"idle", "walk"} /\ merge = <<>>
   /\ merge' \in MergeFiles
   /\ fresh' = TRUE
   /\ UNCHANGED <<book, out, pc, color, maker, game, crashes, options>>

(***************************************************************************)
(* make_book.                                                              *)
(***************************************************************************)
\* merge_book: a position the map has is left alone, also one merged before.
WithMerged(map) == IF fresh THEN map @@ Grouped(merge) ELSE map

Start ==
   /\ pc = "idle" /\ book # <<>>
   /\ outMap' = WithMerged(Grouped(out))
   /\ fresh' = FALSE
   /\ prevNum' = Cardinality(DOMAIN outMap')
   /\ trial' = 0
   /\ made' = <<>>
   /\ color' = "Black"
   /\ game' = <<StartKey>>
   /\ pc' = "walk"
   /\ UNCHANGED <<file, saved, crashes, options>>

\* How many of the children become entries.
Width(children) ==
   LET visits == FoldLeft(LAMBDA x, c : x + c.visits, 0, children)
       Bad(n) == \/ children[n].visits * 1000 <= VisitThreshold * visits
                 \/ children[n].rate < children[1].rate - Cutoff
       num == Min({n - 1 : n \in {m \in 1 .. Len(children) : Bad(m)}} \cup {Len(children)})
   IN  IF num = 0 THEN (Len(children) + 2) \div 3 ELSE num

\* make_book_entry_with_uct.
EntriesOf(key, children) ==
   LET visits == FoldLeft(LAMBDA x, c : x + c.visits, 0, children)
   IN  [n \in 1 .. Width(children) |->
          Entry(key, children[n].move, (children[n].visits * 1000) \div visits, ScoreOf[children[n].rate])]

SearchHere(children) ==
   IF children = <<>> THEN UNCHANGED <<outMap, made>>
   ELSE /\ outMap' = Put(outMap, Here, EntriesOf(Here, children))
        /\ made' = Put(made, Here, outMap'[Here])

WalkIsOver ==
   /\ pc' = IF color = "Black" THEN "walk" ELSE "trials"
   /\ color' = Opp(color)
   /\ game' = <<StartKey>>
   /\ trial' = trial + 1

WalkOn(move) ==
   /\ game' = Append(game, After[Here][move])
   /\ UNCHANGED <<pc, color, trial>>

\* A position of the walk's color that is not known: the end of the walk.
Leaf ==
   /\ pc = "walk" /\ Turn[Here] = color /\ Here \notin DOMAIN outMap
   /\ \E children \in Searched[Here] : SearchHere(children)
   /\ WalkIsOver
   /\ UNCHANGED <<file, fresh, prevNum, saved, crashes, options>>

(* Fault: takes a move that repeats back and does not return.               *)
KnownAgain ==
   /\ pc = "walk" /\ Turn[Here] = color /\ Here \in DOMAIN outMap
   /\ LET best == outMap[Here][1] IN
      IF Max({best.score, -best.score}) > EvalThreshold THEN WalkIsOver
      ELSE IF IsDraw(Append(game, After[Here][best.move])) = "Draw"
        THEN UNCHANGED <<game, pc, color, trial>>
        ELSE WalkOn(best.move)
   /\ UNCHANGED <<file, fresh, outMap, prevNum, made, saved, crashes, options>>

\* A known position: the best move, unless its score is too large or it repeats.
Known ==
   /\ pc = "walk" /\ Turn[Here] = color /\ Here \in DOMAIN outMap
   /\ LET best == outMap[Here][1] IN
      IF \/ Max({best.score, -best.score}) > EvalThreshold
         \/ IsDraw(Append(game, After[Here][best.move])) = "Draw"
        THEN WalkIsOver
        ELSE WalkOn(best.move)
   /\ UNCHANGED <<file, fresh, outMap, prevNum, made, saved, crashes, options>>

\* The other color: the game book, else what was searched, else a search.
Other ==
   /\ pc = "walk" /\ Turn[Here] # color
   /\ LET known == IF Here \in DOMAIN Grouped(book) THEN Grouped(book)[Here] ELSE Of(outMap, Here)
          Chosen(entries) == \E n \in DOMAIN entries : entries[n].count > 0 /\ WalkOn(entries[n].move)
      IN  IF known # <<>> THEN Chosen(known) /\ UNCHANGED <<outMap, made>>
          ELSE \E children \in Searched[Here] :
                  /\ SearchHere(children)
                  /\ IF children = <<>> THEN WalkIsOver ELSE Chosen(EntriesOf(Here, children))
   /\ UNCHANGED <<file, fresh, prevNum, saved, crashes, options>>

(* Fault: the last trials are saved only at the interval.                   *)
TrialsUnsaved ==
   /\ pc = "trials"
   /\ IF Cardinality(DOMAIN outMap) > prevNum /\ trial % Interval = 0
        THEN /\ outMap' = WithMerged(outMap)
             /\ fresh' = FALSE
             /\ prevNum' = Cardinality(DOMAIN outMap')
             /\ out' = <<>>
             /\ pc' = "writing"
        ELSE /\ pc' = IF trial < TrialLimit THEN "walk" ELSE "made"
             /\ UNCHANGED <<outMap, fresh, prevNum, out>>
   /\ UNCHANGED <<book, merge, color, trial, game, made, saved, crashes, options>>

\* After a walk of each color: save what is new, opening the file cuts it to nothing.
Trials ==
   /\ pc = "trials"
   /\ IF Cardinality(DOMAIN outMap) > prevNum /\ (trial % Interval = 0 \/ trial >= TrialLimit)
        THEN /\ outMap' = WithMerged(outMap)
             /\ fresh' = FALSE
             /\ prevNum' = Cardinality(DOMAIN outMap')
             /\ out' = <<>>
             /\ pc' = "writing"
        ELSE /\ pc' = IF trial < TrialLimit THEN "walk" ELSE "made"
             /\ UNCHANGED <<outMap, fresh, prevNum, out>>
   /\ UNCHANGED <<book, merge, color, trial, game, made, saved, crashes, options>>

Write ==
   /\ pc = "writing"
   /\ out' = Flat(outMap)
   /\ saved' = saved @@ outMap
   /\ pc' = IF trial < TrialLimit THEN "walk" ELSE "made"
   /\ UNCHANGED <<book, merge, fresh, color, trial, outMap, prevNum, game, made, crashes, options>>

\* The process dies and forgets the time of the merge file.  What it was writing is cut
\* off anywhere; half an entry is not read again.
Crash ==
   /\ pc \in {"walk", "trials", "writing"} /\ crashes < MaxCrashes
   /\ IF pc = "writing"
        THEN /\ \E n \in Cuts \cap 0 .. Len(Flat(outMap)) : out' = SubSeq(Flat(outMap), 1, n)
             /\ saved' = Grouped(out')
        ELSE UNCHANGED <<out, saved>>
   /\ crashes' = crashes + 1
   /\ fresh' = (merge # <<>>)
   /\ color' = "Black" /\ trial' = 0 /\ outMap' = <<>> /\ prevNum' = 0 /\ made' = <<>>
   /\ game' = <<StartKey>>
   /\ pc' = "idle"
   /\ UNCHANGED <<book, merge, options>>

(***************************************************************************)
(* Games from the book.                                                    *)
(***************************************************************************)
\* An engine that has the file only; make_book is over.
NewGame ==
   /\ pc = "made"
   /\ pc' = "play"
   /\ color' \in Colors
   /\ options' \in Options
   /\ game' = <<StartKey>>
   /\ trial' = 0 /\ outMap' = <<>> /\ prevNum' = 0 /\ made' = <<>>
   /\ UNCHANGED <<file, fresh, saved, crashes>>

Playing(move) == game' = Append(game, After[Here][move])

\* goUct: the move of the book, or one that the search finds.
Go ==
   /\ pc = "play" /\ Turn[Here] = color /\ Len(game) < MaxPlies
   /\ \E found \in BookMoves(out, game, options) :
         IF found.move # NoMove THEN Playing(found.move)
         ELSE \E move \in DOMAIN After[Here] : Playing(move)
   /\ UNCHANGED <<file, fresh, pc, color, maker, crashes, options>>

Opponent ==
   /\ pc = "play" /\ Turn[Here] # color /\ Len(game) < MaxPlies
   /\ \E move \in DOMAIN After[Here] : Playing(move)
   /\ UNCHANGED <<file, fresh, pc, color, maker, crashes, options>>

MakerStep == Leaf \/ Known \/ Other \/ Trials \/ Write

Next ==
   \/ MakeBook \/ MixBooks \/ WriteMergeFile
   \/ Start \/ MakerStep \/ Crash
   \/ NewGame \/ Go \/ Opponent

Spec == Init /\ [][Next]_vars

\* The command runs to its end.
FairSpec == Spec /\ WF_vars(MakerStep)

(***************************************************************************)
(* Properties.                                                             *)
(***************************************************************************)
Entries(f, key) == SelectSeq(f, LAMBDA e : e.key = key)
Keys(f) == {f[n].key : n \in DOMAIN f}
MovesOf(f, key) == {e.move : e \in Range(Entries(f, key))}

\* The positions of a record, as long as its moves are legal.
PathOf(record) ==
   LET at[n \in 1 .. Len(record.moves) + 1] ==
          IF n = 1 THEN StartKey
          ELSE IF at[n - 1] \in DOMAIN After /\ record.moves[n - 1] \in DOMAIN After[at[n - 1]]
            THEN After[at[n - 1]][record.moves[n - 1]]
            ELSE -1
   IN  at
Times(records, key, move) ==
   Cardinality({p \in (DOMAIN records) \X (1 .. MaxPlies * 2) :
      LET r == records[p[1]] IN
      /\ p[2] <= Len(r.moves) /\ PathOf(r)[p[2]] = key /\ PathOf(r)[p[2] + 1] # -1
      /\ r.moves[p[2]] = move /\ Turn[key] = r.winner})

BookIsOfGames ==
   pc # "idle" \/ book = <<>> \/
   \E records \in Records : \A key \in DOMAIN Turn :
      LET entries == Entries(book, key) IN
      /\ \A move \in DOMAIN After[key] :
            Times(records, key, move) > 0 <=> move \in MovesOf(book, key)
      /\ \A n \in DOMAIN entries :
            /\ entries[n].count = Min({MaxCount, Times(records, key, entries[n].move)})
            /\ n > 1 => entries[n - 1].count >= entries[n].count

MixHasBoth ==
   pc = "idle" /\ crashes = 0 /\ out # <<>> =>
   \E other \in OtherBooks, share \in Shares : \A key \in DOMAIN Turn :
      /\ MovesOf(out, key) =
            MovesOf(other, key) \cup
            IF share.two = 0 /\ key \in Keys(other) THEN {} ELSE MovesOf(book, key)
      /\ key \in Keys(book) /\ key \in Keys(other) /\ share.two > 0 =>
            FoldLeft(LAMBDA x, e : x + e.count, 0, Entries(out, key)) <= MaxCount

\* The book made of game records has, of every position, the moves by which the winners
\* went on and no others, each with the number of times it was played, or the largest
\* count there is room for, the most frequent first (book.cpp:421-540).  What merge_book.py
\* makes of two books has the moves of both, or of positions in both those of the second
\* book where it has no share, and no position's counts exceed together what one entry has
\* room for (merge_book.py:45-74, with its assertion).
BooksAreOfGames == BookIsOfGames /\ MixHasBoth

\* What was once saved stays in the file, with the same entries, through every later save,
\* merge, crash and start; and when the command is done, each position it searched is in
\* the file with what the search found (main.cpp:843-869, 920-991).  A crash while the file
\* is written is the exception: opening it cut it to nothing (:986), so that all but a
\* beginning of what was written is lost, also what earlier saves had, and a position may
\* keep some of its entries only.  That beginning then counts as what was saved.
SavedIsKept ==
   /\ pc # "writing" => \A key \in DOMAIN saved : Entries(out, key) = saved[key]
   /\ pc = "made" => \A key \in DOMAIN made : Entries(out, key) = made[key]

\* Plain minimax over the entries of the file, which the probes with a depth stand for.
Minimax(line, depth) ==
   LET value[x \in Seq(DOMAIN Turn) \X Nat] ==
          LET entries == Entries(out, Last(x[1]))
              Score(n) ==
                 LET key == After[Last(x[1])][entries[n].move]
                     reply == IF MoveIsDraw(x[1], entries[n].move) = "Not" /\ x[2] > 0
                                THEN value[<<Append(x[1], key), x[2] - 1>>] ELSE ScoreNone
                 IN  IF reply # ScoreNone THEN -reply
                     ELSE Overwritten(x[1], entries[n].move,
                                      Min({entries[m].score : m \in 1 .. n}))
          IN  IF entries = <<>> THEN ScoreNone ELSE Max({Score(n) : n \in DOMAIN entries})
   IN  value[<<line, depth>>]

ProbeIsMinimax ==
   LET last == out[Len(out)].key IN
   pc = "play" /\ Turn[Here] = color /\ After[Here] # <<>>
      /\ out # <<>> /\ Len(Entries(out, last)) > 1 /\ (\A key \in DOMAIN Turn : DOMAIN After[key] # {} => key <= last) =>
   \A depth \in 1 .. 3 :
      LET found == ProbeConsideringDrawDepth(out, game, depth)
          best == Minimax(game, depth) IN
      IF best \in {ScoreNone, -Infinite} THEN found.move = NoMove
      ELSE found.score = best /\ found.move \in MovesOf(out, Here)

ProbeSeesAll ==
   pc = "play" /\ Turn[Here] = color =>
   /\ \A key \in DOMAIN Turn : Block(out, key).entries = Entries(out, key)
   /\ LET entries == Entries(out, Here)
          Most(e) == \A f \in Range(entries) : f.count <= e.count IN
      entries # <<>> /\ (\A e \in Range(entries) : Most(e) => e.score >= MinBookScore) =>
         \A found \in Probe(out, game, TRUE) :
            \E e \in Range(entries) : Most(e) /\ found.move = e.move

\* A probe sees the entries of its position, all of them and in their order, and with
\* Best_Book_Move gives a most frequent one if its score is large enough.  With a depth, the
\* move is one whose replies, replies to these and so on leave most, repetition counted as
\* it is, and none only if each move loses by repetition: as if every line of the book were
\* looked at, in spite of its windows (book.cpp:67-402).  This holds for files that end with
\* two entries of a position that is not met; otherwise the loop over the entries may end
\* early, where another probe left the stream at the end of the file (book.cpp:319).
ProbesAreSound == ProbeSeesAll /\ ProbeIsMinimax

\* make_book comes to its end: every walk does, though positions come again
\* (main.cpp:748-992).
MakingEnds == (pc = "walk") ~> (pc \in {"made", "idle"})
=============================================================================
