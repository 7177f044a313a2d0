----------------------------- MODULE Notation ------------------------------
(***************************************************************************)
(* How positions and moves leave the program and come back: the 256 bits   *)
(* of a HuffmanCodedPos, SFEN texts, USI and CSA moves, the 16 bits of a   *)
(* move in records and books, and what the network is shown: the planes of *)
(* features and the label of a move.  A text is the sequence of its        *)
(* characters; a square in a move's text is a square.                      *)
(***************************************************************************)
EXTENDS Position
LOCAL INSTANCE TLC
SX == INSTANCE SequencesExt

Sole(S) == CHOOSE x \in S : TRUE   \* the element of a singleton
ColorNumber == [Black |-> 0, White |-> 1]
HandOrder == <<"Pawn", "Lance", "Knight", "Silver", "Gold", "Bishop", "Rook">>

(***************************************************************************)
(* BitStream and HuffmanCodedPos: bits are written lowest first.           *)
(***************************************************************************)
DataBits == 256
Bits(n, count) == [i \in 1 .. count |-> (n \div 2^(i - 1)) % 2]
ValueOf(bits) == LET v[i \in 0 .. Len(bits)] == IF i = 0 THEN 0 ELSE v[i - 1] + bits[i] * 2^(i - 1)
                 IN  v[Len(bits)]

\* A piece is coded by its kind, its color and, but for gold, whether it is promoted.
BoardPattern == [Pawn |-> <<1, 0>>, Lance |-> <<1, 1, 0, 0>>, Knight |-> <<1, 1, 1, 0>>,
                 Silver |-> <<1, 1, 0, 1>>, Gold |-> <<1, 1, 1, 1, 0>>,
                 Bishop |-> <<1, 1, 1, 1, 1, 0>>, Rook |-> <<1, 1, 1, 1, 1, 1>>]
BoardCode ==
   [x \in Colors \X (PieceTypes \ {"King"}) |->
      BoardPattern[HandOf(x[2])] \o <<ColorNumber[x[1]]>>
        \o (IF x[2] = "Gold" THEN <<>> ELSE <<IF x[2] \in HandTypes THEN 0 ELSE 1>>)]
EmptyCode == <<0>>

\* In the hand a piece is one bit shorter: the square it left takes that bit.
HandPattern == [Pawn |-> <<0, 0>>, Lance |-> <<1, 0, 0, 0>>, Knight |-> <<1, 1, 0, 0>>,
                Silver |-> <<1, 0, 1, 0>>, Gold |-> <<1, 1, 1, 0>>,
                Bishop |-> <<1, 1, 1, 1, 1, 0>>, Rook |-> <<1, 1, 1, 1, 1, 1>>]
HandCode == [x \in Colors \X HandTypes |-> HandPattern[x[2]] \o <<ColorNumber[x[1]]>>]

\* boardCodeToPieceHash and handCodeToPieceHash: the pieces of each code.
PieceOfCode(codes) == [w \in {codes[x] : x \in DOMAIN codes} |->
                         CHOOSE x \in DOMAIN codes : codes[x] = w]
PieceOnBoard == PieceOfCode(BoardCode)
PieceInHand == PieceOfCode(HandCode)
BoardWords == DOMAIN PieceOnBoard \cup {EmptyCode}

ToHuffmanCodedPos(p) ==
   LET square(s) == IF s \notin Occ(p) THEN EmptyCode
                    ELSE IF p.board[s][2] = "King" THEN <<>> ELSE BoardCode[p.board[s]]
       held(c, t) == SX!FlattenSeq([i \in 1 .. p.hand[c][t] |-> HandCode[c, t]])
       inHand(c) == SX!FlattenSeq([i \in 1 .. 7 |-> held(c, HandOrder[i])])
   IN  Bits(ColorNumber[p.turn], 1) \o Bits(p.king["Black"], 7) \o Bits(p.king["White"], 7)
         \o SX!FlattenSeq([i \in 1 .. 81 |-> square(i - 1)]) \o inHand("Black") \o inHand("White")

\* The word that starts at bit at: bits are added until they are a code, nine at most.
WordAt(data, at, words) ==
   LET ends == {n \in at .. at + 8 : n <= DataBits /\ SubSeq(data, at, n) \in words}
   IN  IF ends = {} THEN <<>> ELSE SubSeq(data, at, CHOOSE n \in ends : \A k \in ends : n <= k)
\* n words from bit first on, none for the indexes skipped and after the last bit.
ReadWords(data, first, n, skipped, words) ==
   LET read(g, w) == [at |-> g.at + Len(w), got |-> Append(g.got, w)]
       gs[i \in 0 .. n] ==
          IF i = 0 THEN [at |-> first, got |-> <<>>]
          ELSE Sole({IF i \in skipped \/ g.at > DataBits THEN read(g, <<>>)
                     ELSE Sole({read(g, w) : w \in {WordAt(data, g.at, words)}}) : g \in {gs[i - 1]}})
   IN  gs[n]

\* HuffmanCodedPos::isOK, and set, which gives no position when a word is no code.
KingsOf(data) == [Black |-> ValueOf(SubSeq(data, 2, 8)), White |-> ValueOf(SubSeq(data, 9, 15))]
IsReadable(kings, squares, pieces) ==
   /\ kings["Black"] \in Sq /\ kings["White"] \in Sq
   /\ \A i \in 1 .. 81 : squares.got[i] # <<>> \/ i - 1 \in {kings["Black"], kings["White"]}
   /\ pieces.at = DataBits + 1
Decoded(data, kings, squares, pieces) ==
   LET at(s) == squares.got[s + 1]
       placed == [s \in {q \in Sq : at(q) # EmptyCode} |->
                    IF at(s) # <<>> THEN PieceOnBoard[at(s)]
                    ELSE <<IF s = kings["Black"] THEN "Black" ELSE "White", "King">>]
       held == [c \in Colors |-> [t \in HandTypes |->
                  Cardinality({i \in DOMAIN pieces.got : pieces.got[i] = HandCode[c, t]})]]
   IN  SetUp(placed, held, IF data[1] = 0 THEN "Black" ELSE "White")
SetHuffmanCodedPos(data) ==
   UNION {UNION {{Decoded(data, kings, squares, pieces) :
                    pieces \in {x \in {ReadWords(data, squares.at, 38, {}, DOMAIN PieceInHand)} :
                                  IsReadable(kings, squares, x)}} :
                 squares \in {ReadWords(data, 16, 81, {kings[c] + 1 : c \in Colors}, BoardWords)}} :
          kings \in {KingsOf(data)}}

(***************************************************************************)
(* SFEN.                                                                   *)
(***************************************************************************)
CharToPiece ==
   [P |-> <<"Black", "Pawn">>, L |-> <<"Black", "Lance">>, N |-> <<"Black", "Knight">>,
    S |-> <<"Black", "Silver">>, B |-> <<"Black", "Bishop">>, R |-> <<"Black", "Rook">>,
    G |-> <<"Black", "Gold">>, K |-> <<"Black", "King">>,
    p |-> <<"White", "Pawn">>, l |-> <<"White", "Lance">>, n |-> <<"White", "Knight">>,
    s |-> <<"White", "Silver">>, b |-> <<"White", "Bishop">>, r |-> <<"White", "Rook">>,
    g |-> <<"White", "Gold">>, k |-> <<"White", "King">>]
PieceToChar == PieceOfCode(CharToPiece)
DigitOf == [d \in {ToString(n) : n \in 0 .. 9} |-> CHOOSE n \in 0 .. 9 : ToString(n) = d]
NumberText(n) == IF n < 10 THEN <<ToString(n)>> ELSE <<ToString(n \div 10), ToString(n % 10)>>
PieceText(x) == IF x[2] \in DOMAIN BoardPattern \cup {"King"} THEN <<PieceToChar[x]>>
                ELSE <<"+", PieceToChar[<<x[1], HandOf(x[2])>>]>>

\* A rank from file 9 to file 1: the number of squares left empty before each piece
\* and at the end, and the pieces.
RankText(p, rank) ==
   LET sq(i) == (9 - i) * 9 + rank
       full == {i \in 1 .. 9 : sq(i) \in Occ(p)}
       space(i) == i - 1 - Cardinality({j \in 1 .. i - 1 : \E k \in full : j <= k /\ k < i})
       item(i) == (IF space(i) = 0 \/ i \notin full \cup {10} THEN <<>> ELSE NumberText(space(i)))
                    \o (IF i \in full THEN PieceText(p.board[sq(i)]) ELSE <<>>)
   IN  SX!FlattenSeq([i \in 1 .. 10 |-> item(i)])
HandText(p) ==
   LET order == <<"Rook", "Bishop", "Gold", "Silver", "Knight", "Lance", "Pawn">>
       item(c, t) == CASE p.hand[c][t] = 0 -> <<>>
                       [] p.hand[c][t] = 1 -> PieceText(<<c, t>>)
                       [] p.hand[c][t] > 1 -> NumberText(p.hand[c][t]) \o PieceText(<<c, t>>)
       text(c) == SX!FlattenSeq([i \in 1 .. 7 |-> item(c, order[i])])
   IN  IF \A c \in Colors, t \in HandTypes : p.hand[c][t] = 0 THEN <<"-">>
       ELSE text("Black") \o text("White")
\* The fields of the text; the number of the move is left out.
ToSFEN(p) ==
   [board |-> SX!FlattenSeq([r \in 1 .. 9 |-> RankText(p, r - 1) \o (IF r < 9 THEN <<"/">> ELSE <<>>)]),
    turn |-> IF p.turn = "Black" THEN "b" ELSE "w", hand |-> HandText(p)]

\* set: a character of the board moves the cursor or sets a piece on its square, and
\* a text with another character, or with too many squares, is incorrect.
BoardRead(x, ch) ==
   CASE ch \in DOMAIN DigitOf -> [x EXCEPT !.sq = @ - 9 * DigitOf[ch]]
     [] ch = "/" -> [x EXCEPT !.sq = @ + 82]
     [] ch = "+" -> [x EXCEPT !.promoted = TRUE]
     [] ch \in DOMAIN CharToPiece /\ x.sq \in Sq ->
          [x EXCEPT !.sq = @ - 9, !.promoted = FALSE,
                    !.board = (x.sq :> IF x.promoted
                                         THEN <<CharToPiece[ch][1], Promoted[CharToPiece[ch][2]]>>
                                         ELSE CharToPiece[ch]) @@ @]
     [] OTHER -> [x EXCEPT !.ok = FALSE]
NoneHeld == [c \in Colors |-> [t \in HandTypes |-> 0]]

(* Fault: the count read for one kind of piece is kept for the next.          *)
HandReadKeeping(x, ch) ==
   CASE ch = "-" -> [x EXCEPT !.hand = NoneHeld]
     [] ch \in DOMAIN DigitOf -> [x EXCEPT !.digits = 10 * @ + DigitOf[ch]]
     [] ch \in DOMAIN CharToPiece ->
          [x EXCEPT !.hand[CharToPiece[ch][1]][CharToPiece[ch][2]] = IF x.digits = 0 THEN 1 ELSE x.digits]
     [] OTHER -> [x EXCEPT !.ok = FALSE]

HandRead(x, ch) ==
   CASE ch = "-" -> [x EXCEPT !.hand = NoneHeld]
     [] ch \in DOMAIN DigitOf -> [x EXCEPT !.digits = 10 * @ + DigitOf[ch]]
     [] ch \in DOMAIN CharToPiece ->
          [x EXCEPT !.digits = 0,
                    !.hand[CharToPiece[ch][1]][CharToPiece[ch][2]] = IF x.digits = 0 THEN 1 ELSE x.digits]
     [] OTHER -> [x EXCEPT !.ok = FALSE]
BoardField(text) ==
   LET xs[i \in 0 .. Len(text)] ==
          IF i = 0 THEN [sq |-> 72, promoted |-> FALSE, board |-> <<>>, ok |-> TRUE]
          ELSE Sole({BoardRead(x, text[i]) : x \in {xs[i - 1]}})
   IN  xs[Len(text)]
HandField(text) ==
   LET xs[i \in 0 .. Len(text)] ==
          IF i = 0 THEN [digits |-> 0, hand |-> NoneHeld, ok |-> TRUE]
          ELSE Sole({HandRead(x, text[i]) : x \in {xs[i - 1]}})
   IN  xs[Len(text)]
SetSFEN(text) ==
   {SetUp(x[1].board, x[2].hand, IF text.turn = "b" THEN "Black" ELSE "White") :
      x \in {y \in {<<BoardField(text.board), HandField(text.hand)>>} : y[1].ok /\ y[2].ok}}

(***************************************************************************)
(* Moves: USI and CSA texts, and the 16 bits.                              *)
(***************************************************************************)
ToUSI(m) == [piece |-> IF IsDrop(m) THEN m.pt ELSE "", from |-> m.from, to |-> m.to, plus |-> m.promo]
ToCSA(m) == [from |-> m.from, to |-> m.to, piece |-> PieceTypeTo(m)]

\* A move read is taken if it is pseudo-legal and legal.
Accepted(p, m) == {x \in {m} : MoveIsPseudoLegal(p, x) /\ PseudoLegalMoveIsLegal(p, x, PinnedBB(p))}
UsiToMove(p, t) ==
   Accepted(p, IF t.piece # "" THEN DropMove(t.piece, t.to) ELSE BoardMove(p, t.from, t.to, t.plus))
\* A CSA text names the piece after the move: no move if it cannot become that.
CsaToMove(p, t) ==
   LET from == TypeAt(p, t.from)
       promoted == from \in DOMAIN Promoted /\ Promoted[from] = t.piece
   IN  IF t.from # InHand /\ from # t.piece /\ ~promoted THEN {}
       ELSE Accepted(p, IF t.from = InHand THEN DropMove(t.piece, t.to)
                        ELSE BoardMove(p, t.from, t.to, promoted))

\* setPosition: the game is played up to the first move that is not accepted.
SetPosition(sfen, texts) ==
   LET moved(p, ms) == IF ms = {} THEN {[at |-> p, on |-> FALSE]}
                       ELSE {[at |-> Made(p, m), on |-> TRUE] : m \in ms}
       xs[i \in 0 .. Len(texts)] ==
          IF i = 0 THEN {[at |-> p, on |-> TRUE] : p \in SetSFEN(sfen)}
          ELSE UNION {IF x.on THEN moved(x.at, UsiToMove(x.at, texts[i])) ELSE {x} : x \in xs[i - 1]}
   IN  {x.at : x \in xs[Len(texts)]}

\* A drop has the piece in place of the square it comes from.
PieceNumber == [Pawn |-> 1, Lance |-> 2, Knight |-> 3, Silver |-> 4, Bishop |-> 5, Rook |-> 6, Gold |-> 7]
Move16(m) == (IF IsDrop(m) THEN 80 + PieceNumber[m.pt] ELSE m.from) * 2^7 + m.to
               + (IF m.promo THEN 2^14 ELSE 0)
To16(v) == v % 2^7
From16(v) == (v \div 2^7) % 2^7
Promotes16(v) == v \div 2^14 = 1
Move16toMove(v, p) ==
   IF From16(v) >= 81
     THEN DropMove(CHOOSE t \in HandTypes : PieceNumber[t] = From16(v) - 80, To16(v))
     ELSE BoardMove(p, From16(v), To16(v), Promotes16(v))

(***************************************************************************)
(* What the network is shown: the board as the side to move sees it.       *)
(***************************************************************************)
\* For White the sides are exchanged and the board is turned around.
SeenColor(turn_, c) == IF turn_ = "White" THEN Opp(c) ELSE c
SeenSquare(turn_, s) == IF turn_ = "White" THEN 80 - s ELSE s
MaxAttackNum == 3
MaxPawnsInHand == 8

(* Fault: a pawn attacks the square in front of it before it was turned.     *)
AttackedByUnturned(p, s) ==
   LET x == p.board[s]
   IN  IF x[2] = "Pawn" THEN {Front(x[1], SeenSquare(p.turn, s))}
       ELSE {SeenSquare(p.turn, t) : t \in AttacksFrom(x[2], x[1], s, Occ(p))}

\* The pawns attack after they have been turned, the other pieces before.
AttackedBy(p, s) ==
   LET x == p.board[s]
   IN  IF x[2] = "Pawn" THEN {Front(SeenColor(p.turn, x[1]), SeenSquare(p.turn, s))}
       ELSE {SeenSquare(p.turn, t) : t \in AttacksFrom(x[2], x[1], s, Occ(p))}

MakeInputFeatures(p) ==
   LET seen(s) == SeenColor(p.turn, p.board[s][1])
       attacks == UNION {{<<seen(s), s, t>> : t \in AttackedBy(p, s)} : s \in Occ(p)}
       number(c, t) == Cardinality({a \in attacks : a[1] = c /\ a[3] = t})
       upTo(n) == 1 .. (IF n < MaxAttackNum THEN n ELSE MaxAttackNum)
       held(c, t) == IF t = "Pawn" /\ p.hand[c][t] > MaxPawnsInHand THEN MaxPawnsInHand ELSE p.hand[c][t]
   IN  [pieces |-> {<<seen(s), p.board[s][2], SeenSquare(p.turn, s)>> : s \in Occ(p)},
        attacks |-> {<<a[1], p.board[a[2]][2], a[3]>> : a \in attacks},
        attackNumbers |-> UNION {{<<x[1], k, x[2]>> : k \in upTo(number(x[1], x[2]))} :
                                   x \in {<<a[1], a[3]>> : a \in attacks}},
        hand |-> UNION {{<<SeenColor(p.turn, x[1]), x[2], k>> : k \in 1 .. held(x[1], x[2])} :
                          x \in Colors \X HandTypes},
        inCheck |-> p.checkers # {}]

\* get_move_direction, in the order of MOVE_DIRECTION, and the labels, 81 for each
\* direction, each direction with promotion and each kind of piece dropped.
MoveDirection(x, y) ==
   CASE y < 0 /\ x = 0 -> 0
     [] y = -2 /\ x = -1 -> 8
     [] y = -2 /\ x = 1 -> 9
     [] y < 0 /\ x < 0 /\ <<x, y>> # <<-1, -2>> -> 1
     [] y < 0 /\ x > 0 /\ <<x, y>> # <<1, -2>> -> 2
     [] y = 0 /\ x < 0 -> 3
     [] y = 0 /\ x > 0 -> 4
     [] y > 0 /\ x = 0 -> 5
     [] y > 0 /\ x < 0 -> 6
     [] OTHER -> 7
MaxMoveLabelNum == 27
MakeMoveLabel(v, color) ==
   LET to == SeenSquare(color, To16(v))
       from == SeenSquare(color, From16(v))
       direction == MoveDirection(File(from) - File(to), Rank(to) - Rank(from))
   IN  81 * (IF From16(v) >= 81 THEN 20 + From16(v) - 81
             ELSE direction + (IF Promotes16(v) THEN 10 ELSE 0)) + to

(***************************************************************************)
(* Properties.                                                             *)
(***************************************************************************)
HasAllPieces(p) ==
   Cardinality(Occ(p)) + Cardinality({<<c, t, k>> \in Colors \X HandTypes \X (1 .. 18) : k <= p.hand[c][t]}) = 40

\* What is written is read back: the position from its SFEN text and, with its forty
\* pieces, from exactly 256 bits; the whole game, keys, checks and repetition records
\* included, from the position command with the start and the moves; and a legal move
\* from its USI and CSA texts and its 16 bits, so no two moves are written alike.
TextsReadBack ==
   /\ \E p \in {SetUp(board, hand, turn)}, bits \in {ToHuffmanCodedPos(Pos)} :
         /\ SetSFEN(ToSFEN(Pos)) = {p}
         /\ HasAllPieces(Pos) => Len(bits) = DataBits /\ SetHuffmanCodedPos(bits) = {p}
   /\ SetPosition(ToSFEN(start), [i \in DOMAIN line |-> ToUSI(line[i])]) = {Pos}
   /\ \A m \in Legal(Pos, TRUE) : /\ UsiToMove(Pos, ToUSI(m)) = {m}
                                  /\ CsaToMove(Pos, ToCSA(m)) = {m}
                                  /\ Move16toMove(Move16(m), Pos) = m

\* The same position with the board turned around and the sides exchanged.
TurnedSq(s) == 80 - s
TurnedRound(p) ==
   LET q == [s \in {TurnedSq(t) : t \in Occ(p)} |-> <<Opp(p.board[TurnedSq(s)][1]), p.board[TurnedSq(s)][2]>>]
   IN  SetUp(q, [c \in Colors |-> p.hand[Opp(c)]], Opp(p.turn))
TurnedMove(m) == [m EXCEPT !.to = TurnedSq(@), !.from = IF IsDrop(m) THEN @ ELSE TurnedSq(@)]

\* The network sees a position as the side to move sees it, whichever side that is;
\* the planes count the attackers of each square up to three; and each legal move has
\* a label of its own, the same for both sides.
NetworkSeesItsSide ==
   /\ \E seen \in {{MakeInputFeatures(p) : p \in {Pos, TurnedRound(Pos)}}} :
         /\ Cardinality(seen) = 1
         /\ \A s \in Sq, c \in Colors : \E n \in {Cardinality(AttackersTo(Pos, c, s, Occ(Pos)))} :
               \A f \in seen, k \in 1 .. MaxAttackNum :
                  <<SeenColor(turn, c), k, SeenSquare(turn, s)>> \in f.attackNumbers <=> n >= k
   /\ \E moves \in {Legal(Pos, TRUE)} :
         /\ Cardinality({MakeMoveLabel(Move16(m), turn) : m \in moves}) = Cardinality(moves)
         /\ \A m \in moves : \E label \in {MakeMoveLabel(Move16(m), turn)} :
               /\ label \in 0 .. 81 * MaxMoveLabelNum - 1
               /\ label = MakeMoveLabel(Move16(TurnedMove(m)), Opp(turn))
=============================================================================
