---------------------------- MODULE UsiLoop_proof ----------------------------
(***************************************************************************)
(* Theorems about the command loop, for any number of go commands and all  *)
(* options: IInv of UsiLoop is inductive, and so are AnswersItsGo and      *)
(* PrintersInv beside it.                                                  *)
(***************************************************************************)
EXTENDS UsiLoop, TLAPS

LEMMA InitIInv == Init => IInv
<1> SUFFICES ASSUME Init PROVE IInv
  OBVIOUS
<1>1. TypeOK
  BY DEF Init, TypeOK, UsiControl, ThControl, MateControl, Limits
<1>2. PromiseKept /\ MateInv
  BY DEF Init, PromiseKept, MateInv
<1>3. TimeIsWatched /\ StopHasReason
  BY DEF Init, TimeIsWatched, StopHasReason
<1> QED BY <1>1, <1>2, <1>3 DEF IInv

(* What the USI thread does when it reads a command.                        *)
LEMMA CommandStep == ASSUME IInv, Commands PROVE IInv'
<1> USE DEF IInv, TypeOK
<1>1. ASSUME NEW to \in UsiControl, StopAndJoin(to) PROVE IInv'
  BY <1>1 DEF StopAndJoin, flags, gui, UsiControl, PromiseKept, TimeIsWatched,
              StopHasReason, MateInv
<1>2. CASE Ponderhit
  BY <1>2 DEF Ponderhit, flags, PromiseKept, TimeIsWatched, StopHasReason, MateInv
<1>3. CASE Stop
  BY <1>1, <1>3 DEF Stop, UsiControl
<1>4. CASE GameOver
  BY <1>1, <1>4 DEF GameOver, UsiControl
<1>5. CASE Quit
  BY <1>1, <1>5 DEF Quit, UsiControl
<1>6. ASSUME NEW l \in Limits, Go(l) PROVE IInv'
  <2>1. JoinFor(l) \in UsiControl
    BY DEF JoinFor, Limits, UsiControl
  <2> QED BY <1>1, <1>6, <2>1 DEF Go
<1> QED BY <1>2, <1>3, <1>4, <1>5, <1>6 DEF Commands

(* What it does once th has been joined.                                    *)
LEMMA JoinStep == ASSUME IInv, Joins PROVE IInv'
<1> USE DEF IInv, TypeOK
<1>1. CASE StopJoined
  BY <1>1 DEF StopJoined, flags, UsiControl, PromiseKept, TimeIsWatched, StopHasReason, MateInv
<1>2. CASE GameOverJoined
  BY <1>2 DEF GameOverJoined, flags, UsiControl, PromiseKept, TimeIsWatched, StopHasReason, MateInv
<1>3. CASE QuitJoined
  BY <1>3 DEF QuitJoined, flags, gui, UsiControl, PromiseKept, TimeIsWatched, StopHasReason, MateInv
<1>4. ASSUME NEW l \in Limits, GoStart(l) PROVE IInv'
  <2> USE <1>4 DEF GoStart
  <2>1. TypeOK'
    <3>1. /\ usi' \in UsiControl /\ th' \in ThControl /\ mate' \in MateControl
          /\ asked' \in {"nothing", "ponder", "move"}
      BY DEF UsiControl, ThControl
    <3>2. limits' \in Limits /\ future' \in Nat /\ sets' \in Nat
      OBVIOUS
    <3>3. /\ pondering' \in BOOLEAN /\ stop' \in BOOLEAN /\ stopped' \in BOOLEAN
          /\ dfpnStop' \in BOOLEAN
      OBVIOUS
    <3>4. printers' = printers \/ printers' = printers \cup {future'}
      OBVIOUS
    <3>5. /\ printers' \in SUBSET Nat /\ answers' \in SUBSET (Nat \X Nat)
          /\ doubled' \in SUBSET Nat
      BY <3>2, <3>4
    <3> QED BY <3>1, <3>2, <3>3, <3>5
  <2>2. PromiseKept' /\ MateInv'
    BY DEF PromiseKept, MateInv
  <2>3. TimeIsWatched'
    BY DEF TimeIsWatched
  <2>4. StopHasReason'
    BY DEF StopHasReason, Joinable
  <2> QED BY <2>1, <2>2, <2>3, <2>4
<1> QED BY <1>1, <1>2, <1>3, <1>4 DEF Joins

(* The go thread, the mate thread and the printing threads.                 *)
LEMMA GoStep == ASSUME IInv, GoUct \/ Search PROVE IInv'
<1> USE DEF IInv, TypeOK, ThControl, MateControl, flags, gui, SetValue, PromiseKept,
            TimeIsWatched, StopHasReason, MateInv
<1>1. CASE BookMove
  BY <1>1 DEF BookMove
<1>2. CASE Declare
  BY <1>2 DEF Declare
<1>3. CASE StartSearch
  <2>1. /\ th = "start" /\ th' = "search" /\ mate' \in {"run", "none"}
        /\ UNCHANGED <<usi, flags, stop, future, sets, gui, stopped>>
    BY <1>3 DEF StartSearch
  <2>2. dfpnStop' \in BOOLEAN
    BY <1>3 DEF StartSearch
  <2>3. TypeOK'
    <3>1. /\ usi' \in UsiControl /\ th' \in ThControl /\ mate' \in MateControl
          /\ asked' \in {"nothing", "ponder", "move"}
      BY <2>1
    <3>2. limits' \in Limits /\ future' \in Nat /\ sets' \in Nat
      BY <2>1
    <3>3. pondering' \in BOOLEAN /\ stop' \in BOOLEAN /\ stopped' \in BOOLEAN
      BY <2>1
    <3>4. /\ printers' \in SUBSET Nat /\ answers' \in SUBSET (Nat \X Nat)
          /\ doubled' \in SUBSET Nat
      BY <2>1
    <3> QED BY <2>2, <3>1, <3>2, <3>3, <3>4
  <2>4. PromiseKept' /\ TimeIsWatched' /\ MateInv'
    BY <2>1
  <2>5. StopHasReason'
    BY <2>1
  <2> QED BY <2>3, <2>4, <2>5
<1>4. ASSUME NEW move \in {"played", "resigned"}, StopMate(move) PROVE IInv'
  BY <1>4 DEF StopMate
<1>5. CASE PlayMate
  BY <1>5 DEF PlayMate
<1>6. CASE NoMate
  <2>1. /\ th \in {"joinmate", "played"} /\ th' = "answer"
        /\ UNCHANGED <<usi, mate, flags, stop, dfpnStop, future, sets, gui, stopped>>
    BY <1>6 DEF NoMate
  <2>2. mate # "run"
    BY <1>6 DEF NoMate
  <2> QED BY <2>1, <2>2
<1>7. CASE Resign
  <2>1. /\ th \in {"joinresigned", "resigned"} /\ th' = "ended" /\ sets' = sets + 1
        /\ UNCHANGED <<usi, mate, flags, stop, dfpnStop, future, gui, stopped>>
    BY <1>7 DEF Resign
  <2>2. mate # "run"
    BY <1>7 DEF Resign
  <2> QED BY <2>1, <2>2
<1>8. CASE Answer
  BY <1>8 DEF Answer
<1>9. CASE StartPonder
  BY <1>9 DEF StartPonder
<1>10. CASE Search
  <2>1. CASE Searched
    BY <2>1 DEF Searched
  <2>2. CASE Pondered
    BY <2>2 DEF Pondered
  <2> QED BY <1>10, <2>1, <2>2 DEF Search
<1> QED BY <1>1, <1>2, <1>3, <1>4, <1>5, <1>6, <1>7, <1>8, <1>9, <1>10 DEF GoUct

LEMMA OtherStep ==
  ASSUME IInv, MateEnd \/ \E g \in printers : Printing(g)
  PROVE  IInv'
<1> USE DEF IInv, TypeOK, MateControl, flags, gui, PromiseKept, TimeIsWatched,
            StopHasReason, MateInv
<1>1. CASE MateFound
  BY <1>1 DEF MateFound
<1>2. CASE MateFailed
  BY <1>2 DEF MateFailed
<1>3. ASSUME NEW g \in printers, PrintBestMove(g) PROVE IInv'
  BY <1>3 DEF PrintBestMove
<1>4. ASSUME NEW g \in printers, Misread(g) PROVE IInv'
  BY <1>4 DEF Misread, UsiControl
<1> QED BY <1>1, <1>2, <1>3, <1>4 DEF MateEnd, Printing

(* IInv holds in every reachable state.                                     *)
THEOREM Inductive == Spec => []IInv
<1>1. IInv /\ [Next]_vars => IInv'
  <2> SUFFICES ASSUME IInv, [Next]_vars PROVE IInv'
    OBVIOUS
  <2>1. CASE UNCHANGED vars
    BY <2>1 DEF vars, IInv, TypeOK, PromiseKept, TimeIsWatched, StopHasReason, MateInv
  <2>2. CASE Next
    BY <2>1, <2>2, CommandStep, JoinStep, GoStep, OtherStep DEF Next, Ended
  <2> QED BY <2>1, <2>2
<1> QED BY <1>1, InitIInv, PTL DEF Spec

(* goUct sets its promise exactly once on each of its ways to return,       *)
(* whatever the options and the commands (PromiseKept).                     *)
THEOREM PromiseIsKept == Spec => []PromiseKept
BY Inductive, PTL DEF IInv

(* A search whose move the GUI waits for always looks at the clock          *)
(* (TimeIsWatched).                                                         *)
THEOREM ClockIsWatched == Spec => []TimeIsWatched
BY Inductive, PTL DEF IInv

(* Only a command after the go, or the mate search of the same go, stops a  *)
(* search (StopHasReason).                                                  *)
THEOREM StopIsOwn == Spec => []StopHasReason
BY Inductive, PTL DEF IInv

-----------------------------------------------------------------------------
(* The printing threads.                                                    *)

PInv == AnswersItsGo /\ PrintersInv

(* What happens to them when the USI thread begins to wait for th, of which *)
(* a go does so only when the GUI waits for nothing.                        *)
LEMMA PrintersWait ==
  ASSUME IInv, PInv, NEW to \in UsiControl \ Over, StopAndJoin(to),
         \A l \in Limits : to = JoinFor(l) => asked = "nothing"
  PROVE  PInv'
BY DEF IInv, TypeOK, PInv, StopAndJoin, flags, gui, Over, AnswersItsGo, PrintersInv

LEMMA JoinNames ==
  \A l \in Limits : /\ JoinFor(l) \in UsiControl \ Over
                    /\ JoinFor(l) \notin {"idle", "joinstop", "joinover", "jointh"}
BY DEF JoinFor, Limits, UsiControl, Over

LEMMA PrintersCommand == ASSUME IInv, PInv, Commands PROVE PInv'
<1> USE DEF IInv, TypeOK, PInv
<1>1. CASE Stop \/ GameOver \/ Quit
  BY <1>1, PrintersWait, JoinNames DEF Stop, GameOver, Quit, UsiControl, Over
<1>2. ASSUME NEW l \in Limits, Go(l) PROVE PInv'
  BY <1>2, PrintersWait, JoinNames DEF Go
<1>3. CASE Ponderhit
  <2>1. /\ usi = "idle" /\ asked = "ponder" /\ asked' = "move"
        /\ printers' = printers \cup {future}
        /\ UNCHANGED <<usi, limits, future, answers, doubled>>
    BY <1>3 DEF Ponderhit
  <2>2. future \notin doubled /\ \A a \in answers : a[1] # future
    BY <2>1 DEF PrintersInv
  <2>3. AnswersItsGo'
    BY <2>1, <2>2 DEF AnswersItsGo
  <2>4. PrintersInv'
    BY <2>1, <2>2, JoinNames DEF PrintersInv
  <2> QED BY <2>3, <2>4
<1> QED BY <1>1, <1>2, <1>3 DEF Commands

LEMMA PrintersJoin == ASSUME IInv, PInv, Joins PROVE PInv'
<1> USE DEF IInv, TypeOK, PInv
<1>1. CASE StopJoined
  <2>1. /\ usi = "joinstop" /\ usi' = "idle"
        /\ asked' = IF limits = "ponder" THEN "nothing" ELSE asked
        /\ doubled' = doubled \cup IF limits = "ponder" THEN printers \cap {future} ELSE {}
        /\ UNCHANGED <<limits, future, printers, answers>>
    BY <1>1 DEF StopJoined, flags
  <2>2. doubled' \subseteq {future'} => doubled \subseteq {future}
    BY <2>1
  <2>3. AnswersItsGo'
    BY <2>1, <2>2 DEF AnswersItsGo
  <2>4. PrintersInv'
    <3>1. CASE limits = "ponder"
      BY <2>1, <2>2, <3>1, JoinNames DEF PrintersInv
    <3>2. CASE limits # "ponder"
      BY <2>1, <2>2, <3>2, JoinNames DEF PrintersInv
    <3> QED BY <3>1, <3>2
  <2> QED BY <2>3, <2>4
<1>2. CASE GameOverJoined
  <2>1. /\ usi = "joinover" /\ usi' = "idle"
        /\ asked' = IF asked = "ponder" THEN "nothing" ELSE asked
        /\ UNCHANGED <<limits, future, printers, answers, doubled>>
    BY <1>2 DEF GameOverJoined, flags
  <2>2. AnswersItsGo'
    BY <2>1 DEF AnswersItsGo
  <2>3. PrintersInv'
    BY <2>1, JoinNames DEF PrintersInv
  <2> QED BY <2>2, <2>3
<1>3. CASE QuitJoined
  <2>1. usi' = "quit" /\ UNCHANGED <<limits, future, printers, asked, answers, doubled>>
    BY <1>3 DEF QuitJoined, flags, gui
  <2> QED BY <2>1, JoinNames DEF Over, AnswersItsGo, PrintersInv
<1>4. ASSUME NEW l \in Limits, GoStart(l) PROVE PInv'
  <2>1. /\ usi = JoinFor(l) /\ usi' = "idle" /\ limits' = l /\ future' = future + 1
        /\ UNCHANGED <<answers, doubled>>
        /\ IF l = "ponder" THEN asked' = "ponder" /\ printers' = printers
                           ELSE asked' = "move" /\ printers' = printers \cup {future'}
    BY <1>4 DEF GoStart
  \* The new go has a number no one has.
  <2>2. /\ \A a \in answers : a \in Nat \X Nat /\ a[1] <= future /\ a[1] # future + 1
        /\ \A g \in printers \cup doubled : g \in Nat /\ g <= future /\ g # future + 1
    BY DEF PrintersInv
  \* If no move of a stopped search is still to be read, no move is.
  <2>3. ASSUME doubled \subseteq {future + 1} PROVE printers = {} /\ doubled = {} /\ usi # "dead"
    <3>1. doubled = {}
      BY <2>2, <2>3
    <3>2. asked = "nothing" /\ printers \subseteq {future} /\ usi # "dead"
      BY <2>1, <3>1 DEF AnswersItsGo, PrintersInv
    <3>3. future \notin printers
      BY <3>1, <3>2 DEF PrintersInv
    <3> QED BY <3>1, <3>2, <3>3
  <2>4. AnswersItsGo'
    <3>1. \A a \in answers' : a[1] \notin printers'
      BY <2>1, <2>2 DEF AnswersItsGo
    <3>2. ASSUME doubled' \subseteq {future'}
          PROVE  /\ usi' # "dead" /\ printers' \subseteq {future'}
                 /\ \A a \in answers' : a[1] = a[2]
      BY <2>1, <2>3, <3>2 DEF AnswersItsGo
    <3> QED BY <3>1, <3>2 DEF AnswersItsGo
  <2>5. PrintersInv'
    <3>1. /\ \A d \in doubled' : d <= future'
          /\ \A a \in answers' : a[1] <= future'
          /\ \A g \in printers' : g <= future'
      <4>1. \A g \in printers' : g \in printers \/ g = future + 1
        BY <2>1
      <4>2. \A n \in Nat : n <= future => n <= future + 1
        OBVIOUS
      <4>3. \A a \in answers : a[1] \in Nat
        BY <2>2
      <4>4. \A a \in answers : a[1] <= future + 1
        BY <2>2, <4>2, <4>3
      <4>5. \A g \in printers \cup doubled : g \in Nat /\ g <= future
        BY <2>2
      <4>6. \A g \in printers \cup doubled : g <= future + 1
        BY <4>2, <4>5
      <4>7. \A g \in printers' \cup doubled : g <= future + 1
        <5>1. future + 1 <= future + 1
          OBVIOUS
        <5> QED BY <4>1, <4>6, <5>1
      <4> QED BY <2>1, <4>4, <4>7
    <3>2. asked' = "ponder" => /\ limits' = "ponder" /\ future' \notin printers' \cup doubled'
                              /\ \A a \in answers' : a[1] # future'
      BY <2>1, <2>2
    <3>3. ASSUME doubled' \subseteq {future'}
          PROVE  /\ \A k \in Limits : usi' = JoinFor(k) => asked' = "nothing"
                 /\ doubled' \subseteq printers'
                 /\ asked' = "move" <=> future' \in printers' \ doubled'
      BY <2>1, <2>3, <3>3, JoinNames
    <3> QED BY <3>1, <3>2, <3>3 DEF PrintersInv
  <2> QED BY <2>4, <2>5
<1> QED BY <1>1, <1>2, <1>3, <1>4 DEF Joins

LEMMA PrintersPrint == ASSUME IInv, PInv, NEW g \in printers, Printing(g) PROVE PInv'
<1> USE DEF IInv, TypeOK, PInv
<1>1. CASE PrintBestMove(g)
  <2>1. PICK f \in {g, future} :
          /\ answers' = answers \cup {<<g, f>>} /\ printers' = printers \ {g}
          /\ doubled' = IF g = future THEN doubled \ {g} ELSE doubled
          /\ asked' = IF asked = "move" THEN "nothing" ELSE asked
          /\ UNCHANGED <<usi, limits, future>>
    BY <1>1 DEF PrintBestMove, flags
  <2>2. \A a \in answers' : a \in answers \/ a = <<g, f>>
    BY <2>1
  <2>3. doubled' \subseteq {future'} => doubled \subseteq {future}
    BY <2>1
  <2>4. AnswersItsGo'
    <3>1. \A a \in answers' : a[1] \notin printers'
      BY <2>1, <2>2 DEF AnswersItsGo
    <3>2. ASSUME doubled' \subseteq {future'}
          PROVE  /\ usi' # "dead" /\ printers' \subseteq {future'}
                 /\ \A a \in answers' : a[1] = a[2]
      <4>1. g = future /\ f = g
        BY <2>1, <2>3, <3>2 DEF AnswersItsGo
      <4> QED BY <2>1, <2>2, <2>3, <3>2, <4>1 DEF AnswersItsGo
    <3> QED BY <3>1, <3>2 DEF AnswersItsGo
  <2>5. PrintersInv'
    <3>1. /\ \A d \in doubled' : d <= future'
          /\ \A a \in answers' : a[1] <= future'
          /\ \A h \in printers' : h <= future'
      BY <2>1, <2>2 DEF PrintersInv
    <3>2. ASSUME asked' = "ponder"
          PROVE  /\ limits' = "ponder" /\ future' \notin printers' \cup doubled'
                 /\ \A a \in answers' : a[1] # future'
      <4>1. asked = "ponder" /\ g # future
        BY <2>1, <3>2 DEF PrintersInv
      <4> QED BY <2>1, <2>2, <4>1 DEF PrintersInv
    <3>3. ASSUME doubled' \subseteq {future'}
          PROVE  /\ \A k \in Limits : usi' = JoinFor(k) => asked' = "nothing"
                 /\ doubled' \subseteq printers'
                 /\ asked' = "move" <=> future' \in printers' \ doubled'
      <4>1. g = future
        BY <2>1, <2>3, <3>3 DEF AnswersItsGo
      <4>2. doubled' = {} /\ printers' = {}
        BY <2>1, <2>3, <3>3, <4>1 DEF AnswersItsGo
      <4> QED BY <2>1, <2>3, <3>3, <4>1, <4>2 DEF PrintersInv
    <3> QED BY <3>1, <3>2, <3>3 DEF PrintersInv
  <2> QED BY <2>4, <2>5
<1>2. CASE Misread(g)
  <2>1. /\ usi' = "dead" /\ UNCHANGED <<limits, future, printers, asked, answers, doubled>>
        /\ g # future \/ \E a \in answers : a[2] = future
    BY <1>2 DEF Misread, flags, gui
  \* A future is read twice, or too late, only after such a stop.
  <2>2. ~ (doubled \subseteq {future})
    BY <2>1 DEF AnswersItsGo
  <2> QED BY <2>1, <2>2 DEF AnswersItsGo, PrintersInv
<1> QED BY <1>1, <1>2 DEF Printing

LEMMA PrintersStep == ASSUME IInv, PInv, [Next]_vars PROVE PInv'
<1>1. CASE UNCHANGED <<usi, limits, future, printers, asked, answers, doubled>>
  BY <1>1 DEF PInv, AnswersItsGo, PrintersInv
<1>2. CASE GoUct \/ Search \/ MateEnd
  <2>1. UNCHANGED <<usi, limits, future, printers, asked, answers, doubled>>
    BY <1>2 DEF GoUct, Search, MateEnd, MateFound, MateFailed, BookMove, Declare, StartSearch,
                Searched, StopMate, PlayMate, NoMate, Resign, Answer, StartPonder, Pondered,
                flags, gui
  <2> QED BY <1>1, <2>1
<1>3. CASE UNCHANGED vars
  BY <1>1, <1>3 DEF vars
<1> QED BY <1>2, <1>3, PrintersCommand, PrintersJoin, PrintersPrint DEF Next, Ended

(* Whatever the GUI sends, each printing thread prints the move of its own  *)
(* go, and each go is printed at most once, unless the GUI sends another go *)
(* when it was answered "resign" by a stop after its ponderhit and the move *)
(* was not read (AnswersItsGo).                                             *)
THEOREM AnswersAreOwn == Spec => []AnswersItsGo
<1>1. Init => PInv
  BY DEF Init, PInv, AnswersItsGo, PrintersInv, JoinFor, Limits
<1>2. IInv /\ PInv /\ [Next]_vars => PInv'
  BY PrintersStep
<1>3. Spec => []PInv
  BY <1>1, <1>2, Inductive, PTL DEF Spec
<1> QED BY <1>3, PTL DEF PInv
=============================================================================
