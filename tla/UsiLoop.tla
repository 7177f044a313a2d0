------------------------------- MODULE UsiLoop -------------------------------
(***************************************************************************)
(* One search after another, as the GUI asks for them (usi/main.cpp): the  *)
(* USI thread of doUSICommandLoop, the thread th of goUct it starts for    *)
(* each go, the thread that goUct starts to look for a mate, and the       *)
(* detached threads of getAndPrintBestMove, which wait for the future of   *)
(* the go and print its bestmove.                                          *)
(*                                                                         *)
(* UctSearchGenmove is one step here, "search" or "ponder" while it runs;  *)
(* SearcherPool tells how it starts the searchers and waits for them.      *)
(***************************************************************************)
EXTENDS Naturals

CONSTANTS
  MaxGo,       (* bound: go commands in a behaviour                          *)
  Stochastic   (* whether Stochastic_Ponder (and USI_Ponder) may be set, or not *)

ASSUME OptionsAssumption == Stochastic \subseteq BOOLEAN
ASSUME MaxGoAssumption   == MaxGo \in Nat

Limits == {"time", "infinite", "ponder"}   \* which of the limits the go carries

VARIABLES
  usi,        \* where the USI thread is
  th,         \* where the go thread is
  mate,       \* where the mate thread is, with its result
  stochastic, \* the option Stochastic_Ponder
  limits,     \* the limits of the last go
  pondering,  \* pondering: the search does not look at the clock
  stop,       \* uct_search_stop
  dfpnStop,   \* the stop flag of dfpn
  future,     \* the number of the go that promise and future belong to
  sets,       \* how often that promise was set
  printers,   \* the go commands whose printing thread has not read future yet
  asked,      \* what the GUI waits for
  answers,    \* <<g, f>>: the thread started for go g printed the move of go f  (history)
  doubled,    \* the go commands answered by "resign" while their move is still
              \* to be printed                                                 (history)
  stopped     \* the USI thread has stopped this search                          (history)

vars == <<usi, th, mate, stochastic, limits, pondering, stop, dfpnStop, future, sets, printers,
          asked, answers, doubled, stopped>>
flags == <<stochastic, limits, pondering>>
gui   == <<asked, printers, answers, doubled>>

UsiControl  == {"idle", "joingo", "joinponder", "joininfinite", "joinstop", "joinover",
                "jointh", "quit", "dead"}
Over        == {"quit", "dead"}       \* the process has ended, or died
ThControl   == {"none", "start", "search", "played", "resigned", "joinmate", "joinresigned",
                "answer", "moved", "ponder", "ended"}
MateControl == {"none", "run", "found", "failed"}

Init ==
  /\ usi = "idle" /\ th = "none" /\ mate = "none"
  /\ stochastic \in Stochastic
  /\ limits = "time" /\ pondering = FALSE /\ stop = FALSE /\ dfpnStop = FALSE
  /\ future = 0 /\ sets = 0 /\ printers = {} /\ asked = "nothing"
  /\ answers = {} /\ doubled = {} /\ stopped = FALSE

(* th is not joinable, or has returned.                                     *)
Joinable == th \in {"none", "ended"}

JoinFor(l) == [time |-> "joingo", infinite |-> "joininfinite", ponder |-> "joinponder"][l]

-----------------------------------------------------------------------------
(* Fault: the search is not stopped before th is joined.                    *)
JoinOnly(to) ==
  /\ usi = "idle" /\ usi' = to
  /\ UNCHANGED <<th, mate, flags, stop, dfpnStop, future, sets, gui, stopped>>

(* StopUctSearch by the USI thread, which then joins th.                    *)
StopAndJoin(to) ==
  /\ usi = "idle" /\ usi' = to
  /\ stop' = TRUE /\ stopped' = TRUE
  /\ UNCHANGED <<th, mate, flags, dfpnStop, future, sets, gui>>

(* go: the GUI waits for the move it has asked for before it sends the next *)
(* go, and ponders on a move that the engine has named.                     *)
Go(l) ==
  /\ asked = "nothing" /\ future < MaxGo
  /\ l = "ponder" => ~ stochastic /\ future > 0
  /\ StopAndJoin(JoinFor(l))

(* Fault: a thread prints after go ponder, too.                              *)
GoStartPrinting(l) ==
  /\ usi = JoinFor(l) /\ Joinable /\ usi' = "idle" /\ th' = "start"
  /\ limits' = l /\ pondering' = (l = "ponder") /\ stop' = FALSE /\ stopped' = FALSE
  /\ future' = future + 1 /\ sets' = 0
  /\ asked' = (IF l = "ponder" THEN "ponder" ELSE "move") /\ printers' = printers \cup {future'}
  /\ UNCHANGED <<mate, stochastic, dfpnStop, answers, doubled>>

(* setPositionAndLimits, InitUctSearchStop, a new promise, a new th, and,   *)
(* unless it ponders, getAndPrintBestMove.                                  *)
GoStart(l) ==
  /\ usi = JoinFor(l) /\ Joinable
  /\ usi' = "idle" /\ th' = "start"
  /\ limits' = l /\ pondering' = (l = "ponder")
  /\ stop' = FALSE /\ stopped' = FALSE
  /\ future' = future + 1 /\ sets' = 0
  /\ IF l = "ponder" THEN asked' = "ponder" /\ UNCHANGED printers
                     ELSE asked' = "move" /\ printers' = printers \cup {future'}
  /\ UNCHANGED <<mate, stochastic, dfpnStop, answers, doubled>>

(* Fault: the search is not told that it has to watch the clock.            *)
PonderhitSilent ==
  /\ usi = "idle" /\ asked = "ponder"
  /\ asked' = "move" /\ printers' = printers \cup {future}
  /\ UNCHANGED <<usi, th, mate, flags, stop, dfpnStop, future, sets, answers, doubled, stopped>>

Ponderhit ==
  /\ usi = "idle" /\ asked = "ponder"
  /\ pondering' = FALSE
  /\ asked' = "move" /\ printers' = printers \cup {future}
  /\ UNCHANGED <<usi, th, mate, stochastic, limits, stop, dfpnStop, future, sets, answers, doubled,
                 stopped>>

Stop == StopAndJoin("joinstop")

(* stop: "bestmove resign" after every go ponder, also one that was hit,    *)
(* whose printing thread may not have read its move yet.                    *)
StopJoined ==
  /\ usi = "joinstop" /\ Joinable /\ usi' = "idle"
  /\ asked' = IF limits = "ponder" THEN "nothing" ELSE asked
  /\ doubled' = doubled \cup IF limits = "ponder" THEN printers \cap {future} ELSE {}
  /\ UNCHANGED <<th, mate, flags, stop, dfpnStop, future, sets, printers, answers, stopped>>

(* The game ends: a ponder is not answered any more.                        *)
GameOver == StopAndJoin("joinover")

GameOverJoined ==
  /\ usi = "joinover" /\ Joinable /\ usi' = "idle"
  /\ asked' = IF asked = "ponder" THEN "nothing" ELSE asked
  /\ UNCHANGED <<th, mate, flags, stop, dfpnStop, future, sets, printers, answers, doubled, stopped>>

Quit == StopAndJoin("jointh")

QuitJoined ==
  /\ usi = "jointh" /\ Joinable /\ usi' = "quit"
  /\ UNCHANGED <<th, mate, flags, stop, dfpnStop, future, sets, gui, stopped>>

-----------------------------------------------------------------------------
(* goUct: the promise is set, and th goes on to control to.                 *)
SetValue(to) == sets' = sets + 1 /\ th' = to

(* A move of the book, or a win by declaration.                             *)
BookMove ==
  /\ th = "start" /\ SetValue(IF stochastic THEN "moved" ELSE "ended")
  /\ UNCHANGED <<usi, mate, flags, stop, dfpnStop, future, gui, stopped>>

Declare ==
  /\ th = "start" /\ SetValue("ended")
  /\ UNCHANGED <<usi, mate, flags, stop, dfpnStop, future, gui, stopped>>

(* The option Mate_Root_Search tells whether there is a mate thread.        *)
StartSearch ==
  /\ th = "start" /\ th' = "search"
  /\ dfpnStop' = FALSE
  /\ mate' \in {"run", "none"}
  /\ UNCHANGED <<usi, flags, stop, future, sets, gui, stopped>>

(* UctSearchGenmove returns a move, or none: there is none or it resigns.   *)
Searched ==
  /\ th = "search" /\ th' \in {"played", "resigned"}
  /\ UNCHANGED <<usi, mate, flags, stop, dfpnStop, future, sets, gui, stopped>>

(* The mate thread: a mate stops the search.                                *)
MateFound ==
  /\ mate = "run" /\ mate' = "found"
  /\ stop' = TRUE
  /\ UNCHANGED <<usi, th, flags, dfpnStop, future, sets, gui, stopped>>

MateFailed ==
  /\ mate = "run" /\ mate' = "failed"
  /\ UNCHANGED <<usi, th, flags, stop, dfpnStop, future, sets, gui, stopped>>

(* Fault: goUct answers before it has joined the thread of the mate search. *)
AnswerAtOnce(move) ==
  /\ th = move /\ dfpnStop' = TRUE
  /\ SetValue("ended")
  /\ UNCHANGED <<usi, mate, flags, stop, future, gui, stopped>>

(* After the search: goUct has waited for the mate thread as long as it     *)
(* may, or the mate thread is done.                                         *)
StopMate(move) ==
  /\ mate # "none" /\ th = move
  /\ dfpnStop' = TRUE /\ th' = IF move = "played" THEN "joinmate" ELSE "joinresigned"
  /\ UNCHANGED <<usi, mate, flags, stop, future, sets, gui, stopped>>

(* Fault: no return after the mate was answered.                            *)
PlayMateOn ==
  /\ th \in {"joinmate", "joinresigned"} /\ mate = "found"
  /\ SetValue("answer")
  /\ UNCHANGED <<usi, mate, flags, stop, dfpnStop, future, gui, stopped>>

PlayMate ==
  /\ th \in {"joinmate", "joinresigned"} /\ mate = "found"
  /\ SetValue("ended")
  /\ UNCHANGED <<usi, mate, flags, stop, dfpnStop, future, gui, stopped>>

NoMate ==
  /\ \/ mate = "failed" /\ th = "joinmate"
     \/ mate = "none" /\ th = "played"
  /\ th' = "answer"
  /\ UNCHANGED <<usi, mate, flags, stop, dfpnStop, future, sets, gui, stopped>>

Resign ==
  /\ \/ mate = "failed" /\ th = "joinresigned"
     \/ mate = "none" /\ th = "resigned"
  /\ SetValue("ended")
  /\ UNCHANGED <<usi, mate, flags, stop, dfpnStop, future, gui, stopped>>

Answer ==
  /\ th = "answer"
  /\ SetValue(IF ~ stop /\ stochastic THEN "moved" ELSE "ended")
  /\ UNCHANGED <<usi, mate, flags, stop, dfpnStop, future, gui, stopped>>

(* Stochastic_Ponder: th goes on from the opponent's position.              *)
StartPonder ==
  /\ th = "moved" /\ th' = "ponder" /\ pondering' = TRUE
  /\ UNCHANGED <<usi, mate, stochastic, limits, stop, dfpnStop, future, sets, gui, stopped>>

Pondered ==
  /\ th = "ponder" /\ th' = "ended"
  /\ UNCHANGED <<usi, mate, flags, stop, dfpnStop, future, sets, gui, stopped>>

-----------------------------------------------------------------------------
(* getAndPrintBestMove: future.get, of the future there is by then.  A      *)
(* thread that had been woken when a go replaced its future may still print *)
(* what it waited for.                                                      *)
PrintBestMove(g) ==
  /\ usi \notin Over /\ g \in printers
  /\ \E f \in {g, future} :
       /\ f = future => sets > 0
       /\ answers' = answers \cup {<<g, f>>}
  /\ printers' = printers \ {g}
  /\ doubled' = IF g = future THEN doubled \ {g} ELSE doubled
  /\ asked' = IF asked = "move" THEN "nothing" ELSE asked
  /\ UNCHANGED <<usi, th, mate, flags, stop, dfpnStop, future, sets, stopped>>

(* It reads a future that has been read, which throws, or one that is       *)
(* replaced meanwhile, which may: no one catches it.                        *)
Misread(g) ==
  /\ usi \notin Over /\ g \in printers
  /\ g # future \/ \E a \in answers : a[2] = future
  /\ usi' = "dead"
  /\ UNCHANGED <<th, mate, flags, stop, dfpnStop, future, sets, gui, stopped>>

Printing(g) == PrintBestMove(g) \/ Misread(g)

(* After quit, or an exception, the process has ended.                      *)
Ended == usi \in Over /\ UNCHANGED vars

Commands == Ponderhit \/ Stop \/ GameOver \/ Quit \/ \E l \in Limits : Go(l)
Joins    == StopJoined \/ GameOverJoined \/ QuitJoined \/ \E l \in Limits : GoStart(l)
GoUct ==
  /\ usi \notin Over
  /\ \/ BookMove \/ Declare \/ StartSearch
     \/ StopMate("played") \/ StopMate("resigned") \/ PlayMate \/ NoMate \/ Resign
     \/ Answer \/ StartPonder
Search   == usi \notin Over /\ (Searched \/ Pondered)
MateEnd  == usi \notin Over /\ (MateFound \/ MateFailed)
Next ==
  \/ Commands \/ Joins \/ GoUct \/ Search \/ MateEnd
  \/ \E g \in printers : Printing(g)
  \/ Ended

(* The threads are scheduled.  A search is only known to end when it is     *)
(* stopped or watches the clock, a mate search when it is stopped.  What    *)
(* the GUI sends next, and whether it does, is not fair.                    *)
MustEnd == stop \/ (~ pondering /\ limits # "infinite")
Fairness ==
  /\ WF_vars(Joins) /\ WF_vars(GoUct)
  /\ WF_vars(MustEnd /\ Search)
  /\ WF_vars(dfpnStop /\ MateEnd)
  /\ \A g \in 1 .. MaxGo : WF_vars(Printing(g))

Spec     == Init /\ [][Next]_vars
FairSpec == Spec /\ Fairness

-----------------------------------------------------------------------------
TypeOK ==
  /\ usi \in UsiControl /\ th \in ThControl /\ mate \in MateControl
  /\ limits \in Limits
  /\ pondering \in BOOLEAN /\ stop \in BOOLEAN /\ dfpnStop \in BOOLEAN /\ stopped \in BOOLEAN
  /\ future \in Nat /\ sets \in Nat
  /\ printers \in SUBSET Nat /\ doubled \in SUBSET Nat /\ answers \in SUBSET (Nat \X Nat)
  /\ asked \in {"nothing", "ponder", "move"}

(* Each thread that prints does so once, and prints the move of the go it   *)
(* was started for, although promise and future are replaced by every go    *)
(* ("to go on with the search at a ponderhit, bestmove is received through  *)
(* a future", main.cpp:186); when the next go comes, none is left that has  *)
(* not read its own.  The exception is a search that is stopped after its   *)
(* ponderhit: the GUI is answered "resign" at once (main.cpp:144), so that  *)
(* its next go may come before the move of this one was read.  Nothing is   *)
(* promised from then on; if the move is read first, no harm is done.       *)
AnswersItsGo ==
  /\ \A a \in answers : a[1] \notin printers
  /\ doubled \subseteq {future} =>
       /\ usi # "dead" /\ printers \subseteq {future}
       /\ \A a \in answers : a[1] = a[2]

(* goUct sets its promise exactly once, whichever way it returns: a second  *)
(* set_value throws, and none leaves the printing thread waiting.           *)
PromiseKept ==
  /\ sets <= 1
  /\ sets = 1 <=> th \in {"moved", "ponder", "ended"}

(* While the GUI waits for the move of a search, the search looks at the    *)
(* clock: the SetPondering(true) of the go thread and the SetPondering and  *)
(* SetLimits of the USI thread never leave the wrong value behind.          *)
TimeIsWatched ==
  asked = "move" /\ sets = 0 => ~ pondering

(* A search is stopped by a command that came after its go, or by the mate  *)
(* that its own mate thread has found, never by a left-over of another go.  *)
StopHasReason ==
  /\ stop => stopped \/ mate = "found"
  /\ mate = "run" => th \in {"search", "played", "resigned", "joinmate", "joinresigned"}

(* The USI thread gets past every join: the stop flag set before it is not  *)
(* lost, wherever goUct is.  And every move that the GUI waits for is       *)
(* printed, unless the process ends or the search is infinite.              *)
JoinsEnd == usi \notin {"idle"} \cup Over ~> usi \in {"idle"} \cup Over
Answered == asked = "move" /\ limits # "infinite" ~> asked = "nothing" \/ usi \in Over
CommandsEnd == JoinsEnd /\ Answered

-----------------------------------------------------------------------------
(* The inductive invariant: the properties above and what they rest on.     *)

(* The mate thread does not run past its join; what it found for an earlier *)
(* go does not stop this one.                                               *)
MateInv ==
  /\ th = "answer" => mate # "run"
  /\ th = "start" /\ stop => stopped

(* What the GUI waits for, what was asked of the engine, and the threads    *)
(* that will print it, as long as no go came before the move of a search    *)
(* that was stopped after its ponderhit was read.                           *)
PrintersInv ==
  /\ \A d \in doubled : d <= future
  /\ \A a \in answers : a[1] <= future
  /\ \A g \in printers : g <= future
  /\ asked = "ponder" => limits = "ponder" /\ future \notin printers \cup doubled
                         /\ \A a \in answers : a[1] # future
  /\ doubled \subseteq {future} =>
       /\ \A l \in Limits : usi = JoinFor(l) => asked = "nothing"
       /\ doubled \subseteq printers
       /\ asked = "move" <=> future \in printers \ doubled

IInv == TypeOK /\ PromiseKept /\ TimeIsWatched /\ StopHasReason /\ MateInv
=============================================================================
