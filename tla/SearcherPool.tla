---------------------------- MODULE SearcherPool ----------------------------
(***************************************************************************)
(* The pool of search threads of the USI engine (THREAD_POOL builds): the  *)
(* hand-shake of UCTSearcher::Run, Join and Term with its worker thread    *)
(* (usi/UctSearch.cpp), as used by the two threads that drive it: the USI  *)
(* command thread (isready, go, stop, quit of doUSICommandLoop) and the    *)
(* "go" thread th it spawns (goUct).                                       *)
(*                                                                         *)
(* A critical section of mtx_th never blocks except in cond_th.wait, which *)
(* releases the mutex, so each one is an action.  A thread blocked in the  *)
(* wait has control "wait"; notify_all, or a spurious wakeup, moves it to  *)
(* "wake", where it evaluates the predicate of the wait again.             *)
(***************************************************************************)
EXTENDS Naturals

CONSTANTS
  N,          (* number of searchers, over all the groups of search_groups   *)
  MaxRounds   (* bound: calls of UctSearchGenmove in a behaviour             *)

ASSUME NAssumption == N \in Nat \ {0}
ASSUME MaxRoundsAssumption == MaxRounds \in Nat

Searchers   == 1 .. N
Controllers == {"usi", "go"}   \* doUSICommandLoop and the thread th

VARIABLES
  ready,   \* ready[s]: ready_th of searcher s
  term,    \* term[s]: term_th of searcher s
  worker,  \* worker[s]: where the worker thread of s is; "none" before the
           \* first Run, that is while handle == nullptr
  pc,      \* pc[c]: where controller c is
  cur,     \* cur[c]: the searcher the loop of c is at
  stop,    \* uct_search_stop
  runs,    \* runs[s]: calls of Run on s                            (history)
  rounds,  \* rounds[s]: completed calls of ParallelUctSearch by s  (history)
  calls    \* calls of UctSearchGenmove so far, at most MaxRounds   (history)

vars == <<ready, term, worker, pc, cur, stop, runs, rounds, calls>>

WorkerControl == {"none", "test", "search", "finish", "wait", "wake", "exit"}
PcControl     == {"none", "idle", "run", "join", "wait", "wake", "played",
                  "ended", "joingo", "joinstop", "term", "termjoin",
                  "jointh", "freed"}

Init ==
  /\ ready  = [s \in Searchers |-> TRUE]
  /\ term   = [s \in Searchers |-> FALSE]
  /\ worker = [s \in Searchers |-> "none"]
  /\ pc     = [c \in Controllers |-> IF c = "usi" THEN "idle" ELSE "none"]
  /\ cur    = [c \in Controllers |-> 1]
  /\ stop   = FALSE
  /\ runs   = [s \in Searchers |-> 0]
  /\ rounds = [s \in Searchers |-> 0]
  /\ calls  = 0

(* No go thread is running: th is not joinable or has returned.             *)
GoEnded == pc["go"] \in {"none", "ended"}

-----------------------------------------------------------------------------
(* cond_th.notify_all() of searcher s: every thread blocked in its wait.    *)
Notified(p, s) ==
  [c \in Controllers |-> IF p[c] = "wait" /\ cur[c] = s THEN "wake" ELSE p[c]]

(* The loops over the searchers: the next one, or on to control then.       *)
Advance(p, c, here, then) ==
  IF cur[c] = N
  THEN /\ cur' = [cur EXCEPT ![c] = 1]
       /\ pc'  = [p EXCEPT ![c] = then]
  ELSE /\ cur' = [cur EXCEPT ![c] = @ + 1]
       /\ pc'  = [p EXCEPT ![c] = here]

(* Where UctSearchGenmove returns to.                                       *)
Return(c) == IF c = "usi" THEN "idle" ELSE "played"

-----------------------------------------------------------------------------
(* Fault: the worker is notified, but ready_th is not set.                  *)
RunWithoutReady(c) ==
  LET s == cur[c] IN
  /\ pc[c] = "run"
  /\ worker' = [worker EXCEPT ![s] = CASE @ = "none" -> "test"
                                      [] @ = "wait" -> "wake" [] OTHER -> @]
  /\ Advance(pc, c, "run", "join")
  /\ runs' = [runs EXCEPT ![s] = @ + 1]
  /\ UNCHANGED <<ready, term, stop, rounds, calls>>

(* UCTSearcher::Run: create the thread, which finds ready_th already set,   *)
(* or set ready_th and wake it.                                             *)
Run(c) ==
  LET s == cur[c] IN
  /\ pc[c] = "run"
  /\ IF worker[s] = "none"
     THEN /\ worker' = [worker EXCEPT ![s] = "test"]
          /\ Advance(pc, c, "run", "join")
          /\ UNCHANGED ready
     ELSE /\ ready'  = [ready EXCEPT ![s] = TRUE]
          /\ worker' = [worker EXCEPT ![s] = IF @ = "wait" THEN "wake" ELSE @]
          /\ Advance(Notified(pc, s), c, "run", "join")
  /\ runs' = [runs EXCEPT ![s] = @ + 1]
  /\ UNCHANGED <<term, stop, rounds, calls>>

(* UCTSearcher::Join up to the wait.                                        *)
Join(c) ==
  LET s == cur[c] IN
  /\ pc[c] = "join"
  /\ IF ready[s] /\ ~ term[s]
     THEN pc' = [pc EXCEPT ![c] = "wait"] /\ UNCHANGED cur
     ELSE Advance(pc, c, "join", Return(c))
  /\ UNCHANGED <<ready, term, worker, stop, runs, rounds, calls>>

(* The wait of Join after a wakeup: its predicate is !ready_th || term_th.  *)
JoinWake(c) ==
  LET s == cur[c] IN
  /\ pc[c] = "wake"
  /\ IF ready[s] /\ ~ term[s]
     THEN pc' = [pc EXCEPT ![c] = "wait"] /\ UNCHANGED cur
     ELSE Advance(pc, c, "join", Return(c))
  /\ UNCHANGED <<ready, term, worker, stop, runs, rounds, calls>>

(* Fault: Term notifies nobody.                                             *)
TermSilent ==
  /\ pc["usi"] = "term"
  /\ term'  = [term EXCEPT ![cur["usi"]] = TRUE]
  /\ ready' = [ready EXCEPT ![cur["usi"]] = FALSE]
  /\ pc'    = [pc EXCEPT !["usi"] = "termjoin"]
  /\ UNCHANGED <<worker, cur, stop, runs, rounds, calls>>

(* Fault: Term drops the handle without joining the thread.                 *)
TermDetach ==
  /\ pc["usi"] = "termjoin"
  /\ Advance(pc, "usi", "term", "jointh")
  /\ UNCHANGED <<ready, term, worker, stop, runs, rounds, calls>>

(* The critical section of UCTSearcher::Term.                               *)
Term ==
  LET s == cur["usi"] IN
  /\ pc["usi"] = "term"
  /\ term'   = [term EXCEPT ![s] = TRUE]
  /\ ready'  = [ready EXCEPT ![s] = FALSE]
  /\ worker' = [worker EXCEPT ![s] = IF @ = "wait" THEN "wake" ELSE @]
  /\ pc'     = [Notified(pc, s) EXCEPT !["usi"] = "termjoin"]
  /\ UNCHANGED <<cur, stop, runs, rounds, calls>>

(* handle->join() of Term.                                                  *)
TermJoin ==
  /\ pc["usi"] = "termjoin"
  /\ worker[cur["usi"]] = "exit"
  /\ Advance(pc, "usi", "term", "jointh")
  /\ UNCHANGED <<ready, term, worker, stop, runs, rounds, calls>>

-----------------------------------------------------------------------------
(* The worker: while (!term_th), read without the mutex.                    *)
WorkerTest(s) ==
  /\ worker[s] = "test"
  /\ worker' = [worker EXCEPT ![s] = IF term[s] THEN "exit" ELSE "search"]
  /\ UNCHANGED <<ready, term, pc, cur, stop, runs, rounds, calls>>

(* ParallelUctSearch returns.                                               *)
WorkerSearched(s) ==
  /\ worker[s] = "search"
  /\ worker' = [worker EXCEPT ![s] = "finish"]
  /\ rounds' = [rounds EXCEPT ![s] = @ + 1]
  /\ UNCHANGED <<ready, term, pc, cur, stop, runs, calls>>

(* ready_th = false; notify_all; the first test of the wait's predicate.    *)
WorkerFinish(s) ==
  /\ worker[s] = "finish"
  /\ ready'  = [ready EXCEPT ![s] = FALSE]
  /\ pc'     = Notified(pc, s)
  /\ worker' = [worker EXCEPT ![s] = IF term[s] THEN "test" ELSE "wait"]
  /\ UNCHANGED <<term, cur, stop, runs, rounds, calls>>

(* The wait of the worker after a wakeup: ready_th || term_th.              *)
WorkerWake(s) ==
  /\ worker[s] = "wake"
  /\ worker' = [worker EXCEPT ![s] = IF ready[s] \/ term[s] THEN "test" ELSE "wait"]
  /\ UNCHANGED <<ready, term, pc, cur, stop, runs, rounds, calls>>

(* A spurious wakeup of a thread blocked in a wait.                         *)
SpuriousWakeup ==
  /\ \/ \E s \in Searchers :
          /\ worker[s] = "wait"
          /\ worker' = [worker EXCEPT ![s] = "wake"]
          /\ UNCHANGED pc
     \/ \E c \in Controllers :
          /\ pc[c] = "wait"
          /\ pc' = [pc EXCEPT ![c] = "wake"]
          /\ UNCHANGED worker
  /\ UNCHANGED <<ready, term, cur, stop, runs, rounds, calls>>

-----------------------------------------------------------------------------
(* isready: the search of the initial position that fills the caches, made  *)
(* by the USI thread itself.  A GUI sends it before a game, when no go      *)
(* thread runs.                                                             *)
IsReady ==
  /\ pc["usi"] = "idle" /\ GoEnded
  /\ calls < MaxRounds
  /\ calls' = calls + 1
  /\ pc'    = [pc EXCEPT !["usi"] = "run"]
  /\ UNCHANGED <<ready, term, worker, cur, stop, runs, rounds>>

(* go: StopUctSearch, and then the join of the previous go thread.          *)
GoStop ==
  /\ pc["usi"] = "idle"
  /\ calls > 0 /\ calls < MaxRounds       \* isready has been received
  /\ stop' = TRUE
  /\ pc'   = [pc EXCEPT !["usi"] = "joingo"]
  /\ UNCHANGED <<ready, term, worker, cur, runs, rounds, calls>>

(* go: the previous thread is joined; InitUctSearchStop; the new thread.    *)
GoStart ==
  /\ pc["usi"] = "joingo" /\ GoEnded
  /\ stop'  = FALSE
  /\ calls' = calls + 1
  /\ pc'    = [pc EXCEPT !["usi"] = "idle", !["go"] = "run"]
  /\ UNCHANGED <<ready, term, worker, cur, runs, rounds>>

(* The go thread after UctSearchGenmove: it returns, or, unless the search  *)
(* was stopped, continues from the opponent's position (Stochastic_Ponder). *)
GoPlayed ==
  /\ pc["go"] = "played"
  /\ \/ pc' = [pc EXCEPT !["go"] = "ended"] /\ UNCHANGED calls
     \/ /\ ~ stop /\ calls < MaxRounds
        /\ calls' = calls + 1
        /\ pc' = [pc EXCEPT !["go"] = "run"]
  /\ UNCHANGED <<ready, term, worker, cur, stop, runs, rounds>>

(* stop, and gameover: StopUctSearch and the join of the go thread.         *)
Stop ==
  /\ pc["usi"] = "idle"
  /\ stop' = TRUE
  /\ pc'   = [pc EXCEPT !["usi"] = "joinstop"]
  /\ UNCHANGED <<ready, term, worker, cur, runs, rounds, calls>>

StopJoined ==
  /\ pc["usi"] = "joinstop" /\ GoEnded
  /\ pc' = [pc EXCEPT !["usi"] = "idle"]
  /\ UNCHANGED <<ready, term, worker, cur, stop, runs, rounds, calls>>

(* quit: StopUctSearch; TerminateUctSearch does nothing while search_groups *)
(* is null, that is before the first isready.                               *)
Quit ==
  /\ pc["usi"] = "idle"
  /\ stop' = TRUE
  /\ pc'   = [pc EXCEPT !["usi"] = IF calls = 0 THEN "jointh" ELSE "term"]
  /\ UNCHANGED <<ready, term, worker, cur, runs, rounds, calls>>

(* quit: the go thread is joined and FinalizeUctSearch deletes the groups.  *)
Finalize ==
  /\ pc["usi"] = "jointh" /\ GoEnded
  /\ pc' = [pc EXCEPT !["usi"] = "freed"]
  /\ UNCHANGED <<ready, term, worker, cur, stop, runs, rounds, calls>>

-----------------------------------------------------------------------------
Control(c) == Run(c) \/ Join(c) \/ JoinWake(c)
Worker(s)  == WorkerTest(s) \/ WorkerSearched(s) \/ WorkerFinish(s) \/ WorkerWake(s)
Commands   == IsReady \/ GoStop \/ GoStart \/ Stop \/ StopJoined \/ Quit

(* The process ends when the groups are freed.                              *)
Ended == pc["usi"] = "freed" /\ UNCHANGED vars

Next ==
  \/ \E c \in Controllers : Control(c)
  \/ \E s \in Searchers : Worker(s)
  \/ Commands \/ GoPlayed \/ Term \/ TermJoin \/ Finalize
  \/ SpuriousWakeup
  \/ Ended

(* The threads are scheduled.  A search is only known to return when it is  *)
(* told to stop or was given one playout (isready): a ponder search has no  *)
(* limit.  Which command comes next, and whether one comes, is not fair.    *)
Fairness ==
  /\ \A c \in Controllers : WF_vars(Control(c))
  /\ \A s \in Searchers :
       /\ WF_vars(WorkerTest(s) \/ WorkerFinish(s) \/ WorkerWake(s))
       /\ WF_vars((stop \/ pc["usi"] \in {"run", "join", "wait", "wake"})
                  /\ WorkerSearched(s))
  /\ WF_vars(GoPlayed)
  /\ WF_vars(GoStart) /\ WF_vars(StopJoined)
  /\ WF_vars(Term) /\ WF_vars(TermJoin) /\ WF_vars(Finalize)

Spec     == Init /\ [][Next]_vars
FairSpec == Spec /\ Fairness

-----------------------------------------------------------------------------
TypeOK ==
  /\ ready  \in [Searchers -> BOOLEAN]
  /\ term   \in [Searchers -> BOOLEAN]
  /\ worker \in [Searchers -> WorkerControl]
  /\ pc     \in [Controllers -> PcControl]
  /\ cur    \in [Controllers -> Searchers]
  /\ stop   \in BOOLEAN
  /\ runs   \in [Searchers -> Nat]
  /\ rounds \in [Searchers -> Nat]
  /\ calls  \in Nat

(* c is past the Join of s in the call of UctSearchGenmove it is executing, *)
(* or has returned from it.                                                 *)
InGenmove(c) == pc[c] \in {"run", "join", "wait", "wake"}
Joined(c, s) ==
  \/ pc[c] \in {"join", "wait", "wake"} /\ s < cur[c]
  \/ pc[c] = "played"

(* UctSearchGenmove reads the tree after Join, and goUct then moves on to   *)
(* another position: the searcher has finished the round it was started     *)
(* for, has made one round for each Run, and has not begun another.  Only   *)
(* quit, which terminates the pool without waiting for the go thread, lets  *)
(* Join return early.                                                       *)
JoinMeansDone ==
  \A c \in Controllers, s \in Searchers :
    Joined(c, s) /\ ~ term[s] => /\ worker[s] \in {"wait", "wake"}
                                 /\ rounds[s] = runs[s]

(* No thread but the USI thread is left to use the groups that quit deletes.*)
NoUseAfterFree ==
  pc["usi"] = "freed" => /\ GoEnded
                         /\ \A s \in Searchers : worker[s] \in {"none", "exit"}

-----------------------------------------------------------------------------
(* The inductive invariant.  It relates ready_th to where the worker is and *)
(* to the rounds it owes, and the controllers to the searchers their loops  *)
(* have passed.                                                             *)

(* ready_th says that a round is owed; without it the worker is parked.     *)
RoundInv ==
  \A s \in Searchers :
    IF worker[s] = "none"
    THEN ready[s] /\ ~ term[s] /\ runs[s] = 0 /\ rounds[s] = 0
    ELSE ~ term[s] =>
           /\ worker[s] # "exit"
           /\ ready[s]   => runs[s] = rounds[s] + (IF worker[s] = "finish" THEN 0 ELSE 1)
           /\ ~ ready[s] => worker[s] \in {"wait", "wake"} /\ runs[s] = rounds[s]

(* No round is under way.                                                   *)
Quiet(s) == worker[s] = "none" \/ ~ ready[s]

(* One controller drives the pool at a time, and where its loop is.         *)
DriverInv ==
  /\ InGenmove("usi") => GoEnded
  /\ pc["usi"] # "played"
  /\ (\A c \in Controllers : ~ InGenmove(c)) =>
       \A s \in Searchers : ~ term[s] => Quiet(s)
  /\ \A c \in Controllers, s \in Searchers : ~ term[s] =>
       /\ pc[c] = "run" /\ cur[c] <= s => Quiet(s)
       /\ Joined(c, s) => ~ ready[s]

(* What quit has terminated, and that it starts from the first searcher.    *)
QuitInv ==
  /\ pc["usi"] \notin {"run", "join", "wait", "wake", "term", "termjoin"} => cur["usi"] = 1
  /\ pc["usi"] \in {"term", "termjoin"} =>
       \A s \in Searchers : s < cur["usi"] => worker[s] = "exit"
  /\ pc["usi"] \in {"jointh", "freed"} =>
       calls = 0 \/ \A s \in Searchers : worker[s] = "exit"
  /\ calls = 0 => /\ pc["go"] = "none" /\ ~ InGenmove("usi")
                  /\ \A s \in Searchers : worker[s] = "none"
  /\ calls > 0 => \A s \in Searchers :
       worker[s] = "none" => pc["usi"] = "run" /\ cur["usi"] <= s
  /\ pc["usi"] \in {"term", "termjoin", "joingo"} => calls > 0
  /\ pc["usi"] = "freed" => GoEnded

IInv == TypeOK /\ RoundInv /\ DriverInv /\ QuitInv

-----------------------------------------------------------------------------
(* Every quit ends, and every stop and the stop at the start of go join the *)
(* go thread: no notification is lost between the USI thread, the go thread *)
(* and the workers, whatever they were doing when the command came.         *)
QuitEnds == (pc["usi"] \in {"term", "jointh"}) ~> (pc["usi"] = "freed")
StopEnds == (pc["usi"] \in {"joinstop", "joingo"}) ~> (pc["usi"] = "idle")
CommandsEnd == QuitEnds /\ StopEnds
=============================================================================
