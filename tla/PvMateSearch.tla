---------------------------- MODULE PvMateSearch ----------------------------
(***************************************************************************)
(* The threads that look for mates along the principal variation while the *)
(* UCT search runs (usi/PvMateSearch.cpp, THREAD_POOL builds): Run, Stop,  *)
(* Join and Term, the walk of SearchInner down the tree, and the set of    *)
(* children that were searched, which all threads share.  UctSearchGenmove *)
(* starts and stops them; StopUctSearch stops them from the USI thread,    *)
(* and quit terminates them there, wherever the go thread is.              *)
(*                                                                         *)
(* The other stop flag, that of df-pn, only makes a df-pn search give up   *)
(* sooner, which it may do at any moment here.                             *)
(***************************************************************************)
EXTENDS Naturals, FiniteSets

CONSTANTS
  Workers,     (* pv_mate_searchers                                          *)
  Children,    (* the addresses of children (child_node_t) in the tree       *)
  Top,         (* the head of the tree                                       *)
  Kids,        (* Kids[c]: the children of the node after c, or of the head  *)
  MaxSearches, (* bound: calls of UctSearchGenmove                           *)
  MaxStops     (* bound: calls of StopUctSearch but for quit                 *)

ASSUME TreeAssumption  == Top \notin Children /\ Kids \in [Children \cup {Top} -> SUBSET Children]
ASSUME BoundAssumption == Workers # {} /\ MaxSearches \in Nat /\ MaxStops \in Nat

VARIABLES
  stop, term, ready, \* stop[w], term_th[w], ready_th[w]
  pc, at,    \* where thread w is, at which child (or the head)
  searched,  \* PvMateSearcher::searched
  won,       \* the children with SetWin
  go, goAt,  \* where the go thread is in UctSearchGenmove, the searchers left to visit
  usi, usiAt, \* the same for the USI thread in StopUctSearch and quit
  searches, stops

threads == <<ready, pc, at>>
found   == <<searched, won>>
genmove == <<go, goAt, searches>>
command == <<usi, usiAt, stops>>
vars    == <<stop, term, threads, found, genmove, command>>

Controls    == {"none", "test", "loop", "inner", "chosen", "dfpn", "failed", "park", "wait", "exit"}
GoControls  == {"idle", "start", "unstop", "run", "search", "stop", "join"}
UsiControls == {"idle", "stop", "quit", "term", "termjoin", "terminated"}

Init ==
  /\ stop = [w \in Workers |-> FALSE] /\ term = [w \in Workers |-> FALSE]
  /\ ready = [w \in Workers |-> TRUE]
  /\ pc = [w \in Workers |-> "none"] /\ at = [w \in Workers |-> Top]
  /\ searched = {} /\ won = {}
  /\ go = "idle" /\ goAt = {} /\ searches = 0
  /\ usi = "idle" /\ usiAt = {} /\ stops = 0

To(w, control) == pc' = [pc EXCEPT ![w] = control]

(* A loop over the searchers is done with w: what is left, and where it     *)
(* goes on.                                                                 *)
Left(S, w)              == IF S = {w} THEN Workers ELSE S \ {w}
Onward(S, w, here, then) == IF S = {w} THEN then ELSE here
GoVisited(w, then) ==
  goAt' = Left(goAt, w) /\ go' = Onward(goAt, w, go, then) /\ UNCHANGED searches

-----------------------------------------------------------------------------
(* isready, go, or goUct on its own when it goes on after its move, start a *)
(* search; goUct looks at uct_search_stop first, which StopUctSearch has    *)
(* set when quit begins to terminate the threads.                           *)
Start ==
  /\ go = "idle" /\ searches < MaxSearches /\ usi \notin {"term", "termjoin", "terminated"}
  /\ go' = "start" /\ searches' = searches + 1
  /\ UNCHANGED <<stop, term, threads, found, goAt, command>>

(* UctSearchGenmove: Stop(false) before the tree is reset, Run, and Stop    *)
(* and Join when the UCT searchers have ended.                              *)
Genmove ==
  /\ go = "start"
  /\ go' = "unstop" /\ goAt' = Workers
  /\ UNCHANGED <<stop, term, threads, found, searches, command>>

SetStop(w, b) == stop' = [stop EXCEPT ![w] = b]

Unstop(w) ==
  /\ go = "unstop" /\ w \in goAt
  /\ SetStop(w, FALSE) /\ GoVisited(w, "run")
  /\ UNCHANGED <<term, threads, found, command>>

(* The position has no move (that of isready has).                          *)
NoMove ==
  /\ go = "run" /\ goAt = Workers /\ searches > 1
  /\ go' = "idle"
  /\ UNCHANGED <<stop, term, threads, found, goAt, searches, command>>

Run(w) ==
  /\ go = "run" /\ w \in goAt
  /\ IF pc[w] = "none"
     THEN To(w, "test") /\ UNCHANGED ready
     ELSE ready' = [ready EXCEPT ![w] = TRUE] /\ UNCHANGED pc
  /\ GoVisited(w, "search")
  /\ UNCHANGED <<stop, term, at, found, command>>

(* The UCT search ends.                                                     *)
Searched ==
  /\ go = "search" /\ go' = "stop"
  /\ UNCHANGED <<stop, term, threads, found, goAt, searches, command>>

StopAfter(w) ==
  /\ go = "stop" /\ w \in goAt
  /\ SetStop(w, TRUE) /\ GoVisited(w, "join")
  /\ UNCHANGED <<term, threads, found, command>>

(* Fault: Join does not wait.                                               *)
JoinAtOnce(w) ==
  /\ go = "join" /\ w \in goAt
  /\ GoVisited(w, "idle")
  /\ UNCHANGED <<stop, term, threads, found, command>>

(* Join waits for !ready_th || term_th.                                     *)
Join(w) ==
  /\ go = "join" /\ w \in goAt
  /\ ~ ready[w] \/ term[w]
  /\ GoVisited(w, "idle")
  /\ UNCHANGED <<stop, term, threads, found, command>>

-----------------------------------------------------------------------------
(* StopUctSearch, by stop, go or the mate thread, or by quit.  The first    *)
(* UctSearchGenmove is that of isready, which the USI thread makes itself.  *)
Started == searches > 1 \/ (searches = 1 /\ go = "idle")

StopUctSearch ==
  /\ usi = "idle" /\ Started /\ usiAt' = Workers
  /\ \/ usi' = "stop" /\ stops < MaxStops /\ stops' = stops + 1
     \/ usi' = "quit" /\ UNCHANGED stops
  /\ UNCHANGED <<stop, term, threads, found, genmove>>

StopNext(w) ==
  /\ usi \in {"stop", "quit"} /\ w \in usiAt
  /\ SetStop(w, TRUE)
  /\ usiAt' = Left(usiAt, w)
  /\ usi' = Onward(usiAt, w, usi, IF usi = "stop" THEN "idle" ELSE "term")
  /\ UNCHANGED <<term, threads, found, genmove, stops>>

(* quit: TerminateUctSearch.                                                *)
Term(w) ==
  /\ usi = "term" /\ w \in usiAt
  /\ term' = [term EXCEPT ![w] = TRUE] /\ ready' = [ready EXCEPT ![w] = FALSE]
  /\ usi' = "termjoin" /\ usiAt' = usiAt
  /\ UNCHANGED <<stop, pc, at, found, genmove, stops>>

TermJoin(w) ==
  /\ usi = "termjoin" /\ w \in usiAt /\ term[w]
  /\ pc[w] = "exit"
  /\ usiAt' = Left(usiAt, w) /\ usi' = Onward(usiAt, w, "term", "terminated")
  /\ UNCHANGED <<stop, term, threads, found, genmove, stops>>

-----------------------------------------------------------------------------
(* The thread: while (!term_th), while (!stop) a walk from the head.        *)
Test(w) ==
  /\ pc[w] = "test" /\ To(w, IF term[w] THEN "exit" ELSE "loop")
  /\ UNCHANGED <<stop, term, ready, at, found, genmove, command>>

Loop(w) ==
  /\ pc[w] = "loop" /\ To(w, IF stop[w] THEN "park" ELSE "inner")
  /\ at' = [at EXCEPT ![w] = Top]
  /\ UNCHANGED <<stop, term, ready, found, genmove, command>>

(* Fault: the thread parks without saying so.                               *)
ParkReady(w) ==
  /\ pc[w] = "park" /\ To(w, "wait")
  /\ UNCHANGED <<stop, term, ready, at, found, genmove, command>>

Park(w) ==
  /\ pc[w] = "park" /\ To(w, "wait")
  /\ ready' = [ready EXCEPT ![w] = FALSE]
  /\ UNCHANGED <<stop, term, at, found, genmove, command>>

Wake(w) ==
  /\ pc[w] = "wait" /\ (ready[w] \/ term[w]) /\ To(w, "test")
  /\ UNCHANGED <<stop, term, ready, at, found, genmove, command>>

(* SearchInner at a node: back to the head if it is not evaluated or its    *)
(* best move is decided, otherwise that move, which may be any.             *)
Inner(w) ==
  /\ pc[w] = "inner"
  /\ \/ To(w, "loop") /\ UNCHANGED at
     \/ /\ ~ stop[w]
        /\ \E c \in Kids[at[w]] \ won : at' = [at EXCEPT ![w] = c]
        /\ To(w, "chosen")
  /\ UNCHANGED <<stop, term, ready, found, genmove, command>>

(* Fault: the child is not looked up.                                       *)
ChosenAgain(w) ==
  /\ pc[w] = "chosen"
  /\ IF stop[w] THEN To(w, "loop") /\ UNCHANGED searched
     ELSE To(w, "dfpn") /\ searched' = searched \cup {at[w]}
  /\ UNCHANGED <<stop, term, ready, at, won, genmove, command>>

(* The move is made: a child that nobody has searched is searched, below    *)
(* another one the walk goes on.                                            *)
Chosen(w) ==
  /\ pc[w] = "chosen"
  /\ IF stop[w] THEN To(w, "loop") /\ UNCHANGED searched
     ELSE IF at[w] \notin searched THEN To(w, "dfpn") /\ searched' = searched \cup {at[w]}
     ELSE To(w, IF Kids[at[w]] # {} THEN "inner" ELSE "loop") /\ UNCHANGED searched
  /\ UNCHANGED <<stop, term, ready, at, won, genmove, command>>

(* df-pn finds a mate; or it finds none, or is told to stop before it can.  *)
Dfpn(w) ==
  /\ pc[w] = "dfpn"
  /\ \/ To(w, "loop") /\ won' = won \cup {at[w]}
     \/ To(w, "failed") /\ UNCHANGED won
  /\ UNCHANGED <<stop, term, ready, at, searched, genmove, command>>

(* No mate: if it was stopped, the child counts as not searched.            *)
Failed(w) ==
  /\ pc[w] = "failed" /\ To(w, "loop")
  /\ searched' = IF stop[w] THEN searched \ {at[w]} ELSE searched
  /\ UNCHANGED <<stop, term, ready, at, won, genmove, command>>

-----------------------------------------------------------------------------
Thread(w)  == \/ Test(w) \/ Loop(w) \/ Park(w) \/ Wake(w)
              \/ Inner(w) \/ Chosen(w) \/ Dfpn(w) \/ Failed(w)
Drive(w)   == Unstop(w) \/ Run(w) \/ StopAfter(w) \/ Join(w)
Command(w) == StopNext(w) \/ Term(w) \/ TermJoin(w)

(* The bounds are reached, or the engine has quit.                          *)
Ended == go = "idle" /\ usi \in {"idle", "terminated"} /\ UNCHANGED vars

Next ==
  \/ Start \/ Genmove \/ NoMove \/ Searched \/ StopUctSearch
  \/ \E w \in Workers : Thread(w) \/ Drive(w) \/ Command(w)
  \/ Ended

(* All threads are scheduled, and the UCT search ends (UctSearch).          *)
Fairness ==
  /\ WF_vars(Genmove) /\ WF_vars(Searched)
  /\ \A w \in Workers : WF_vars(Thread(w)) /\ WF_vars(Drive(w)) /\ WF_vars(Command(w))

Spec     == Init /\ [][Next]_vars
FairSpec == Spec /\ Fairness

-----------------------------------------------------------------------------
TypeOK ==
  /\ {stop, term, ready} \subseteq [Workers -> BOOLEAN]
  /\ pc \in [Workers -> Controls] /\ at \in [Workers -> Children \cup {Top}]
  /\ searched \in SUBSET Children /\ won \in SUBSET Children
  /\ go \in GoControls /\ goAt \in SUBSET Workers
  /\ usi \in UsiControls /\ usiAt \in SUBSET Workers
  /\ searches \in Nat /\ stops \in Nat

(* Outside Run and Join no thread walks in the tree: UctSearchGenmove then  *)
(* resets it and reads the flags of the head's children.  Only quit lets    *)
(* Join return early.                                                       *)
Outside(w) ==
  \/ go \in {"idle", "start", "unstop"}
  \/ go = "run" /\ w \in goAt
  \/ go = "join" /\ w \notin goAt
NoWalkOutside ==
  \A w \in Workers : Outside(w) /\ ~ term[w] => pc[w] \in {"none", "wait"}

(* No two threads search the same child, and a child that is being searched *)
(* is known as such to the others until its thread is done with it, in      *)
(* whatever order searches end, are stopped and begin again.                *)
Searching(w) == pc[w] \in {"dfpn", "failed"}
SearchedOnce ==
  \A w \in Workers : Searching(w) =>
    /\ at[w] \in searched
    /\ \A v \in Workers \ {w} : Searching(v) => at[v] # at[w]

(* UctSearchGenmove gets past the joins, whoever sets and resets the stop   *)
(* flags when and whatever quit does, and quit past those of Term, although *)
(* UctSearchGenmove may reset the flags after quit has set them.            *)
GenmoveEnds == go # "idle" ~> go = "idle"
QuitEnds == usi = "quit" ~> usi = "terminated"
JoinsEnd == GenmoveEnds /\ QuitEnds
=============================================================================
