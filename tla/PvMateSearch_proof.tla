------------------------- MODULE PvMateSearch_proof -------------------------
(***************************************************************************)
(* Theorem about the mate search threads, for any number of threads, any   *)
(* tree and any number of searches.  Only the actions of a thread change   *)
(* where it is or what counts as searched; those that the go thread and    *)
(* the USI thread make only start a thread.                                *)
(***************************************************************************)
EXTENDS PvMateSearch, TLAPS

(* What the proof needs to know of the types.                               *)
Walks == pc \in [Workers -> Controls] /\ at \in [Workers -> Children \cup {Top}]

IInv == Walks /\ SearchedOnce

LEMMA ThreadStep == ASSUME IInv, NEW w \in Workers, Thread(w) PROVE IInv'
<1> USE DEF IInv, Walks, To
<1>1. ASSUME NEW c \in Controls \ {"dfpn", "failed"},
             pc' = [pc EXCEPT ![w] = c], at' \in [Workers -> Children \cup {Top}],
             \A v \in Workers : v # w => at'[v] = at[v],
             searched \subseteq searched' \cup (IF Searching(w) THEN {at[w]} ELSE {})
      PROVE  IInv'
  BY <1>1 DEF SearchedOnce, Searching
<1>2. CASE Test(w)
  <2>1. PICK c \in {"exit", "loop"} : pc' = [pc EXCEPT ![w] = c]
    BY <1>2 DEF Test
  <2>2. at' = at /\ searched' = searched
    BY <1>2 DEF Test, found
  <2> QED BY <1>1, <2>1, <2>2 DEF Controls
<1>3. CASE Loop(w)
  <2>1. PICK c \in {"park", "inner"} : pc' = [pc EXCEPT ![w] = c]
    BY <1>3 DEF Loop
  <2>2. at' = [at EXCEPT ![w] = Top] /\ searched' = searched
    BY <1>3 DEF Loop, found
  <2> QED BY <1>1, <2>1, <2>2 DEF Controls
<1>4. CASE Park(w) \/ Wake(w)
  <2>1. PICK c \in {"wait", "test"} : pc' = [pc EXCEPT ![w] = c]
    BY <1>4 DEF Park, Wake
  <2>2. at' = at /\ searched' = searched
    BY <1>4 DEF Park, Wake, found
  <2> QED BY <1>1, <2>1, <2>2 DEF Controls
<1>5. CASE Inner(w)
  <2>1. PICK c \in {"loop", "chosen"} : pc' = [pc EXCEPT ![w] = c]
    BY <1>5 DEF Inner
  <2>2. searched' = searched
    BY <1>5 DEF Inner, found
  <2>3. at' = at \/ \E k \in Kids[at[w]] \ won : at' = [at EXCEPT ![w] = k]
    BY <1>5 DEF Inner
  <2>4. Kids[at[w]] \subseteq Children
    BY TreeAssumption
  <2>5. at' \in [Workers -> Children \cup {Top}] /\ \A v \in Workers : v # w => at'[v] = at[v]
    BY <2>3, <2>4
  <2> QED BY <1>1, <2>1, <2>2, <2>5 DEF Controls
<1>6. CASE Chosen(w)
  <2>1. CASE pc' = [pc EXCEPT ![w] = "dfpn"] /\ at[w] \notin searched
             /\ searched' = searched \cup {at[w]}
    <3>1. pc[w] = "chosen" /\ at' = at
      BY <1>6 DEF Chosen
    <3>2. Walks'
      BY <2>1, <3>1 DEF Controls
    <3>3. \A v \in Workers : Searching(v)' => v = w \/ Searching(v)
      BY <2>1 DEF Searching
    <3>4. \A v \in Workers : Searching(v) => at[v] # at[w]
      BY <2>1 DEF SearchedOnce
    <3>5. SearchedOnce'
      BY <2>1, <3>1, <3>3, <3>4 DEF SearchedOnce
    <3> QED BY <3>2, <3>5
  <2>2. CASE ~ (at[w] \notin searched /\ pc' = [pc EXCEPT ![w] = "dfpn"])
    <3>1. PICK c \in {"loop", "inner"} : pc' = [pc EXCEPT ![w] = c]
      BY <1>6, <2>2 DEF Chosen
    <3>2. at' = at /\ searched' = searched
      BY <1>6, <2>2 DEF Chosen
    <3> QED BY <1>1, <3>1, <3>2 DEF Controls
  <2> QED BY <1>6, <2>1, <2>2 DEF Chosen
<1>7. CASE Dfpn(w)
  <2>1. /\ Searching(w) /\ at' = at /\ searched' = searched
        /\ \E c \in {"loop", "failed"} : pc' = [pc EXCEPT ![w] = c]
    BY <1>7 DEF Dfpn, Searching
  <2>2. \A v \in Workers : Searching(v)' => Searching(v)
    BY <2>1 DEF Searching
  <2>3. Walks'
    BY <2>1 DEF Controls
  <2>4. SearchedOnce'
    BY <2>1, <2>2 DEF SearchedOnce
  <2> QED BY <2>3, <2>4
<1>8. CASE Failed(w)
  <2>1. /\ Searching(w) /\ at' = at /\ pc' = [pc EXCEPT ![w] = "loop"]
        /\ searched' = searched \/ searched' = searched \ {at[w]}
    BY <1>8 DEF Failed, Searching
  <2> QED BY <1>1, <2>1 DEF Controls
<1> QED BY <1>2, <1>3, <1>4, <1>5, <1>6, <1>7, <1>8 DEF Thread

(* The other threads at most start one that has not been started yet.       *)
LEMMA OtherStep ==
  ASSUME IInv, UNCHANGED <<at, searched>>,
         \/ pc' = pc
         \/ \E w \in Workers : pc[w] = "none" /\ pc' = [pc EXCEPT ![w] = "test"]
  PROVE  IInv'
<1>1. Walks'
  BY DEF IInv, Walks, Controls
<1>2. \A v \in Workers : Searching(v)' <=> Searching(v)
  BY DEF IInv, Walks, Searching
<1>3. SearchedOnce'
  BY <1>2 DEF IInv, SearchedOnce
<1> QED BY <1>1, <1>3 DEF IInv

LEMMA Step == ASSUME IInv, [Next]_vars PROVE IInv'
<1>1. ASSUME NEW w \in Workers, Thread(w) PROVE IInv'
  BY <1>1, ThreadStep
<1>2. ASSUME NEW w \in Workers, Drive(w) PROVE IInv'
  <2>1. CASE Run(w)
    BY <2>1, OtherStep DEF Run, To, found
  <2>2. CASE Unstop(w) \/ StopAfter(w) \/ Join(w)
    BY <2>2, OtherStep DEF Unstop, StopAfter, Join, threads, found
  <2> QED BY <1>2, <2>1, <2>2 DEF Drive
<1>3. ASSUME NEW w \in Workers, Command(w) PROVE IInv'
  BY <1>3, OtherStep DEF Command, StopNext, Term, TermJoin, threads, found
<1>4. CASE Start \/ Genmove \/ NoMove \/ Searched \/ StopUctSearch
  BY <1>4, OtherStep DEF Start, Genmove, NoMove, Searched, StopUctSearch, threads, found
<1>5. CASE UNCHANGED vars
  BY <1>5, OtherStep DEF vars, threads, found
<1> QED BY <1>1, <1>2, <1>3, <1>4, <1>5 DEF Next, Ended

(* No two threads search the same child, and a child that is being searched *)
(* counts as searched until its thread is done, for any number of threads,  *)
(* any tree, and whoever sets the stop flags when (SearchedOnce).           *)
THEOREM ChildrenSearchedOnce == Spec => []SearchedOnce
<1>1. Init => IInv
  BY DEF Init, IInv, Walks, Controls, SearchedOnce, Searching
<1>2. IInv /\ [Next]_vars => IInv'
  BY Step
<1> QED BY <1>1, <1>2, PTL DEF Spec, IInv

-----------------------------------------------------------------------------
(* A thread that says it is not ready waits, and outside Run and Join one   *)
(* that was started waits and says so: only Run wakes it.                   *)
Flags == /\ ready \in [Workers -> BOOLEAN] /\ term \in [Workers -> BOOLEAN]
         /\ pc \in [Workers -> Controls] /\ goAt \in SUBSET Workers
Parked(w) == ~ term[w] =>
  /\ ~ ready[w] => pc[w] = "wait"
  /\ Outside(w) => pc[w] = "none" \/ (pc[w] = "wait" /\ ~ ready[w])
Parking == Flags /\ \A w \in Workers : Parked(w)

(* A thread stays outside or inside, whatever it does itself.               *)
LEMMA ThreadParks == ASSUME Parking, NEW w \in Workers, Thread(w) PROVE Parking'
<1> USE DEF Parking, Flags, To
<1>1. UNCHANGED <<go, goAt, term>>
  BY DEF Thread, Test, Loop, Park, Wake, Inner, Chosen, Dfpn, Failed, genmove
<1>2. \A v \in Workers : Outside(v)' <=> Outside(v)
  BY <1>1 DEF Outside
<1>3. CASE Park(w)
  <2>1. pc' = [pc EXCEPT ![w] = "wait"] /\ ready' = [ready EXCEPT ![w] = FALSE]
    BY <1>3 DEF Park
  <2>2. Flags'
    BY <1>1, <2>1 DEF Controls
  <2>3. \A v \in Workers : Parked(v)'
    BY <1>1, <1>2, <2>1 DEF Parked
  <2> QED BY <2>2, <2>3
<1>4. CASE Wake(w)
  <2>1. /\ pc' = [pc EXCEPT ![w] = "test"] /\ ready' = ready
        /\ pc[w] = "wait" /\ (ready[w] \/ term[w])
    BY <1>4 DEF Wake
  <2>2. Flags'
    BY <1>1, <2>1 DEF Controls
  <2>3. \A v \in Workers : Parked(v)'
    BY <1>1, <1>2, <2>1 DEF Parked
  <2> QED BY <2>2, <2>3
<1>5. CASE Test(w) \/ Loop(w) \/ Inner(w) \/ Chosen(w) \/ Dfpn(w) \/ Failed(w)
  <2>1. /\ pc[w] \notin {"none", "wait"} /\ ready' = ready
        /\ \E c \in Controls : pc' = [pc EXCEPT ![w] = c]
    BY <1>5 DEF Test, Loop, Inner, Chosen, Dfpn, Failed, Controls
  <2>2. Flags'
    BY <1>1, <2>1
  <2>3. \A v \in Workers : Parked(v)'
    BY <1>1, <1>2, <2>1 DEF Parked
  <2> QED BY <2>2, <2>3
<1> QED BY <1>3, <1>4, <1>5 DEF Thread

LEMMA DriveParks == ASSUME Parking, NEW w \in Workers, Drive(w) PROVE Parking'
<1> USE DEF Parking, Flags
<1>1. CASE Run(w)
  <2>1. /\ go = "run" /\ w \in goAt /\ term' = term
        /\ go' \in {"run", "search"}
        /\ goAt' = Left(goAt, w) /\ (go' = "run" => goAt' = goAt \ {w})
    BY <1>1 DEF Run, GoVisited, Onward, Left
  <2>2. \/ pc[w] = "none" /\ pc' = [pc EXCEPT ![w] = "test"] /\ ready' = ready
        \/ pc[w] # "none" /\ pc' = pc /\ ready' = [ready EXCEPT ![w] = TRUE]
    BY <1>1 DEF Run, To
  <2>3. Flags'
    BY <2>1, <2>2 DEF Controls, Left
  <2>4. \A v \in Workers : Outside(v)' => v # w /\ Outside(v)
    BY <2>1 DEF Outside
  <2>5. \A v \in Workers : Parked(v)'
    BY <2>1, <2>2, <2>4 DEF Parked
  <2> QED BY <2>3, <2>5
<1>2. CASE Unstop(w) \/ StopAfter(w)
  <2>1. /\ UNCHANGED <<term, ready, pc>> /\ goAt' = Left(goAt, w)
        /\ \/ go = "unstop" /\ (go' = "unstop" \/ go' = "run")
           \/ go = "stop" /\ (go' = "stop" \/ (go' = "join" /\ goAt' = Workers))
    BY <1>2 DEF Unstop, StopAfter, GoVisited, Onward, Left, threads
  <2>2. Flags'
    BY <2>1 DEF Left
  <2>3. \A v \in Workers : Outside(v)' => Outside(v)
    BY <2>1 DEF Outside
  <2>4. \A v \in Workers : Parked(v)'
    BY <2>1, <2>3 DEF Parked
  <2> QED BY <2>2, <2>4
<1>3. CASE Join(w)
  <2>1. /\ go = "join" /\ w \in goAt /\ (~ ready[w] \/ term[w])
        /\ UNCHANGED <<term, ready, pc>>
        /\ \/ go' = "join" /\ goAt' = goAt \ {w}
           \/ go' = "idle" /\ goAt' = Workers /\ goAt = {w}
    BY <1>3 DEF Join, GoVisited, Onward, Left, threads
  <2>2. Flags'
    BY <2>1
  <2>3. \A v \in Workers : Outside(v)' => v = w \/ Outside(v)
    BY <2>1 DEF Outside
  <2>4. \A v \in Workers : Parked(v)'
    BY <2>1, <2>3 DEF Parked
  <2> QED BY <2>2, <2>4
<1> QED BY <1>1, <1>2, <1>3 DEF Drive

LEMMA StepParks == ASSUME Parking, [Next]_vars PROVE Parking'
<1>1. ASSUME NEW w \in Workers, Command(w) PROVE Parking'
  <2>1. CASE Term(w)
    <3>1. /\ term' = [term EXCEPT ![w] = TRUE] /\ ready' = [ready EXCEPT ![w] = FALSE]
          /\ UNCHANGED <<pc, go, goAt>>
      BY <2>1 DEF Term, genmove
    <3> QED BY <3>1 DEF Parking, Flags, Parked, Outside
  <2>2. CASE StopNext(w) \/ TermJoin(w)
    BY <2>2 DEF StopNext, TermJoin, Parking, Flags, Parked, Outside, threads, genmove
  <2> QED BY <1>1, <2>1, <2>2 DEF Command
<1>2. CASE Start \/ Genmove \/ NoMove \/ Searched \/ StopUctSearch
  <2>1. /\ UNCHANGED <<term, ready, pc>> /\ goAt' \in {goAt, Workers}
        /\ \/ go' = go /\ goAt' = goAt
           \/ go = "search" /\ go' = "stop"
           \/ go \in {"idle", "start"} /\ go' \in {"start", "unstop"}
           \/ go = "run" /\ goAt = Workers /\ go' = "idle"
    BY <1>2 DEF Start, Genmove, NoMove, Searched, StopUctSearch, threads, genmove
  <2>2. \A v \in Workers : Outside(v)' => Outside(v)
    BY <2>1 DEF Outside
  <2> QED BY <2>1, <2>2 DEF Parking, Flags, Parked
<1>3. CASE UNCHANGED vars
  BY <1>3 DEF vars, threads, genmove, Parking, Flags, Parked, Outside
<1> QED BY <1>1, <1>2, <1>3, ThreadParks, DriveParks DEF Next, Ended

(* Outside Run and Join no thread that quit has not told to end is in the   *)
(* tree, for any number of threads, any tree, and however stop, quit and    *)
(* the searches interleave (NoWalkOutside).                                 *)
THEOREM TreeIsLeftAlone == Spec => []NoWalkOutside
<1>1. Init => Parking
  BY DEF Init, Parking, Flags, Parked, Controls
<1>2. Parking => NoWalkOutside
  BY DEF Parking, Parked, NoWalkOutside
<1> QED BY <1>1, <1>2, StepParks, PTL DEF Spec
=============================================================================
