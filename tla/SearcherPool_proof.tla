-------------------------- MODULE SearcherPool_proof --------------------------
(***************************************************************************)
(* Theorems about the pool of search threads, for any number of searchers  *)
(* and of searches: IInv of SearcherPool is inductive, and gives type      *)
(* correctness, JoinMeansDone and NoUseAfterFree.                          *)
(***************************************************************************)
EXTENDS SearcherPool, TLAPS

(* Advance moves one controller: to the next searcher, or past the last.    *)
LEMMA AdvanceCases ==
  ASSUME NEW p \in [Controllers -> PcControl], NEW c \in Controllers,
         NEW here \in PcControl, NEW then \in PcControl,
         cur \in [Controllers -> Searchers], Advance(p, c, here, then)
  PROVE  /\ pc' \in [Controllers -> PcControl]
         /\ cur' \in [Controllers -> Searchers]
         /\ \A d \in Controllers : d # c => pc'[d] = p[d] /\ cur'[d] = cur[d]
         /\ \/ cur[c] = N /\ cur'[c] = 1 /\ pc'[c] = then
            \/ cur[c] < N /\ cur'[c] = cur[c] + 1 /\ pc'[c] = here
<1> USE NAssumption DEF Searchers
<1>1. CASE cur[c] = N
  BY <1>1 DEF Advance
<1>2. CASE cur[c] # N
  BY <1>2 DEF Advance
<1> QED BY <1>1, <1>2

(* notify_all only moves controllers from "wait" to "wake".                 *)
LEMMA NotifiedCases ==
  ASSUME pc \in [Controllers -> PcControl], NEW s
  PROVE  /\ Notified(pc, s) \in [Controllers -> PcControl]
         /\ \A c \in Controllers :
              \/ Notified(pc, s)[c] = pc[c]
              \/ pc[c] = "wait" /\ Notified(pc, s)[c] = "wake"
BY DEF Notified, PcControl

LEMMA InitIInv == Init => IInv
<1> SUFFICES ASSUME Init PROVE IInv
  OBVIOUS
<1> USE NAssumption DEF Init, Searchers, Controllers
<1>1. TypeOK
  <2>1. pc \in [Controllers -> PcControl]
    BY DEF PcControl
  <2>2. worker \in [Searchers -> WorkerControl] /\ cur \in [Controllers -> Searchers]
    BY DEF WorkerControl
  <2>3. ready \in [Searchers -> BOOLEAN] /\ term \in [Searchers -> BOOLEAN]
    OBVIOUS
  <2>4. runs \in [Searchers -> Nat] /\ rounds \in [Searchers -> Nat]
    OBVIOUS
  <2> QED BY <2>1, <2>2, <2>3, <2>4 DEF TypeOK
<1>2. RoundInv
  BY DEF RoundInv
<1>3. DriverInv
  BY DEF DriverInv, InGenmove, Joined, Quiet, GoEnded
<1>4. QuitInv
  BY DEF QuitInv, InGenmove, GoEnded
<1> QED BY <1>1, <1>2, <1>3, <1>4 DEF IInv

-----------------------------------------------------------------------------
(* One lemma per group of actions: each conjunct of IInv is preserved.      *)

LEMMA RunStep == ASSUME IInv, NEW c \in Controllers, Run(c) PROVE IInv'
<1> DEFINE s == cur[c]
<1> USE NAssumption DEF IInv, TypeOK, Run, Searchers, Controllers, GoEnded
<1>1. s \in Searchers /\ pc[c] = "run" /\ UNCHANGED <<term, stop, rounds, calls>>
  OBVIOUS
<1>2. PICK p \in [Controllers -> PcControl] :
        /\ Advance(p, c, "run", "join")
        /\ \A d \in Controllers : \/ p[d] = pc[d]
                                  \/ pc[d] = "wait" /\ p[d] = "wake"
  BY NotifiedCases DEF PcControl
<1>3. /\ pc' \in [Controllers -> PcControl]
      /\ cur' \in [Controllers -> Searchers]
      /\ \A d \in Controllers : d # c => pc'[d] = p[d] /\ cur'[d] = cur[d]
      /\ \/ s = N /\ cur'[c] = 1 /\ pc'[c] = "join"
         \/ s < N /\ cur'[c] = s + 1 /\ pc'[c] = "run"
  BY <1>2, AdvanceCases DEF PcControl
<1>4. /\ \/ ready' = [ready EXCEPT ![s] = TRUE]
         \/ ready' = ready /\ worker[s] = "none"
      /\ worker' = [worker EXCEPT ![s] = IF worker[s] = "none" THEN "test"
                                         ELSE IF worker[s] = "wait" THEN "wake"
                                         ELSE worker[s]]
      /\ runs' = [runs EXCEPT ![s] = runs[s] + 1]
  <2>1. CASE worker[s] = "none"
    BY <2>1, <1>1
  <2>2. CASE worker[s] # "none"
    <3>1. worker' = [worker EXCEPT ![s] = IF worker[s] = "wait" THEN "wake"
                                          ELSE worker[s]]
      BY <2>2
    <3>2. worker' = [worker EXCEPT ![s] = IF worker[s] = "none" THEN "test"
                                          ELSE IF worker[s] = "wait" THEN "wake"
                                          ELSE worker[s]]
      BY <2>2, <3>1
    <3>3. ready' = [ready EXCEPT ![s] = TRUE]
      BY <2>2
    <3>4. runs' = [runs EXCEPT ![s] = runs[s] + 1]
      BY <2>2
    <3> QED BY <3>2, <3>3, <3>4
  <2> QED BY <2>1, <2>2
<1>5. TypeOK'
  <2>1. worker' \in [Searchers -> WorkerControl]
    BY <1>1, <1>4 DEF WorkerControl
  <2>2. ready' \in [Searchers -> BOOLEAN]
    BY <1>1, <1>4
  <2>3. runs' \in [Searchers -> Nat]
    <3>1. runs \in [Searchers -> Nat] /\ s \in Searchers
      BY <1>1
    <3>2. runs' = [runs EXCEPT ![s] = runs[s] + 1]
      BY <1>4
    <3> HIDE DEF IInv, TypeOK, Run
    <3> QED BY <3>1, <3>2
  <2> QED BY <1>1, <1>3, <2>1, <2>2, <2>3
<1>6. RoundInv'
  <2>1. RoundInv /\ (~ term[s] => Quiet(s))
    BY <1>1 DEF DriverInv
  <2>2. \A t \in Searchers : t # s => /\ worker'[t] = worker[t] /\ ready'[t] = ready[t]
                                     /\ runs'[t] = runs[t]
    BY <1>1, <1>4
  <2>3. /\ worker'[s] = IF worker[s] = "none" THEN "test"
                        ELSE IF worker[s] = "wait" THEN "wake" ELSE worker[s]
        /\ ready'[s]
        /\ runs'[s] = runs[s] + 1
    BY <1>1, <1>4, <2>1 DEF RoundInv
  <2>4. runs[s] \in Nat /\ rounds[s] \in Nat
    BY <1>1
  <2> HIDE DEF s, IInv, TypeOK, Run
  <2> QED BY <1>1, <2>1, <2>2, <2>3, <2>4 DEF RoundInv, Quiet
<1>7. DriverInv'
  <2>1. (InGenmove("usi") => GoEnded)'
    BY <1>1, <1>2, <1>3 DEF DriverInv, InGenmove
  <2>2. InGenmove(c)' /\ pc'["usi"] # "played"
    BY <1>2, <1>3 DEF InGenmove, DriverInv
  <2>3. ASSUME NEW d \in Controllers, NEW t \in Searchers, ~ term'[t]
        PROVE  /\ pc'[d] = "run" /\ cur'[d] <= t => Quiet(t)'
               /\ Joined(d, t)' => ~ ready'[t]
    <3>1. d # c => pc'[d] \notin {"run", "join", "wait", "wake", "played"}
      BY <1>1, <1>2, <1>3 DEF DriverInv, InGenmove
    <3>2. CASE d = c /\ s < N
      <4>1. pc'[c] = "run" /\ cur'[c] = s + 1
        BY <1>3, <3>2
      <4>2. ASSUME s + 1 <= t PROVE Quiet(t)'
        <5>1. t # s /\ s <= t
          <6>1. s \in 1..N /\ t \in 1..N /\ N \in Nat
            BY <1>1
          <6> HIDE DEF s, IInv, TypeOK, Run
          <6> QED BY <4>2, <6>1
        <5>2. Quiet(t)
          BY <1>1, <2>3, <5>1 DEF DriverInv
        <5> QED BY <1>4, <5>1, <5>2 DEF Quiet
      <4> QED BY <3>2, <4>1, <4>2 DEF Joined
    <3>3. CASE d = c /\ s = N
      BY <1>1, <1>3, <1>4, <2>3, <3>3, SMTT(20) DEF DriverInv, Quiet, Joined
    <3> QED BY <3>1, <3>2, <3>3, <1>3 DEF Joined
  <2> QED BY <2>1, <2>2, <2>3 DEF DriverInv
<1>8. QuitInv'
  <2>1. calls > 0 /\ calls' = calls
    BY <1>1 DEF QuitInv, InGenmove
  <2>2. \A t \in Searchers : worker'[t] = "none" => pc'["usi"] = "run" /\ cur'["usi"] <= t
    <3> SUFFICES ASSUME NEW t \in Searchers, worker'[t] = "none"
                 PROVE  pc'["usi"] = "run" /\ cur'["usi"] <= t
      OBVIOUS
    <3>1. worker[t] = "none" /\ t # s
      <4>1. worker'[s] # "none"
        BY <1>1, <1>4
      <4>2. t # s => worker'[t] = worker[t]
        BY <1>1, <1>4
      <4> QED BY <4>1, <4>2
    <3>2. pc["usi"] = "run" /\ cur["usi"] <= t
      BY <2>1, <3>1 DEF QuitInv
    <3>3. c = "usi"
      BY <1>1, <3>2 DEF DriverInv, InGenmove
    <3> QED BY <1>1, <1>3, <3>1, <3>2, <3>3, SMTT(20)
  <2>3. /\ pc'["usi"] \notin {"run", "join", "wait", "wake", "term", "termjoin"}
             => cur'["usi"] = 1
        /\ pc'["usi"] \in {"term", "termjoin"} =>
             \A t \in Searchers : t < cur'["usi"] => worker'[t] = "exit"
        /\ pc'["usi"] \in {"jointh", "freed"} =>
             \A t \in Searchers : worker'[t] = "exit"
        /\ (pc["usi"] = "freed" => GoEnded)'
    <3>1. CASE c = "usi"
      BY <1>1, <1>3, <3>1 DEF DriverInv, InGenmove
    <3>2. CASE c = "go"
      BY <1>1, <1>2, <1>3, <1>4, <2>1, <3>2, SMTT(20) DEF QuitInv
    <3> QED BY <3>1, <3>2
  <2> QED BY <2>1, <2>2, <2>3 DEF QuitInv
<1> QED BY <1>5, <1>6, <1>7, <1>8

LEMMA JoinStep ==
  ASSUME IInv, NEW c \in Controllers, Join(c) \/ JoinWake(c) PROVE IInv'
<1> DEFINE s == cur[c]
<1> USE NAssumption DEF IInv, TypeOK, Join, JoinWake, Searchers, Controllers, GoEnded
<1>1. /\ s \in Searchers /\ pc[c] \in {"join", "wake"}
      /\ UNCHANGED <<ready, term, worker, stop, runs, rounds, calls>>
  OBVIOUS
<1>2. CASE ready[s] /\ ~ term[s]
  <2>1. pc' = [pc EXCEPT ![c] = "wait"] /\ cur' = cur
    BY <1>2
  <2> QED BY <1>1, <2>1 DEF RoundInv, DriverInv, QuitInv, InGenmove, Joined, Quiet, PcControl
<1>3. CASE ~ (ready[s] /\ ~ term[s])
  <2>1. /\ pc' \in [Controllers -> PcControl]
        /\ cur' \in [Controllers -> Searchers]
        /\ \A d \in Controllers : d # c => pc'[d] = pc[d] /\ cur'[d] = cur[d]
        /\ \/ s = N /\ cur'[c] = 1 /\ pc'[c] = Return(c)
           \/ s < N /\ cur'[c] = s + 1 /\ pc'[c] = "join"
    <3>1. Return(c) \in PcControl /\ "join" \in PcControl
      BY DEF Return, PcControl
    <3>2. Advance(pc, c, "join", Return(c))
      BY <1>3
    <3> QED BY <3>1, <3>2, AdvanceCases
  <2>2. TypeOK' /\ RoundInv'
    BY <1>1, <2>1 DEF RoundInv
  <2>3. DriverInv'
    <3>1. (InGenmove("usi") => GoEnded)' /\ pc'["usi"] # "played"
      BY <1>1, <2>1 DEF DriverInv, InGenmove, Return
    <3>2. \A t \in Searchers : ~ term[t] /\ t <= s => ~ ready[t]
      BY <1>1, <1>3 DEF DriverInv, Joined
    <3>3. (\A d \in Controllers : ~ InGenmove(d)') =>
             \A t \in Searchers : ~ term[t] => Quiet(t)
      <4>1. s < N => InGenmove(c)'
        BY <2>1 DEF InGenmove
      <4>2. s = N => \A t \in Searchers : t <= s
        OBVIOUS
      <4> QED BY <2>1, <3>2, <4>1, <4>2 DEF Quiet
    <3>4. ASSUME NEW d \in Controllers, NEW t \in Searchers, ~ term[t]
          PROVE  /\ pc'[d] = "run" /\ cur'[d] <= t => Quiet(t)
                 /\ Joined(d, t)' => ~ ready[t]
      <4>1. CASE d = c
        <5>1. CASE s = N
          BY <2>1, <3>2, <3>4, <4>1, <5>1, SMTT(20) DEF Return
        <5>2. CASE s < N
          <6>1. pc'[c] = "join" /\ cur'[c] = s + 1
            BY <2>1, <5>2
          <6>2. Joined(c, t)' => t <= s
            BY <1>1, <6>1 DEF Joined
          <6> QED BY <3>2, <3>4, <4>1, <6>1, <6>2
        <5> QED BY <2>1, <5>1, <5>2
      <4>2. CASE d # c
        BY <1>1, <2>1, <3>4, <4>2 DEF DriverInv, Joined
      <4> QED BY <4>1, <4>2
    <3> QED BY <1>1, <3>1, <3>3, <3>4 DEF DriverInv, Quiet
  <2>4. QuitInv'
    BY <1>1, <2>1 DEF QuitInv, InGenmove, Return
  <2> QED BY <2>2, <2>3, <2>4
<1> QED BY <1>2, <1>3

LEMMA TermStep == ASSUME IInv, Term \/ TermJoin PROVE IInv'
<1> DEFINE s == cur["usi"]
<1> USE NAssumption DEF IInv, TypeOK, Searchers, Controllers, GoEnded
<1>1. CASE Term
  <2> USE <1>1 DEF Term
  <2>1. \A d \in Controllers :
          \/ d = "usi" /\ pc'[d] = "termjoin"
          \/ d # "usi" /\ pc'[d] = pc[d]
          \/ d # "usi" /\ pc[d] = "wait" /\ pc'[d] = "wake"
    BY NotifiedCases
  <2>2. TypeOK'
    BY NotifiedCases DEF PcControl, WorkerControl
  <2>3. RoundInv'
    <3>1. worker[s] # "none"
      BY DEF QuitInv, InGenmove
    <3>2. /\ term'[s] /\ worker'[s] # "none"
          /\ \A t \in Searchers : t # s => /\ worker'[t] = worker[t]
                                         /\ term'[t] = term[t] /\ ready'[t] = ready[t]
      BY <3>1
    <3> QED BY <3>2 DEF RoundInv
  <2>4. DriverInv'
    BY <2>1 DEF DriverInv, Quiet, InGenmove, Joined
  <2>5. QuitInv'
    BY <2>1 DEF QuitInv, InGenmove
  <2> QED BY <2>2, <2>3, <2>4, <2>5
<1>2. CASE TermJoin
  <2> USE <1>2 DEF TermJoin
  <2>1. /\ pc' \in [Controllers -> PcControl]
        /\ cur' \in [Controllers -> Searchers]
        /\ \A d \in Controllers : d # "usi" => pc'[d] = pc[d] /\ cur'[d] = cur[d]
        /\ \/ s = N /\ cur'["usi"] = 1 /\ pc'["usi"] = "jointh"
           \/ s < N /\ cur'["usi"] = s + 1 /\ pc'["usi"] = "term"
    BY AdvanceCases DEF PcControl
  <2>2. TypeOK' /\ RoundInv'
    BY <2>1 DEF RoundInv
  <2>3. DriverInv'
    BY <2>1 DEF DriverInv, Quiet, InGenmove, Joined
  <2>4. QuitInv'
    BY <2>1, SMTT(20) DEF QuitInv, InGenmove
  <2> QED BY <2>2, <2>3, <2>4
<1> QED BY <1>1, <1>2

LEMMA WorkerStep == ASSUME IInv, NEW s \in Searchers, Worker(s) PROVE IInv'
<1> USE DEF IInv, TypeOK, Searchers, Controllers, GoEnded
<1>1. CASE WorkerFinish(s)
  <2> USE <1>1 DEF WorkerFinish
  <2>1. /\ pc' \in [Controllers -> PcControl]
        /\ \A d \in Controllers : \/ pc'[d] = pc[d]
                                  \/ pc[d] = "wait" /\ pc'[d] = "wake"
    BY NotifiedCases
  <2>2. TypeOK'
    BY <2>1 DEF WorkerControl
  <2>3. RoundInv'
    BY DEF RoundInv
  <2>4. DriverInv'
    BY <2>1 DEF DriverInv, Quiet, InGenmove, Joined
  <2>5. QuitInv'
    BY <2>1 DEF QuitInv, InGenmove
  <2> QED BY <2>2, <2>3, <2>4, <2>5
<1>2. CASE WorkerTest(s) \/ WorkerSearched(s) \/ WorkerWake(s)
  <2> USE <1>2 DEF WorkerTest, WorkerSearched, WorkerWake
  <2>1. TypeOK'
    BY DEF WorkerControl
  <2>2. RoundInv'
    <3>1. CASE WorkerTest(s)
      BY <3>1 DEF RoundInv
    <3>2. CASE WorkerSearched(s)
      BY <3>2 DEF RoundInv
    <3>3. CASE WorkerWake(s)
      BY <3>3 DEF RoundInv
    <3> QED BY <1>2, <3>1, <3>2, <3>3
  <2>3. DriverInv'
    BY DEF DriverInv, Quiet, InGenmove, Joined
  <2>4. QuitInv'
    BY DEF QuitInv, InGenmove
  <2> QED BY <2>1, <2>2, <2>3, <2>4
<1> QED BY <1>1, <1>2 DEF Worker

LEMMA CommandStep ==
  ASSUME IInv, Commands \/ GoPlayed \/ Finalize PROVE IInv'
<1> USE NAssumption DEF IInv, TypeOK, Searchers, Controllers, GoEnded
<1>1. CASE IsReady \/ GoStop \/ Stop \/ StopJoined \/ Finalize
  <2> USE <1>1 DEF IsReady, GoStop, Stop, StopJoined, Finalize
  <2>1. TypeOK' /\ RoundInv'
    <3>1. UNCHANGED <<ready, term, worker, cur, runs, rounds>> /\ stop' \in BOOLEAN
      OBVIOUS
    <3>2. calls' \in Nat
      OBVIOUS
    <3>3. pc' \in [Controllers -> PcControl]
      BY DEF PcControl
    <3> QED BY <3>1, <3>2, <3>3 DEF RoundInv
  <2>2. DriverInv'
    <3>1. /\ UNCHANGED <<ready, term, worker, cur>> /\ pc'["go"] = pc["go"] /\ DriverInv
          /\ \/ pc["usi"] = "idle" /\ pc'["usi"] = "run" /\ GoEnded
             \/ /\ pc["usi"] \in {"idle", "joinstop", "jointh"}
                /\ pc'["usi"] \in {"joingo", "joinstop", "idle", "freed"}
      OBVIOUS
    <3> HIDE <1>1 DEF IInv, TypeOK, IsReady, GoStop, Stop, StopJoined, Finalize
    <3>2. (InGenmove("usi") => GoEnded)' /\ pc'["usi"] # "played"
      BY <3>1 DEF InGenmove
    <3>3. \A c \in Controllers : InGenmove(c) => InGenmove(c)'
      BY <3>1 DEF InGenmove
    <3>4. (\A c \in Controllers : ~ InGenmove(c)) =>
            \A s \in Searchers : ~ term[s] => Quiet(s)
      BY <3>1 DEF DriverInv
    <3>5. ASSUME NEW c \in Controllers, NEW s \in Searchers, ~ term[s]
          PROVE  /\ pc'[c] = "run" /\ cur[c] <= s => Quiet(s)
                 /\ Joined(c, s)' => ~ ready[s]
      <4>1. CASE c = "go"
        BY <3>1, <3>5, <4>1 DEF DriverInv, Joined
      <4>2. CASE c = "usi" /\ pc'["usi"] = "run"
        <5>1. \A d \in Controllers : ~ InGenmove(d)
          BY <3>1, <4>2 DEF InGenmove
        <5> QED BY <3>4, <3>5, <4>2, <5>1 DEF Joined
      <4>3. CASE c = "usi" /\ pc'["usi"] # "run"
        BY <3>1, <4>3 DEF Joined
      <4> QED BY <4>1, <4>2, <4>3
    <3> QED BY <3>1, <3>2, <3>3, <3>4, <3>5 DEF DriverInv, Quiet
  <2>3. QuitInv'
    <3>1. /\ UNCHANGED <<worker, cur>> /\ pc'["go"] = pc["go"]
          /\ calls \in Nat /\ cur["usi"] = 1 /\ Searchers = 1..N /\ QuitInv
          /\ \/ calls' = calls /\ pc["usi"] # "run"
             \/ calls' = calls + 1 /\ pc'["usi"] = "run"
      BY DEF QuitInv, InGenmove
    <3>2. \/ pc'["usi"] = "run" /\ calls' = calls + 1
          \/ pc'["usi"] = "joingo" /\ calls' > 0
          \/ pc'["usi"] = "joinstop"
          \/ pc'["usi"] = "idle"
          \/ pc["usi"] = "jointh" /\ pc'["usi"] = "freed" /\ GoEnded
      OBVIOUS
    <3> HIDE <1>1 DEF IInv, TypeOK, IsReady, GoStop, Stop, StopJoined, Finalize
    <3>3. /\ cur'["usi"] = 1
          /\ pc'["usi"] \notin {"term", "termjoin", "jointh"}
          /\ pc'["usi"] = "joingo" => calls' > 0
          /\ pc'["usi"] = "freed" => GoEnded'
      BY <3>1, <3>2
    <3>4. calls' = 0 => /\ pc'["go"] = "none" /\ ~ InGenmove("usi")'
                        /\ \A s \in Searchers : worker'[s] = "none"
      BY <3>1, <3>2 DEF QuitInv, InGenmove
    <3>5. calls' > 0 => \A s \in Searchers :
                          worker'[s] = "none" => pc'["usi"] = "run" /\ cur'["usi"] <= s
      BY <3>1, <3>2 DEF QuitInv
    <3>6. pc'["usi"] = "freed" => calls' = 0 \/ \A s \in Searchers : worker'[s] = "exit"
      BY <3>1, <3>2 DEF QuitInv
    <3> QED BY <3>3, <3>4, <3>5, <3>6 DEF QuitInv
  <2> QED BY <2>1, <2>2, <2>3
<1>2. CASE Quit
  <2> USE <1>2 DEF Quit
  <2>1. TypeOK' /\ RoundInv'
    BY DEF PcControl, RoundInv
  <2>2. DriverInv'
    BY DEF DriverInv, Quiet, InGenmove, Joined
  <2>3. QuitInv'
    BY DEF QuitInv, InGenmove
  <2> QED BY <2>1, <2>2, <2>3
<1>3. CASE GoStart
  <2> USE <1>3 DEF GoStart
  <2>1. TypeOK' /\ RoundInv'
    <3>1. UNCHANGED <<ready, term, worker, cur, runs, rounds>> /\ stop' \in BOOLEAN
      OBVIOUS
    <3>2. calls' \in Nat
      OBVIOUS
    <3>3. pc' \in [Controllers -> PcControl]
      BY DEF PcControl
    <3> QED BY <3>1, <3>2, <3>3 DEF RoundInv
  <2>2. DriverInv'
    BY DEF DriverInv, Quiet, InGenmove, Joined
  <2>3. QuitInv'
    BY DEF QuitInv, InGenmove
  <2> QED BY <2>1, <2>2, <2>3
<1>4. CASE GoPlayed
  <2> USE <1>4 DEF GoPlayed
  <2>1. TypeOK' /\ RoundInv'
    <3>1. UNCHANGED <<ready, term, worker, cur, runs, rounds>> /\ stop' \in BOOLEAN
      OBVIOUS
    <3>2. calls' \in Nat
      OBVIOUS
    <3>3. pc' \in [Controllers -> PcControl]
      BY DEF PcControl
    <3> QED BY <3>1, <3>2, <3>3 DEF RoundInv
  <2>2. DriverInv'
    <3>1. /\ UNCHANGED <<ready, term, worker, cur>> /\ pc'["usi"] = pc["usi"] /\ DriverInv
          /\ pc["go"] = "played" /\ pc'["go"] \in {"ended", "run"}
      BY DEF PcControl
    <3>2. ~ InGenmove("usi")
      BY <3>1 DEF DriverInv, InGenmove
    <3> HIDE <1>4 DEF IInv, TypeOK, GoPlayed
    <3>3. \A s \in Searchers : ~ term[s] => ~ ready[s]
      BY <3>1 DEF DriverInv, Joined
    <3>4. \A c \in Controllers, s \in Searchers :
            ~ term[s] => /\ pc'[c] = "run" /\ cur[c] <= s => Quiet(s)
                         /\ Joined(c, s)' => ~ ready[s]
      BY <3>3 DEF Quiet
    <3> QED BY <3>1, <3>2, <3>3, <3>4 DEF DriverInv, Quiet, InGenmove
  <2>3. QuitInv'
    BY DEF QuitInv, InGenmove
  <2> QED BY <2>1, <2>2, <2>3
<1> QED BY <1>1, <1>2, <1>3, <1>4 DEF Commands

LEMMA SpuriousStep == ASSUME IInv, SpuriousWakeup PROVE IInv'
<1> USE DEF IInv, TypeOK, Searchers, Controllers, GoEnded, SpuriousWakeup
<1>1. TypeOK'
  BY DEF PcControl, WorkerControl
<1>2. RoundInv'
  BY DEF RoundInv
<1>3. DriverInv'
  BY DEF DriverInv, Quiet, InGenmove, Joined
<1>4. QuitInv'
  BY DEF QuitInv, InGenmove
<1> QED BY <1>1, <1>2, <1>3, <1>4

-----------------------------------------------------------------------------
(* IInv is an invariant of the pool.                                        *)
THEOREM Inductive == Spec => []IInv
<1>1. IInv /\ [Next]_vars => IInv'
  <2> SUFFICES ASSUME IInv, [Next]_vars PROVE IInv'
    OBVIOUS
  <2>1. CASE UNCHANGED vars
    BY <2>1 DEF vars, IInv, TypeOK, RoundInv, DriverInv, QuitInv, Quiet, InGenmove,
       Joined, GoEnded
  <2>2. CASE Next
    BY <2>1, <2>2, RunStep, JoinStep, TermStep, WorkerStep, CommandStep, SpuriousStep
       DEF Next, Control, Ended
  <2> QED BY <2>1, <2>2
<1> QED BY InitIInv, <1>1, PTL DEF Spec

(* Every variable has its type.                                             *)
THEOREM TypeCorrect == Spec => []TypeOK
BY Inductive, PTL DEF IInv

(* When Join has returned, the searcher has made exactly the rounds it was  *)
(* started for and is parked, unless quit has terminated it.                *)
THEOREM JoinIsDone == Spec => []JoinMeansDone
<1>1. IInv => JoinMeansDone
  BY DEF IInv, RoundInv, DriverInv, JoinMeansDone, TypeOK, Joined
<1> QED BY Inductive, <1>1, PTL

(* When quit deletes the groups, every worker and the go thread have ended. *)
THEOREM FreedIsUnused == Spec => []NoUseAfterFree
<1>1. IInv => NoUseAfterFree
  BY DEF IInv, QuitInv, NoUseAfterFree
<1> QED BY Inductive, <1>1, PTL
=============================================================================
