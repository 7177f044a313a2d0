--------------------------- MODULE UctSearch_proof ---------------------------
(***************************************************************************)
(* Theorems about the parallel search, for any game tree, any number of    *)
(* searchers, any batch size and any limits: the Win, Lose and Draw flags  *)
(* are true, a playout selects only in nodes that have children, are       *)
(* evaluated and rated, every leaf is evaluated exactly once, virtual      *)
(* losses and results are conserved (every visit a node counts is one of   *)
(* its moves', and every result it counts was brought by one visit), and a *)
(* win the search has found at the root is the move that is played.        *)
(***************************************************************************)
EXTENDS BestMove, FiniteSetTheorems, WellFoundedInduction, TLAPS

LEMMA KidInNodes ==
  ASSUME NEW c \in Nodes, NEW i \in DOMAIN Kids[c]
  PROVE  Kids[c][i] \in Nodes
BY TreeAssumption

LEMMA CurrentInNodes ==
  ASSUME FlagTypes, NEW t \in Threads
  PROVE  Current(t) \in Nodes
<1> USE DEF FlagTypes, Current, End
<1>1. CASE path[t] = << >>
  BY <1>1
<1>2. CASE path[t] # << >>
  <2>1. path[t] \in Seq(Nodes)
    OBVIOUS
  <2>2. Len(path[t]) \in DOMAIN path[t]
    BY <2>1, <1>2
  <2> QED BY <2>1, <2>2, <1>2
<1> QED BY <1>1, <1>2

(* What a node derives from sound flags of its children is sound.           *)
LEMMA ProvedSound ==
  ASSUME FlagsSound, NEW c \in Nodes, Status[c] = "open"
  PROVE  /\ Proved(c) \in SUBSET {"W", "L"}
         /\ "W" \in Proved(c) => Outcome[c] = "win"
         /\ "L" \in Proved(c) => Outcome[c] = "lose"
<1>1. \A i \in DOMAIN Kids[c] : Kids[c][i] \in Nodes
  BY KidInNodes
<1>2. ASSUME Loses(c) # {} PROVE Outcome[c] = "win"
  <2>1. PICK i \in DOMAIN Kids[c] : "L" \in flag[Kids[c][i]]
    BY <1>2 DEF Loses
  <2>2. Outcome[Kids[c][i]] = "lose"
    BY <1>1, <2>1 DEF FlagsSound
  <2> QED BY <2>2, OutcomeAssumption
<1>3. ASSUME Wins(c) = DOMAIN Kids[c] PROVE Outcome[c] = "lose"
  <2>1. \A i \in DOMAIN Kids[c] : Outcome[Kids[c][i]] = "win"
    BY <1>1, <1>3 DEF FlagsSound, Wins
  <2> QED BY <2>1, OutcomeAssumption
<1> QED BY <1>2, <1>3 DEF Proved

LEMMA InitIInv == Init => IInv
<1> SUFFICES ASSUME Init PROVE IInv
  OBVIOUS
<1> USE DEF Init
<1>1. FlagTypes
  <2>1. pc \in [Threads -> Controls] /\ path \in [Threads -> Seq(Nodes)]
    BY DEF Controls
  <2> QED BY <2>1, TreeAssumption DEF FlagTypes
<1>2. OpenInv
  BY DEF OpenInv
<1>3. PathInv
  BY DEF PathInv
<1>4. FlagsSound
  BY DEF FlagsSound
<1> QED BY <1>1, <1>2, <1>3, <1>4 DEF IInv

-----------------------------------------------------------------------------
(* A new search: what it keeps was there, and its head has children.        *)
LEMMA GenmoveStep ==
  ASSUME IInv, NEW h \in Nodes, NEW found \in BOOLEAN, Genmove(h, found)
  PROVE  IInv'
<1> DEFINE kept == IF found THEN Subtree[h] \ ({head} \ {h}) ELSE {}
           gone == {n \in Nodes : ~ (found /\ n \in Subtree[h] \cup Line(h))}
<1>1. /\ head' = h /\ Kids[h] # << >> /\ searches' = searches + 1
      /\ expanded' = (expanded \cap kept) \cup {h}
      /\ flag' = [n \in Nodes |-> IF n \in gone THEN {} ELSE flag[n]]
      /\ pc' = [t \in Threads |-> "root"] /\ path' = path
      /\ \A t \in Threads : pc[t] = "idle"
  BY DEF Genmove, ExpandRoot, Idle
<1> HIDE DEF kept, gone
<1>2. /\ head \in Nodes /\ expanded \in SUBSET Nodes /\ searches \in Nat
      /\ flag \in [Nodes -> SUBSET {"W", "L", "D"}]
      /\ path \in [Threads -> Seq(Nodes)]
  BY DEF IInv, FlagTypes
<1>3. FlagTypes'
  <2>1. pc' \in [Threads -> Controls]
    BY <1>1 DEF Controls
  <2>2. flag' \in [Nodes -> SUBSET {"W", "L", "D"}]
    BY <1>1, <1>2
  <2>3. expanded' \in SUBSET Nodes /\ head' \in Nodes /\ searches' \in Nat
    BY <1>1, <1>2
  <2> QED BY <1>1, <1>2, <2>1, <2>2, <2>3 DEF FlagTypes
<1>4. OpenInv'
  <2>1. ASSUME NEW n \in expanded', n # h PROVE Status[n] = "open"
    <3>1. n \in expanded /\ n \in kept
      BY <1>1, <2>1
    <3>2. n # head
      BY <3>1, <2>1 DEF kept
    <3> QED BY <3>1, <3>2 DEF IInv, OpenInv
  <2> QED BY <2>1, <1>1 DEF OpenInv
<1>5. PathInv'
  <2>1. HasChildren(head)' /\ searches' > 0
    BY <1>1, <1>2 DEF HasChildren
  <2>2. \A t \in Threads : path'[t] = << >> /\ pc'[t] = "root"
    BY <1>1 DEF IInv, PathInv
  <2> QED BY <2>1, <2>2 DEF PathInv
<1>6. FlagsSound'
  <2>1. \A n \in Nodes : flag'[n] \subseteq flag[n]
    BY <1>1, <1>2
  <2> QED BY <2>1 DEF IInv, FlagsSound
<1> QED BY <1>3, <1>4, <1>5, <1>6 DEF IInv

(* The steps of a thread that change neither the tree nor a path.           *)
LEMMA QuietStep ==
  ASSUME IInv, NEW t \in Threads, NEW q \in Controls,
         UNCHANGED <<head, expanded, flag, path, searches>>,
         pc' = [pc EXCEPT ![t] = q],
         pc[t] # "idle",
         q \in {"idle", "root", "eval", "unvl", "backup", "check"} => path[t] = << >>,
         q \in {"leaf", "flagged", "descend", "done"} => path[t] # << >>,
         q = "select" => HasChildren(Current(t))
  PROVE  IInv'
<1>1. FlagTypes'
  BY DEF IInv, FlagTypes
<1>2. OpenInv' /\ FlagsSound'
  BY DEF IInv, OpenInv, FlagsSound
<1>3. \A s \in Threads : Current(s)' = Current(s)
  BY DEF Current, End
<1>4. \A s \in Threads : pc'[s] = IF s = t THEN q ELSE pc[s]
  BY DEF IInv, FlagTypes
<1>5. PathInv'
  <2>1. searches' > 0 => HasChildren(head)'
    BY DEF IInv, PathInv, HasChildren
  <2>2. ASSUME NEW s \in Threads
        PROVE  /\ pc'[s] # "idle" => searches' > 0
               /\ pc'[s] \in {"idle", "root", "eval", "unvl", "backup", "check"} => path'[s] = << >>
               /\ pc'[s] \in {"leaf", "flagged", "descend", "done"} => path'[s] # << >>
               /\ pc'[s] = "select" => HasChildren(Current(s))'
    <3>1. CASE s = t
      BY <3>1, <1>3, <1>4 DEF IInv, PathInv, HasChildren
    <3>2. CASE s # t
      BY <3>2, <1>3, <1>4 DEF IInv, PathInv, HasChildren
    <3> QED BY <3>1, <3>2
  <2> QED BY <2>1, <2>2 DEF PathInv
<1> QED BY <1>1, <1>2, <1>5 DEF IInv

(* The end of a playout: the next one starts at the head.                   *)
LEMMA PlayoutStep ==
  ASSUME IInv, NEW t \in Threads, NextPlayout(t), pc[t] # "idle",
         UNCHANGED <<head, flag, searches>>,
         \/ expanded' = expanded
         \/ \E n \in Nodes : Status[n] = "open" /\ expanded' = expanded \cup {n}
  PROVE  IInv'
<1> DEFINE q == IF played[t] + 1 = BatchSize THEN "eval" ELSE "select"
<1>1. /\ pc' = [pc EXCEPT ![t] = q] /\ path' = [path EXCEPT ![t] = << >>]
      /\ q \in {"eval", "select"}
  BY DEF NextPlayout
<1> HIDE DEF q
<1>2. expanded \subseteq expanded' /\ expanded' \in SUBSET Nodes
  BY DEF IInv, FlagTypes
<1>3. FlagTypes'
  <2>1. pc' \in [Threads -> Controls]
    BY <1>1 DEF IInv, FlagTypes, Controls
  <2>2. path' \in [Threads -> Seq(Nodes)]
    BY <1>1 DEF IInv, FlagTypes
  <2> QED BY <1>2, <2>1, <2>2 DEF IInv, FlagTypes
<1>4. OpenInv' /\ FlagsSound'
  BY DEF IInv, OpenInv, FlagsSound
<1>5. \A s \in Threads : /\ pc'[s] = IF s = t THEN q ELSE pc[s]
                         /\ path'[s] = IF s = t THEN << >> ELSE path[s]
  BY <1>1 DEF IInv, FlagTypes
<1>6. PathInv'
  <2>1. searches' > 0 /\ HasChildren(head)'
    BY <1>2 DEF IInv, PathInv, HasChildren
  <2>2. ASSUME NEW s \in Threads
        PROVE  /\ pc'[s] # "idle" => searches' > 0
               /\ pc'[s] \in {"idle", "root", "eval", "unvl", "backup", "check"} => path'[s] = << >>
               /\ pc'[s] \in {"leaf", "flagged", "descend", "done"} => path'[s] # << >>
               /\ pc'[s] = "select" => HasChildren(Current(s))'
    <3>1. CASE s = t
      <4>1. Current(s)' = head'
        BY <3>1, <1>5 DEF Current
      <4> QED BY <3>1, <4>1, <1>1, <1>5, <2>1
    <3>2. CASE s # t
      <4>1. Current(s)' = Current(s)
        BY <3>2, <1>5 DEF Current, End
      <4> QED BY <3>2, <4>1, <1>2, <1>5 DEF IInv, PathInv, HasChildren
    <3> QED BY <3>1, <3>2
  <2> QED BY <2>1, <2>2 DEF PathInv
<1> QED BY <1>3, <1>4, <1>6 DEF IInv

(* A step that only adds sound flags to a node, and expands open nodes.     *)
LEMMA FlagStep ==
  ASSUME IInv, NEW c \in Nodes, NEW F \in SUBSET {"W", "L", "D"},
         flag' = [flag EXCEPT ![c] = F],
         UNCHANGED head,
         expanded' = expanded \/ (Status[c] = "open" /\ expanded' = expanded \cup {c}),
         "W" \in F => "W" \in flag[c] \/ Outcome[c] = "win",
         "L" \in F => "L" \in flag[c] \/ Outcome[c] = "lose",
         "D" \in F => "D" \in flag[c] \/ Status[c] = "draw"
  PROVE  /\ flag' \in [Nodes -> SUBSET {"W", "L", "D"}]
         /\ expanded \subseteq expanded' /\ expanded' \in SUBSET Nodes
         /\ OpenInv' /\ FlagsSound'
<1>1. flag \in [Nodes -> SUBSET {"W", "L", "D"}] /\ expanded \in SUBSET Nodes
  BY DEF IInv, FlagTypes
<1>2. flag' \in [Nodes -> SUBSET {"W", "L", "D"}]
  BY <1>1
<1>3. expanded \subseteq expanded' /\ expanded' \in SUBSET Nodes
  BY <1>1
<1>4. OpenInv'
  BY DEF IInv, OpenInv
<1>5. \A n \in Nodes : flag'[n] = IF n = c THEN F ELSE flag[n]
  BY <1>1
<1>6. FlagsSound'
  BY <1>5 DEF IInv, FlagsSound
<1> QED BY <1>2, <1>3, <1>4, <1>6

LEMMA SelectStep == ASSUME IInv, NEW t \in Threads, Select(t) PROVE IInv'
<1> DEFINE c == Current(t)
<1>1. pc[t] = "select" /\ c \in Nodes /\ HasChildren(c)
  BY CurrentInNodes DEF Select, IInv, PathInv
<1>2. PICK k \in Nodes :
        /\ path' = [path EXCEPT ![t] = Append(@, k)]
        /\ pc' = [pc EXCEPT ![t] = IF k \in created THEN "descend" ELSE "leaf"]
  <2>1. 1 \in DOMAIN Kids[c]
    BY <1>1, TreeAssumption DEF HasChildren
  <2>2. Candidates(c) \subseteq DOMAIN Kids[c]
    BY <2>1 DEF Candidates, Wins, Loses
  <2>3. \A i \in Candidates(c) : Kids[c][i] \in Nodes
    BY <1>1, <2>2, KidInNodes
  <2> HIDE DEF c
  <2> QED BY <2>3 DEF Select, c
<1> DEFINE F == IF c = head THEN flag[c] ELSE flag[c] \cup Proved(c)
<1>3. UNCHANGED <<head, expanded, searches>>
  BY DEF Select, control
<1>4. flag \in [Nodes -> SUBSET {"W", "L", "D"}]
  BY DEF IInv, FlagTypes
<1>5. flag' = [flag EXCEPT ![c] = F]
  BY <1>4, <1>1 DEF Select
<1>6. c # head => Status[c] = "open"
  BY <1>1 DEF IInv, OpenInv, HasChildren
<1>7. F \in SUBSET {"W", "L", "D"}
  BY <1>1, <1>4, <1>6, ProvedSound DEF IInv
<1>8. /\ "W" \in F => "W" \in flag[c] \/ Outcome[c] = "win"
      /\ "L" \in F => "L" \in flag[c] \/ Outcome[c] = "lose"
      /\ "D" \in F => "D" \in flag[c] \/ Status[c] = "draw"
  BY <1>1, <1>6, ProvedSound DEF IInv
<1> HIDE DEF c, F
<1>9. /\ flag' \in [Nodes -> SUBSET {"W", "L", "D"}] /\ OpenInv' /\ FlagsSound'
  BY <1>1, <1>3, <1>5, <1>7, <1>8, FlagStep
<1>10. FlagTypes'
  <2>1. pc' \in [Threads -> Controls]
    BY <1>2 DEF IInv, FlagTypes, Controls
  <2>2. path' \in [Threads -> Seq(Nodes)]
    BY <1>2 DEF IInv, FlagTypes
  <2> QED BY <1>3, <1>9, <2>1, <2>2 DEF IInv, FlagTypes
<1>11. path'[t] # << >> /\ pc'[t] \in {"descend", "leaf"}
  BY <1>2 DEF IInv, FlagTypes
<1>12. \A s \in Threads : s # t => pc'[s] = pc[s] /\ path'[s] = path[s]
  BY <1>2 DEF IInv, FlagTypes
<1>13. PathInv'
  <2>1. searches' > 0 /\ HasChildren(head)'
    BY <1>1, <1>3 DEF IInv, PathInv, HasChildren
  <2>2. ASSUME NEW s \in Threads
        PROVE  /\ pc'[s] # "idle" => searches' > 0
               /\ pc'[s] \in {"idle", "root", "eval", "unvl", "backup", "check"} => path'[s] = << >>
               /\ pc'[s] \in {"leaf", "flagged", "descend", "done"} => path'[s] # << >>
               /\ pc'[s] = "select" => HasChildren(Current(s))'
    <3>1. CASE s = t
      BY <3>1, <1>11, <2>1
    <3>2. CASE s # t
      <4>1. Current(s)' = Current(s)
        BY <3>2, <1>3, <1>12 DEF Current, End
      <4> QED BY <3>2, <4>1, <1>3, <1>12, <2>1 DEF IInv, PathInv, HasChildren
    <3> QED BY <3>1, <3>2
  <2> QED BY <2>1, <2>2 DEF PathInv
<1> QED BY <1>9, <1>10, <1>13 DEF IInv

LEMMA LeafDecidedStep == ASSUME IInv, NEW t \in Threads, LeafDecided(t) PROVE IInv'
<1> DEFINE n == Current(t)
<1>1. /\ pc[t] = "leaf" /\ n \in Nodes /\ Decided(n)
      /\ pc' = [pc EXCEPT ![t] = "flagged"]
      /\ UNCHANGED <<head, path, searches>>
      /\ flag' = [flag EXCEPT ![n] = flag[n] \cup {Flag(n)}]
  BY CurrentInNodes DEF LeafDecided, IInv, control
<1>2. /\ Flag(n) \in {"W", "L", "D"}
      /\ Flag(n) = "W" => Outcome[n] = "win"
      /\ Flag(n) = "L" => Outcome[n] = "lose"
      /\ Flag(n) = "D" => Status[n] = "draw"
  <2>1. Status[n] \in Statuses
    BY <1>1, TreeAssumption
  <2>2. CASE Status[n] = "open"
    <3>1. DOMAIN Kids[n] = {}
      BY <1>1, <2>2 DEF Decided
    <3>2. Outcome[n] = "lose"
      BY <1>1, <2>2, <3>1, OutcomeAssumption
    <3> QED BY <2>2, <3>2 DEF Flag
  <2>3. CASE Status[n] \in {"win", "lose"}
    <3>1. Outcome[n] = Status[n]
      BY <1>1, <2>3, OutcomeAssumption
    <3> QED BY <2>3, <3>1 DEF Flag
  <2>4. CASE Status[n] = "draw"
    BY <2>4 DEF Flag
  <2> QED BY <2>1, <2>2, <2>3, <2>4 DEF Statuses
<1>3. expanded' = expanded \/ (Status[n] = "open" /\ expanded' = expanded \cup {n})
  BY DEF LeafDecided
<1> HIDE DEF n
<1>4. flag[n] \in SUBSET {"W", "L", "D"}
  BY <1>1 DEF IInv, FlagTypes
<1>5. /\ flag' \in [Nodes -> SUBSET {"W", "L", "D"}] /\ OpenInv' /\ FlagsSound'
      /\ expanded \subseteq expanded' /\ expanded' \in SUBSET Nodes
  <2> DEFINE F == flag[n] \cup {Flag(n)}
  <2>1. F \in SUBSET {"W", "L", "D"} /\ flag' = [flag EXCEPT ![n] = F]
    BY <1>1, <1>2, <1>4
  <2>2. /\ "W" \in F => "W" \in flag[n] \/ Outcome[n] = "win"
        /\ "L" \in F => "L" \in flag[n] \/ Outcome[n] = "lose"
        /\ "D" \in F => "D" \in flag[n] \/ Status[n] = "draw"
    BY <1>2
  <2> HIDE DEF F
  <2> QED BY <1>1, <1>3, <2>1, <2>2, FlagStep
<1>6. FlagTypes'
  <2>1. pc' \in [Threads -> Controls]
    BY <1>1 DEF IInv, FlagTypes, Controls
  <2> QED BY <1>1, <1>5, <2>1 DEF IInv, FlagTypes
<1>7. PathInv'
  <2>1. searches' > 0 /\ HasChildren(head)'
    BY <1>1, <1>5 DEF IInv, PathInv, HasChildren
  <2>2. ASSUME NEW s \in Threads
        PROVE  /\ pc'[s] # "idle" => searches' > 0
               /\ pc'[s] \in {"idle", "root", "eval", "unvl", "backup", "check"} => path'[s] = << >>
               /\ pc'[s] \in {"leaf", "flagged", "descend", "done"} => path'[s] # << >>
               /\ pc'[s] = "select" => HasChildren(Current(s))'
    <3>1. Current(s)' = Current(s)
      BY <1>1 DEF Current, End
    <3>2. pc'[s] = IF s = t THEN "flagged" ELSE pc[s]
      BY <1>1 DEF IInv, FlagTypes
    <3> QED BY <3>1, <3>2, <1>1, <1>5, <2>1 DEF IInv, PathInv, HasChildren
  <2> QED BY <2>1, <2>2 DEF PathInv
<1> QED BY <1>5, <1>6, <1>7 DEF IInv

LEMMA PvMateStep == ASSUME IInv, NEW n \in Nodes, PvMateFound(n) PROVE IInv'
<1>1. PICK lost \in {{}, {"D"}} : flag' = [flag EXCEPT ![n] = (flag[n] \ lost) \cup {"W"}]
  BY DEF PvMateFound
<1>2. /\ Outcome[n] = "win"
      /\ UNCHANGED <<head, expanded, pc, path, searches>>
  BY DEF PvMateFound, control
<1>3. flag[n] \in SUBSET {"W", "L", "D"}
  BY DEF IInv, FlagTypes
<1>4. flag' \in [Nodes -> SUBSET {"W", "L", "D"}] /\ OpenInv' /\ FlagsSound'
  <2> DEFINE F == (flag[n] \ lost) \cup {"W"}
  <2>1. F \in SUBSET {"W", "L", "D"} /\ flag' = [flag EXCEPT ![n] = F]
    BY <1>1, <1>3
  <2>2. /\ "W" \in F => "W" \in flag[n] \/ Outcome[n] = "win"
        /\ "L" \in F => "L" \in flag[n] \/ Outcome[n] = "lose"
        /\ "D" \in F => "D" \in flag[n] \/ Status[n] = "draw"
    BY <1>2
  <2> HIDE DEF F
  <2> QED BY <1>2, <2>1, <2>2, FlagStep
<1>5. FlagTypes'
  BY <1>2, <1>4 DEF IInv, FlagTypes
<1>6. PathInv'
  BY <1>2 DEF IInv, PathInv, HasChildren, Current, End
<1> QED BY <1>4, <1>5, <1>6 DEF IInv

-----------------------------------------------------------------------------
LEMMA ThreadStep == ASSUME IInv, NEW t \in Threads, Thread(t) PROVE IInv'
<1> USE DEF control
<1>1. CASE EvalRoot(t)
  <2>1. Current(t) = head /\ HasChildren(head)
    BY <1>1 DEF EvalRoot, IInv, PathInv, Current
  <2> QED BY <1>1, <2>1, QuietStep DEF EvalRoot, tree, Controls
<1>2. CASE Select(t)
  BY <1>2, SelectStep
<1>3. CASE LeafDecided(t)
  BY <1>3, LeafDecidedStep
<1>4. CASE LeafQueued(t)
  <2>1. Current(t) \in Nodes /\ Status[Current(t)] = "open"
    BY <1>4, CurrentInNodes DEF LeafQueued, Decided, IInv
  <2> QED BY <1>4, <2>1, PlayoutStep DEF LeafQueued
<1>5. CASE SetLeafEvaled(t)
  BY <1>5, QuietStep DEF SetLeafEvaled, tree, Controls, IInv, PathInv
<1>6. CASE Discard(t)
  BY <1>6, PlayoutStep DEF Discard, tree
<1>7. CASE Descend(t)
  <2>1. path[t] # << >> /\ UNCHANGED <<tree, path, searches>> /\ pc[t] = "descend"
    BY <1>7 DEF Descend, IInv, PathInv
  <2>2. CASE EndsPlayout(Current(t))
    BY <1>7, <2>1, <2>2, QuietStep DEF Descend, tree, Controls
  <2>3. CASE ~ EndsPlayout(Current(t))
    <3>1. HasChildren(Current(t))
      BY <2>3 DEF EndsPlayout, HasChildren
    <3> QED BY <1>7, <2>1, <2>3, <3>1, QuietStep DEF Descend, tree, Controls
  <2> QED BY <2>2, <2>3
<1>8. CASE UpdateResults(t)
  BY <1>8, PlayoutStep DEF UpdateResults, tree
<1>9. CASE EvalNode(t)
  <2>1. pc' = [pc EXCEPT ![t] = "eval"]
    BY <1>9 DEF EvalNode, IInv, FlagTypes
  <2> QED BY <1>9, <2>1, QuietStep DEF EvalNode, Controls, IInv, PathInv
<1>10. CASE EvalDone(t)
  BY <1>10, QuietStep DEF EvalDone, tree, Controls, IInv, PathInv
<1>11. CASE SubVirtualLosses(t)
  BY <1>11, QuietStep DEF SubVirtualLosses, tree, Controls, IInv, PathInv
<1>12. CASE Backup(t)
  BY <1>12, QuietStep DEF Backup, tree, Controls, IInv, PathInv
<1>13. CASE Check(t)
  <2>1. path[t] = << >> /\ Current(t) = head /\ HasChildren(head)
    BY <1>13 DEF Check, IInv, PathInv, Current
  <2>2. /\ pc[t] = "check" /\ UNCHANGED <<tree, path, searches>>
        /\ \E q \in {"idle", "select"} : pc' = [pc EXCEPT ![t] = q]
    BY <1>13 DEF Check
  <2> QED BY <2>1, <2>2, QuietStep DEF tree, Controls
<1> QED BY <1>1, <1>2, <1>3, <1>4, <1>5, <1>6, <1>7, <1>8, <1>9, <1>10, <1>11, <1>12, <1>13
        DEF Thread

(* IInv is an invariant of the search.                                      *)
THEOREM Inductive == Spec => []IInv
<1>1. IInv /\ [Next]_vars => IInv'
  <2> SUFFICES ASSUME IInv, [Next]_vars PROVE IInv'
    OBVIOUS
  <2>1. ASSUME UNCHANGED <<tree, pc, path, searches>> PROVE IInv'
    BY <2>1 DEF tree, IInv, FlagTypes, OpenInv, PathInv, FlagsSound, HasChildren, Current, End
  <2>2. CASE UNCHANGED vars \/ Ended
    BY <2>1, <2>2 DEF vars, control, Ended
  <2>3. ASSUME NEW h \in Nodes, Go(h) \/ GoOn(h) PROVE IInv'
    <3>1. PICK found \in BOOLEAN : Genmove(h, found)
      BY <2>3 DEF Go, GoOn
    <3> QED BY <3>1, GenmoveStep
  <2>4. ASSUME NEW t \in Threads, Thread(t) PROVE IInv'
    BY <2>4, ThreadStep
  <2>5. CASE StopUctSearch \/ PonderHit
    BY <2>1, <2>5 DEF StopUctSearch, PonderHit
  <2>6. ASSUME NEW n \in Nodes \ {Root}, PvMateFound(n) PROVE IInv'
    BY <2>6, PvMateStep
  <2> QED BY <2>2, <2>3, <2>4, <2>5, <2>6 DEF Next
<1> QED BY InitIInv, <1>1, PTL DEF Spec

(* A Win or Lose flag says what the position is worth, and Draw that it was *)
(* decided as a draw, whichever thread wrote it in whatever order.          *)
THEOREM FlagsAreSound == Spec => []FlagsSound
BY Inductive, PTL DEF IInv

(* A playout selects only in a node whose child array exists and is not     *)
(* empty (the part of SelectsReady about the children).                  *)
THEOREM SelectsHaveChildren ==
  Spec => [](\A t \in Threads : pc[t] = "select" => HasChildren(Current(t)))
<1>1. IInv => \A t \in Threads : pc[t] = "select" => HasChildren(Current(t))
  BY DEF IInv, PathInv
<1> QED BY Inductive, <1>1, PTL

-----------------------------------------------------------------------------
(* Evaluation and virtual losses.                                           *)
(* The playouts of t whose virtual losses are in the tree: the discarded    *)
(* ones of its batch until they are returned, and the one under way.  The   *)
(* uses of a node are those that left from it.                              *)
Trail(t)     == IF pc[t] \in {"backup", "check"} THEN << >> ELSE Append(discard[t], path[t])
UsedAt(t, n) == {j \in DOMAIN Trail(t) : n \in Origins(Trail(t)[j])}
Uses(n)      == UNION {{t} \X UsedAt(t, n) : t \in Threads}

(* The inductive invariant.  Whether a node is evaluated is read off its    *)
(* move_count, which virtual losses share: that their return never makes it *)
(* NOT_EXPANDED again, or hides that it was, needs Counted.                 *)
BatchTypes ==
  /\ created \in SUBSET Nodes /\ nmc \in [Nodes -> Int]
  /\ queue \in [Threads -> Seq(Seq(Nodes))] /\ discard \in [Threads -> Seq(Seq(Nodes))]
  /\ evaled \in [Threads -> Nat]

Waits(t) ==
  /\ \A j \in DOMAIN queue[t] :
       queue[t][j] # << >> /\ End(queue[t][j]) \in created \ {head}
  /\ evaled[t] <= Len(queue[t])
  /\ pc[t] \in {"unvl", "backup", "check"} => evaled[t] = Len(queue[t])
  /\ pc[t] \in {"idle", "root"} => queue[t] = << >> /\ discard[t] = << >> /\ evaled[t] = 0
Below(t)  == path[t] # << >> => Current(t) \in created /\ Ply[Current(t)] > Ply[head]
Places    == head \in created /\ \A t \in Threads : Waits(t) /\ Below(t)
Fresh     == \A n \in Nodes \ created : nmc[n] = NotExpanded
Counted   ==
  \A n \in Nodes : /\ IsFiniteSet(Uses(n))
                   /\ Cardinality(Uses(n)) <= IF nmc[n] = NotExpanded THEN 0 ELSE nmc[n]
Entered   ==
  \A t \in Threads : /\ pc[t] = "select" => IsEvaled(Current(t))
                     /\ pc[t] \notin {"idle", "root"} => IsEvaled(head)

EInv == BatchTypes /\ Places /\ Fresh /\ EvaluatedOnce /\ Counted /\ Entered

(* What makes the nodes of a playout rated as well: one that is evaluated   *)
(* and has no flag, or was not decided when it was created, came from the   *)
(* queue.  A head that did not has the flag of the move that led there, so  *)
(* no search from the position given keeps it.                              *)
HeadReady ==
  head \in rated \/ (Skipped(head) /\ head # Root /\ flag[head] # {})
Rated ==
  /\ IsEvaled(head) => HeadReady
  /\ \A n \in created \ {head} :
       IsEvaled(n) /\ (flag[n] = {} \/ ~ Decided(n)) => n \in rated
  /\ \A t \in Threads :
       /\ pc[t] = "flagged" => flag[Current(t)] # {} /\ Decided(Current(t))
       /\ pc[t] = "select"  => Current(t) \in rated \/ Skipped(Current(t))

-----------------------------------------------------------------------------
(* The forms of what threads hold and use.                                  *)
LEMMA NoOrigins == Origins(<< >>) = {}
BY DEF Origins, Range

LEMMA NewOrigin ==
  ASSUME NEW c \in Nodes, NEW i \in DOMAIN Kids[c], NEW p \in Seq(Nodes)
  PROVE  Origins(Append(p, Kids[c][i])) = Origins(p) \cup {c}
<1>1. Kids[c] \in Seq(Nodes) /\ Kids[c][i] \in Nodes
  BY TreeAssumption, KidInNodes
<1>2. Parent(Kids[c][i]) = c
  <2>1. Kids[c][i] \in KidSet(c)
    BY DEF KidSet, Range
  <2>2. \A n \in Nodes : Kids[c][i] \in KidSet(n) => n = c
    BY PathsAssumption DEF KidSet, Range
  <2> QED BY <2>1, <2>2 DEF Parent
<1>3. Range(Append(p, Kids[c][i])) = Range(p) \cup {Kids[c][i]}
  <2> DEFINE q == Append(p, Kids[c][i])
  <2>1. /\ DOMAIN q = 1 .. Len(p) + 1 /\ DOMAIN p = 1 .. Len(p)
        /\ \A j \in 1 .. Len(p) : q[j] = p[j]
        /\ q[Len(p) + 1] = Kids[c][i] /\ Len(p) \in Nat
    BY <1>1
  <2> HIDE DEF q
  <2> QED BY <2>1 DEF Range
<1> QED BY <1>2, <1>3 DEF Origins

LEMMA UsesMembers ==
  ASSUME NEW n
  PROVE  /\ \A t \in Threads : \A j : <<t, j>> \in Uses(n) <=> j \in UsedAt(t, n)
         /\ \A u \in Uses(n) : \E t \in Threads : \E j \in UsedAt(t, n) : u = <<t, j>>
BY DEF Uses

LEMMA WaitingMembers ==
  ASSUME NEW n
  PROVE  /\ \A t \in Threads : \A j : <<t, j>> \in Waiting(n) <=> j \in HeldAt(t, n)
         /\ \A w \in Waiting(n) : \E t \in Threads : \E j \in HeldAt(t, n) : w = <<t, j>>
BY DEF Waiting

UsedIs ==
  \A t \in Threads, n \in Nodes :
    UsedAt(t, n) =
      IF pc[t] \in {"backup", "check"} THEN {}
      ELSE {j \in 1 .. Len(discard[t]) : n \in Origins(discard[t][j])}
           \cup {j \in {Len(discard[t]) + 1} : n \in Origins(path[t])}

LEMMA UsedForm == BatchTypes /\ FlagTypes => UsedIs
<1> SUFFICES ASSUME BatchTypes, FlagTypes, NEW t \in Threads, NEW n \in Nodes
             PROVE  UsedAt(t, n) =
      IF pc[t] \in {"backup", "check"} THEN {}
      ELSE {j \in 1 .. Len(discard[t]) : n \in Origins(discard[t][j])}
           \cup {j \in {Len(discard[t]) + 1} : n \in Origins(path[t])}
  BY DEF UsedIs
<1>1. discard[t] \in Seq(Seq(Nodes)) /\ path[t] \in Seq(Nodes)
  BY DEF BatchTypes, FlagTypes
<1>2. CASE pc[t] \in {"backup", "check"}
  BY <1>2 DEF UsedAt, Trail
<1>3. CASE pc[t] \notin {"backup", "check"}
  <2> DEFINE q == Append(discard[t], path[t])
  <2>1. Trail(t) = q
    BY <1>3 DEF Trail
  <2>2. /\ DOMAIN q = 1 .. Len(discard[t]) + 1 /\ Len(discard[t]) \in Nat
        /\ \A j \in 1 .. Len(discard[t]) : q[j] = discard[t][j]
        /\ q[Len(discard[t]) + 1] = path[t]
    BY <1>1
  <2> HIDE DEF q
  <2> QED BY <1>3, <2>1, <2>2 DEF UsedAt
<1> QED BY <1>2, <1>3

LEMMA UsedFormNext == BatchTypes' /\ FlagTypes' => UsedIs'
BY UsedForm, PTL

-----------------------------------------------------------------------------
(* How the parts of the invariant are kept.                                 *)
Others(t) ==
  \A s \in Threads \ {t} :
    /\ pc'[s] = pc[s] /\ path'[s] = path[s] /\ queue'[s] = queue[s]
    /\ evaled'[s] = evaled[s] /\ discard'[s] = discard[s]

LEMMA OthersSame ==
  ASSUME NEW t \in Threads, Others(t), head' = head, NEW s \in Threads \ {t}
  PROVE  /\ Current(s)' = Current(s)
         /\ \A n \in Nodes : HeldAt(s, n)' = HeldAt(s, n) /\ UsedAt(s, n)' = UsedAt(s, n)
<1>1. Current(s)' = Current(s)
  BY DEF Others, Current, End
<1>2. Trail(s)' = Trail(s)
  BY DEF Others, Trail
<1>3. \A n \in Nodes : UsedAt(s, n)' = UsedAt(s, n)
  BY <1>2 DEF UsedAt
<1>4. \A n \in Nodes : HeldAt(s, n)' = HeldAt(s, n)
  BY <1>1 DEF Others, HeldAt, End
<1> QED BY <1>1, <1>3, <1>4

LEMMA WaitingSame ==
  ASSUME NEW t \in Threads, Others(t), head' = head, NEW n \in Nodes,
         HeldAt(t, n)' = HeldAt(t, n)
  PROVE  Waiting(n)' = Waiting(n)
<1>1. \A s \in Threads : HeldAt(s, n)' = HeldAt(s, n)
  BY OthersSame
<1> QED BY <1>1 DEF Waiting

(* Nothing is counted that was not, and a node that becomes evaluated had   *)
(* no virtual loss.                                                         *)
LEMMA CountedKept ==
  ASSUME Counted, BatchTypes, NEW t \in Threads, Others(t), head' = head,
         \A n \in Nodes : UsedAt(t, n)' \subseteq UsedAt(t, n),
         \A n \in Nodes : nmc'[n] = nmc[n] \/ (nmc[n] = NotExpanded /\ nmc'[n] = 0)
  PROVE  Counted'
<1> SUFFICES ASSUME NEW n \in Nodes
             PROVE  /\ IsFiniteSet(Uses(n)')
                    /\ Cardinality(Uses(n)') <= IF nmc'[n] = NotExpanded THEN 0 ELSE nmc'[n]
  BY DEF Counted
<1>1. Uses(n)' \subseteq Uses(n)
  <2>1. \A s \in Threads : UsedAt(s, n)' \subseteq UsedAt(s, n)
    BY OthersSame
  <2> QED BY <2>1 DEF Uses
<1>2. /\ IsFiniteSet(Uses(n))
      /\ Cardinality(Uses(n)) <= IF nmc[n] = NotExpanded THEN 0 ELSE nmc[n]
  BY DEF Counted
<1>3. IsFiniteSet(Uses(n)') /\ Cardinality(Uses(n)') <= Cardinality(Uses(n))
  BY <1>1, <1>2, FS_Subset
<1>4. Cardinality(Uses(n)') \in Nat /\ Cardinality(Uses(n)) \in Nat
  BY <1>2, <1>3, FS_CardinalityType
<1>5. nmc[n] \in Int
  BY DEF BatchTypes
<1>6. CASE nmc'[n] = nmc[n]
  BY <1>2, <1>3, <1>4, <1>5, <1>6 DEF NotExpanded
<1>7. CASE nmc[n] = NotExpanded /\ nmc'[n] = 0
  BY <1>2, <1>3, <1>4, <1>7 DEF NotExpanded
<1> QED BY <1>6, <1>7

(* No node is created or evaluated, and no place is taken or left.          *)
LEMMA OnceKept ==
  ASSUME EvaluatedOnce, NEW t \in Threads, Others(t), UNCHANGED <<head, created>>,
         created \subseteq Nodes,
         \A n \in Nodes : HeldAt(t, n)' = HeldAt(t, n),
         \A n \in created \ {head} : nmc'[n] = NotExpanded <=> nmc[n] = NotExpanded
  PROVE  EvaluatedOnce'
<1>1. \A n \in Nodes : Waiting(n)' = Waiting(n)
  BY WaitingSame
<1> QED BY <1>1 DEF EvaluatedOnce

(* A node that was waiting in a place of t is evaluated.                    *)
LEMMA OnceEvaluated ==
  ASSUME EvaluatedOnce, BatchTypes, NEW t \in Threads, Others(t), UNCHANGED <<head, created>>,
         NEW m \in created \ {head}, NEW j \in HeldAt(t, m),
         HeldAt(t, m)' = HeldAt(t, m) \ {j},
         \A n \in Nodes \ {m} : HeldAt(t, n)' = HeldAt(t, n),
         nmc' = [nmc EXCEPT ![m] = 0]
  PROVE  nmc[m] = NotExpanded /\ EvaluatedOnce'
<1>1. created \subseteq Nodes /\ nmc \in [Nodes -> Int] /\ m \in Nodes
  BY DEF BatchTypes
<1>2. <<t, j>> \in Waiting(m)
  BY WaitingMembers
<1>3. nmc[m] = NotExpanded /\ Waiting(m) = {<<t, j>>}
  BY <1>2 DEF EvaluatedOnce
<1>4. Waiting(m)' = {}
  <2>1. \A s \in Threads \ {t} : HeldAt(s, m)' = {}
    <3> SUFFICES ASSUME NEW s \in Threads \ {t} PROVE HeldAt(s, m) = {}
      BY <1>1, OthersSame
    <3>1. \A i \in HeldAt(s, m) : <<s, i>> \in Waiting(m)
      BY WaitingMembers
    <3> QED BY <1>3, <3>1
  <2>2. HeldAt(t, m)' = {}
    <3>1. \A i \in HeldAt(t, m) : <<t, i>> \in Waiting(m)
      BY WaitingMembers
    <3> QED BY <1>3, <3>1
  <2> QED BY <2>1, <2>2 DEF Waiting
<1>5. \A n \in Nodes \ {m} : Waiting(n)' = Waiting(n)
  BY WaitingSame
<1>6. ASSUME NEW n \in created \ {head}
      PROVE  IF nmc'[n] = NotExpanded THEN \E place \in Waiting(n)' : Waiting(n)' = {place}
             ELSE Waiting(n)' = {}
  <2>1. CASE n = m
    BY <1>1, <1>4, <2>1 DEF NotExpanded
  <2>2. CASE n # m
    <3>1. nmc'[n] = nmc[n] /\ Waiting(n)' = Waiting(n)
      BY <1>1, <1>5, <2>2
    <3> QED BY <3>1 DEF EvaluatedOnce
  <2> QED BY <2>1, <2>2
<1> QED BY <1>3, <1>6 DEF EvaluatedOnce

(* A step of t keeps the invariant when it keeps what it says of t.         *)
LEMMA StepKeeps ==
  ASSUME IInv, EInv, NEW t \in Threads, Others(t), head' = head, created \subseteq created',
         BatchTypes', Waits(t)', Below(t)', Fresh', EvaluatedOnce', Counted',
         \A n \in Nodes : IsEvaled(n) => IsEvaled(n)',
         pc'[t] = "select" => IsEvaled(Current(t))',
         pc'[t] \notin {"idle", "root"} => IsEvaled(head)'
  PROVE  EInv'
<1>1. \A s \in Threads \ {t} : Waits(s)'
  BY DEF EInv, Places, Waits, Others, End
<1>2. \A s \in Threads \ {t} : Below(s)'
  <2>1. \A s \in Threads \ {t} : Current(s)' = Current(s) /\ path'[s] = path[s]
    BY OthersSame DEF Others
  <2> QED BY <2>1 DEF EInv, Places, Below
<1>3. Places'
  BY <1>1, <1>2 DEF EInv, Places
<1>4. Entered'
  <2>1. ASSUME NEW s \in Threads \ {t}
        PROVE  /\ pc'[s] = "select" => IsEvaled(Current(s))'
               /\ pc'[s] \notin {"idle", "root"} => IsEvaled(head)'
    <3>1. Current(s)' = Current(s) /\ Current(s) \in Nodes /\ pc'[s] = pc[s]
      BY OthersSame, CurrentInNodes DEF Others, IInv
    <3>2. head \in Nodes
      BY DEF IInv, FlagTypes
    <3>3. IsEvaled(Current(s)) => IsEvaled(Current(s))'
      <4>1. \A n \in Nodes : nmc[n] # NotExpanded => nmc'[n] # NotExpanded
        BY DEF IsEvaled
      <4> QED BY <3>1, <4>1 DEF IsEvaled
    <3> QED BY <3>1, <3>2, <3>3 DEF EInv, Entered, IsEvaled
  <2> QED BY <2>1 DEF Entered
<1> QED BY <1>3, <1>4 DEF EInv

(* A step of t that creates no node and moves no waiting one; the head may  *)
(* become evaluated.                                                        *)
LEMMA PlainStep ==
  ASSUME IInv, EInv, NEW t \in Threads, Others(t), UNCHANGED <<head, created>>,
         BatchTypes', Waits(t)', Below(t)',
         nmc' = nmc \/ (nmc[head] = NotExpanded /\ nmc' = [nmc EXCEPT ![head] = 0]),
         \A n \in Nodes : HeldAt(t, n)' = HeldAt(t, n) /\ UsedAt(t, n)' \subseteq UsedAt(t, n),
         pc'[t] = "select" => IsEvaled(Current(t))',
         pc'[t] \notin {"idle", "root"} => IsEvaled(head)'
  PROVE  EInv'
<1>1. head \in Nodes /\ head \in created /\ nmc \in [Nodes -> Int] /\ created \in SUBSET Nodes
  BY DEF IInv, FlagTypes, EInv, Places, BatchTypes
<1>2. \A n \in Nodes : /\ nmc'[n] = nmc[n] \/ (nmc[n] = NotExpanded /\ nmc'[n] = 0)
                       /\ n # head => nmc'[n] = nmc[n]
  BY <1>1
<1>3. EvaluatedOnce'
  BY <1>1, <1>2, OnceKept DEF EInv
<1>4. Counted'
  BY <1>2, CountedKept DEF EInv
<1>5. Fresh'
  BY <1>1, <1>2 DEF EInv, Fresh
<1>6. \A n \in Nodes : IsEvaled(n) => IsEvaled(n)'
  BY <1>2 DEF IsEvaled, NotExpanded
<1> QED BY <1>3, <1>4, <1>5, <1>6, StepKeeps

-----------------------------------------------------------------------------
(* The steps of a thread.                                                   *)
LEMMA EvalRootKeeps ==
  ASSUME IInv, IInv', EInv, NEW t \in Threads, EvalRoot(t) PROVE EInv'
<1>1. /\ pc[t] = "root" /\ pc' = [pc EXCEPT ![t] = "select"] /\ path[t] = << >>
      /\ UNCHANGED <<head, created, path, batch>>
      /\ nmc' = IF IsEvaled(head) THEN nmc ELSE [nmc EXCEPT ![head] = 0]
  BY DEF EvalRoot, IInv, PathInv
<1>2. /\ Others(t) /\ pc'[t] = "select"
  BY <1>1 DEF Others, batch, IInv, FlagTypes
<1>3. /\ BatchTypes /\ head \in Nodes /\ nmc \in [Nodes -> Int]
  BY DEF EInv, BatchTypes, IInv, FlagTypes
<1>4. BatchTypes'
  <2>1. nmc' \in [Nodes -> Int]
    BY <1>1, <1>3
  <2> QED BY <1>1, <1>3, <2>1 DEF BatchTypes, batch
<1>5. IsEvaled(head)' /\ Current(t)' = head
  BY <1>1, <1>3 DEF IsEvaled, Current, NotExpanded
<1>6. Waits(t)' /\ Below(t)'
  BY <1>1, <1>2 DEF EInv, Places, Waits, Below, batch, End
<1>7. ASSUME NEW n \in Nodes
      PROVE  HeldAt(t, n)' = HeldAt(t, n) /\ UsedAt(t, n)' \subseteq UsedAt(t, n)
  <2>1. HeldAt(t, n)' = HeldAt(t, n)
    BY <1>1, <1>2 DEF HeldAt, batch, End
  <2>2. Trail(t)' = Trail(t)
    BY <1>1, <1>2 DEF Trail, batch
  <2> QED BY <2>1, <2>2 DEF UsedAt
<1>8. nmc' = nmc \/ (nmc[head] = NotExpanded /\ nmc' = [nmc EXCEPT ![head] = 0])
  BY <1>1 DEF IsEvaled
<1>9. Current(t)' = head' /\ IsEvaled(Current(t))'
  BY <1>1, <1>5 DEF IsEvaled
<1> QED BY <1>1, <1>2, <1>4, <1>5, <1>6, <1>7, <1>8, <1>9, PlainStep

(* The ends of EvalNode and of the backup, and what leaves the path alone.  *)
LEMMA QuietKeeps ==
  ASSUME IInv, IInv', EInv, NEW t \in Threads, UNCHANGED <<head, created, nmc, path, batch>>,
         pc[t] \notin {"idle", "root", "select"},
         NEW q \in Controls, pc' = [pc EXCEPT ![t] = q],
         q \notin {"idle", "root"},
         q \in {"leaf", "flagged"} <=> pc[t] \in {"leaf", "flagged"},
         q \in {"unvl", "backup", "check"} => evaled[t] = Len(queue[t]),
         pc[t] \in {"backup", "check"} => q \in {"backup", "check"},
         q = "select" => IsEvaled(Current(t))
  PROVE  EInv'
<1>1. Others(t) /\ pc'[t] = q
  BY DEF Others, batch, IInv, FlagTypes
<1>2. BatchTypes /\ BatchTypes'
  BY DEF EInv, BatchTypes, batch
<1>3. Waits(t)' /\ Below(t)'
  <2>1. Current(t)' = Current(t)
    BY DEF Current, End
  <2>2. Waits(t) /\ Below(t)
    BY DEF EInv, Places
  <2>3. Waits(t)'
    BY <1>1, <2>2 DEF Waits, batch, End
  <2>4. Below(t)'
    BY <2>1, <2>2 DEF Below
  <2> QED BY <2>3, <2>4
<1>4. ASSUME NEW n \in Nodes
      PROVE  HeldAt(t, n)' = HeldAt(t, n) /\ UsedAt(t, n)' \subseteq UsedAt(t, n)
  <2>1. HeldAt(t, n)' = HeldAt(t, n)
    BY <1>1 DEF HeldAt, batch, End, Current
  <2>2. CASE q \in {"backup", "check"}
    BY <1>1, <1>2, <2>1, <2>2, UsedFormNext DEF UsedIs, IInv
  <2>3. CASE q \notin {"backup", "check"}
    <3>1. Trail(t)' = Trail(t)
      BY <1>1, <2>3 DEF Trail, batch
    <3> QED BY <2>1, <3>1 DEF UsedAt
  <2> QED BY <2>2, <2>3
<1>5. pc'[t] = "select" => IsEvaled(Current(t))'
  BY <1>1 DEF IsEvaled, Current, End
<1>6. pc'[t] \notin {"idle", "root"} => IsEvaled(head)'
  BY DEF EInv, Entered, IsEvaled
<1> QED BY <1>1, <1>2, <1>3, <1>4, <1>5, <1>6, PlainStep

LEMMA DroppedPath ==
  ASSUME IInv, IInv', BatchTypes, BatchTypes', NEW t \in Threads, NEW n \in Nodes,
         pc[t] \notin {"backup", "check"}, path'[t] = << >>, discard' = discard
  PROVE  UsedAt(t, n)' \subseteq UsedAt(t, n)
<1>1. UsedAt(t, n) = {j \in 1 .. Len(discard[t]) : n \in Origins(discard[t][j])}
                     \cup {j \in {Len(discard[t]) + 1} : n \in Origins(path[t])}
  BY UsedForm DEF UsedIs, IInv
<1>2. UsedAt(t, n)' \subseteq {j \in 1 .. Len(discard'[t]) : n \in Origins(discard[t][j])'}
                             \cup {j \in {Len(discard'[t]) + 1} : n \in Origins(path[t])'}
  BY UsedFormNext DEF UsedIs, IInv
<1>3. Origins(path[t])' = {}
  BY NoOrigins DEF Origins
<1>4. \A j \in 1 .. Len(discard[t]) : Origins(discard[t][j])' = Origins(discard[t][j])
  BY DEF Origins
<1> QED BY <1>1, <1>2, <1>3, <1>4

(* A playout that leaves nothing waiting ends or is discarded: its virtual  *)
(* losses are dropped from the count or keep their place in it.             *)
LEMMA NextKeeps ==
  ASSUME IInv, IInv', EInv, NEW t \in Threads, NextPlayout(t),
         UNCHANGED <<head, created, nmc, queue, evaled>>,
         pc[t] \in {"descend", "done"},
         discard' = discard \/ discard' = [discard EXCEPT ![t] = Append(@, path[t])]
  PROVE  EInv'
<1>1. PICK q \in {"eval", "select"} : pc' = [pc EXCEPT ![t] = q]
  BY DEF NextPlayout
<1>2. /\ path' = [path EXCEPT ![t] = << >>] /\ pc'[t] = q /\ path'[t] = << >>
      /\ path[t] \in Seq(Nodes) /\ path \in [Threads -> Seq(Nodes)]
  BY <1>1 DEF NextPlayout, IInv, FlagTypes
<1>3. BatchTypes /\ discard \in [Threads -> Seq(Seq(Nodes))]
  BY DEF EInv, BatchTypes
<1>4. BatchTypes'
  <2>1. discard' \in [Threads -> Seq(Seq(Nodes))]
    <3>1. Append(discard[t], path[t]) \in Seq(Seq(Nodes))
      <4>1. discard[t] \in Seq(Seq(Nodes)) /\ path[t] \in Seq(Nodes)
        BY <1>2, <1>3
      <4> QED BY <4>1
    <3> QED BY <1>3, <3>1
  <2> QED BY <1>3, <2>1 DEF BatchTypes
<1>5. Others(t)
  BY <1>1, <1>2, <1>3 DEF Others, IInv, FlagTypes
<1>6. Waits(t)' /\ Below(t)'
  BY <1>1, <1>2 DEF EInv, Places, Waits, Below, End
<1>7. ASSUME NEW n \in Nodes PROVE HeldAt(t, n)' = HeldAt(t, n)
  BY <1>1, <1>2 DEF HeldAt, End
<1>8. ASSUME NEW n \in Nodes PROVE UsedAt(t, n)' \subseteq UsedAt(t, n)
  <2>1. UsedAt(t, n) = {j \in 1 .. Len(discard[t]) : n \in Origins(discard[t][j])}
                       \cup {j \in {Len(discard[t]) + 1} : n \in Origins(path[t])}
    BY <1>3, UsedForm DEF UsedIs, IInv
  <2>2. UsedAt(t, n)' = {j \in 1 .. Len(discard'[t]) : n \in Origins(discard[t][j])'}
                       \cup {j \in {Len(discard'[t]) + 1} : n \in Origins(path[t])'}
    BY <1>2, <1>4, UsedFormNext DEF UsedIs, IInv
  <2>3. Origins(path[t])' = {}
    BY <1>2, NoOrigins DEF Origins
  <2>4. CASE discard' = discard
    BY <1>2, <1>3, <1>4, <2>4, DroppedPath
  <2>5. CASE discard' = [discard EXCEPT ![t] = Append(@, path[t])]
    <3>1. /\ Len(discard'[t]) = Len(discard[t]) + 1 /\ Len(discard[t]) \in Nat
          /\ \A j \in 1 .. Len(discard[t]) : discard'[t][j] = discard[t][j]
          /\ discard'[t][Len(discard[t]) + 1] = path[t]
      BY <1>2, <1>3, <2>5
    <3>2. \A j \in 1 .. Len(discard[t]) : Origins(discard[t][j])' = Origins(discard[t][j])
      BY <3>1 DEF Origins
    <3>3. ASSUME NEW j \in UsedAt(t, n)' PROVE j \in UsedAt(t, n)
      <4>1. j \in 1 .. Len(discard'[t]) /\ n \in Origins(discard[t][j])'
        BY <2>2, <2>3, <3>3
      <4>2. CASE j \in 1 .. Len(discard[t])
        BY <2>1, <3>2, <4>1, <4>2
      <4>3. CASE j = Len(discard[t]) + 1
        <5>1. n \in Origins(path[t])
          <6>1. Origins(discard[t][j])' = Origins(path[t])
            <7>1. discard'[t][j] = path[t]
              BY <3>1, <4>3
            <7> QED BY <7>1 DEF Origins
          <6> QED BY <4>1, <6>1
        <5> QED BY <2>1, <4>3, <5>1
      <4> QED BY <3>1, <4>1, <4>2, <4>3
    <3> QED BY <3>3
  <2> QED BY <2>4, <2>5
<1>9. Current(t)' = head /\ IsEvaled(head)
  BY <1>2 DEF EInv, Entered, Current
<1>10. IsEvaled(Current(t))' /\ IsEvaled(head)'
  BY <1>9 DEF IsEvaled
<1> QED BY <1>4, <1>5, <1>6, <1>7, <1>8, <1>10, PlainStep

LEMMA SetLeafEvaledKeeps ==
  ASSUME IInv, IInv', EInv, NEW t \in Threads, SetLeafEvaled(t) PROVE EInv'
<1>m. PICK m \in Nodes : m = Current(t)
  BY CurrentInNodes DEF IInv
<1>1. /\ pc[t] = "flagged" /\ pc' = [pc EXCEPT ![t] = "done"] /\ path[t] # << >>
      /\ UNCHANGED <<head, created, path, batch>>
      /\ nmc' = [nmc EXCEPT ![m] = 0]
  BY <1>m DEF SetLeafEvaled, tree, IInv, PathInv
<1>2. m \in created /\ m \in Nodes /\ m # head
  <2>1. Ply[m] > Ply[head] /\ m \in created
    BY <1>m, <1>1 DEF EInv, Places, Below
  <2>2. m \in Nodes /\ head \in Nodes
    BY DEF IInv, FlagTypes
  <2> QED BY <2>1, <2>2, PlyAssumption
<1>3. Current(t)' = m
  BY <1>m, <1>1 DEF Current, End
<1>4. Others(t) /\ pc'[t] = "done"
  BY <1>1 DEF Others, batch, IInv, FlagTypes
<1>5. BatchTypes /\ nmc \in [Nodes -> Int] /\ evaled[t] \in Nat
  BY DEF EInv, BatchTypes
<1>6. BatchTypes'
  <2>1. nmc' \in [Nodes -> Int]
    BY <1>1, <1>2, <1>5
  <2> QED BY <1>1, <1>5, <2>1 DEF BatchTypes, batch
<1>7. Waits(t)' /\ Below(t)'
  BY <1>m, <1>1, <1>3, <1>4 DEF EInv, Places, Waits, Below, batch, End
<1>8. \A n \in Nodes : UsedAt(t, n)' = UsedAt(t, n)
  BY <1>1, <1>4 DEF UsedAt, Trail, batch
<1>9. 0 \in HeldAt(t, m) /\ HeldAt(t, m)' = HeldAt(t, m) \ {0}
  BY <1>m, <1>1, <1>3, <1>4, <1>5 DEF HeldAt, batch, End
<1>10. \A n \in Nodes \ {m} : HeldAt(t, n)' = HeldAt(t, n)
  BY <1>m, <1>1, <1>3, <1>4 DEF HeldAt, batch, End
<1>11. nmc[m] = NotExpanded /\ EvaluatedOnce'
  BY <1>1, <1>2, <1>4, <1>5, <1>9, <1>10, OnceEvaluated DEF EInv
<1>12. \A n \in Nodes : nmc'[n] = nmc[n] \/ (nmc[n] = NotExpanded /\ nmc'[n] = 0)
  BY <1>1, <1>2, <1>5, <1>11
<1>13. Counted'
  BY <1>1, <1>4, <1>5, <1>8, <1>12, CountedKept DEF EInv
<1>14. Fresh'
  BY <1>1, <1>2, <1>5 DEF EInv, Fresh
<1>15. \A n \in Nodes : IsEvaled(n) => IsEvaled(n)'
  BY <1>12 DEF IsEvaled, NotExpanded
<1>16. IsEvaled(head)'
  <2>1. IsEvaled(head) /\ head \in Nodes
    BY <1>1 DEF EInv, Entered, IInv, FlagTypes
  <2> QED BY <2>1, <1>1, <1>12 DEF IsEvaled, NotExpanded
<1> QED BY <1>1, <1>4, <1>6, <1>7, <1>11, <1>13, <1>14, <1>15, <1>16, StepKeeps

LEMMA EvalNodeKeeps ==
  ASSUME IInv, IInv', EInv, NEW t \in Threads, EvalNode(t) PROVE EInv'
<1>j. PICK j : j = evaled[t] + 1
  OBVIOUS
<1>m. PICK m : m = End(queue[t][j])
  OBVIOUS
<1>1. /\ pc[t] = "eval" /\ evaled[t] < Len(queue[t])
      /\ UNCHANGED <<head, created, pc, path, queue, discard>>
      /\ nmc' = [nmc EXCEPT ![m] = 0] /\ evaled' = [evaled EXCEPT ![t] = j]
  BY <1>j, <1>m DEF EvalNode
<1>2. /\ BatchTypes /\ nmc \in [Nodes -> Int] /\ evaled \in [Threads -> Nat]
      /\ queue[t] \in Seq(Seq(Nodes)) /\ created \in SUBSET Nodes
  BY DEF EInv, BatchTypes
<1>3. j \in DOMAIN queue[t] /\ j \in Nat /\ evaled[t] \in Nat /\ evaled'[t] = j
  BY <1>j, <1>1, <1>2
<1>4. m \in created \ {head} /\ m \in Nodes
  BY <1>m, <1>2, <1>3 DEF EInv, Places, Waits
<1>5. Others(t)
  BY <1>1, <1>2 DEF Others
<1>6. BatchTypes'
  <2>1. nmc' \in [Nodes -> Int]
    BY <1>1, <1>2, <1>4
  <2>2. evaled' \in [Threads -> Nat]
    BY <1>1, <1>2, <1>3
  <2> QED BY <1>1, <1>2, <2>1, <2>2 DEF BatchTypes
<1>7. Waits(t)' /\ Below(t)'
  <2>1. Waits(t)'
    BY <1>j, <1>1, <1>2, <1>3 DEF EInv, Places, Waits, End
  <2>2. Below(t)'
    BY <1>1 DEF EInv, Places, Below, Current, End
  <2> QED BY <2>1, <2>2
<1>8. \A n \in Nodes : UsedAt(t, n)' = UsedAt(t, n)
  BY <1>1 DEF UsedAt, Trail
<1>9. \A n \in Nodes : /\ HeldAt(t, n)  = {i \in j .. Len(queue[t]) : End(queue[t][i]) = n}
                       /\ HeldAt(t, n)' = {i \in j + 1 .. Len(queue[t]) : End(queue[t][i]) = n}
  BY <1>j, <1>1, <1>3 DEF HeldAt, End
<1>10. j \in HeldAt(t, m) /\ HeldAt(t, m)' = HeldAt(t, m) \ {j}
  <2>1. j \in j .. Len(queue[t]) /\ Len(queue[t]) \in Nat
    BY <1>2, <1>3
  <2> QED BY <1>m, <1>3, <1>4, <1>9, <2>1
<1>11. \A n \in Nodes \ {m} : HeldAt(t, n)' = HeldAt(t, n)
  <2> SUFFICES ASSUME NEW n \in Nodes \ {m} PROVE HeldAt(t, n)' = HeldAt(t, n)
    OBVIOUS
  <2>1. \A i \in j .. Len(queue[t]) : i = j \/ i \in j + 1 .. Len(queue[t])
    BY <1>2, <1>3
  <2>2. \A i \in j + 1 .. Len(queue[t]) : i \in j .. Len(queue[t])
    BY <1>2, <1>3
  <2>3. End(queue[t][j]) # n
    BY <1>m
  <2> QED BY <1>9, <2>1, <2>2, <2>3
<1>12. nmc[m] = NotExpanded /\ EvaluatedOnce'
  BY <1>1, <1>2, <1>4, <1>5, <1>10, <1>11, OnceEvaluated DEF EInv
<1>13. \A n \in Nodes : nmc'[n] = nmc[n] \/ (nmc[n] = NotExpanded /\ nmc'[n] = 0)
  BY <1>1, <1>2, <1>4, <1>12
<1>14. Counted'
  BY <1>1, <1>2, <1>5, <1>8, <1>13, CountedKept DEF EInv
<1>15. Fresh'
  BY <1>1, <1>2, <1>4 DEF EInv, Fresh
<1>16. \A n \in Nodes : IsEvaled(n) => IsEvaled(n)'
  BY <1>13 DEF IsEvaled, NotExpanded
<1>17. IsEvaled(head)'
  <2>1. IsEvaled(head) /\ head \in Nodes
    BY <1>1 DEF EInv, Entered, IInv, FlagTypes
  <2> QED BY <2>1, <1>1, <1>13 DEF IsEvaled, NotExpanded
<1> QED BY <1>1, <1>5, <1>6, <1>7, <1>12, <1>14, <1>15, <1>16, <1>17, StepKeeps

(* A leaf that was being created waits in the queue now.                    *)
LEMMA LeafQueuedKeeps ==
  ASSUME IInv, IInv', EInv, NEW t \in Threads, LeafQueued(t) PROVE EInv'
<1>m. PICK m \in Nodes : m = Current(t)
  BY CurrentInNodes DEF IInv
<1>1. /\ pc[t] = "leaf" /\ path[t] # << >> /\ path[t] \in Seq(Nodes) /\ m = End(path[t])
      /\ UNCHANGED <<head, created, nmc, evaled, discard>> /\ NextPlayout(t)
      /\ queue' = [queue EXCEPT ![t] = Append(queue[t], path[t])]
  BY <1>m DEF LeafQueued, IInv, PathInv, FlagTypes, stats, Current
<1>2. PICK q \in {"eval", "select"} : pc' = [pc EXCEPT ![t] = q]
  BY <1>1 DEF NextPlayout
<1>3. /\ path' = [path EXCEPT ![t] = << >>] /\ pc'[t] = q /\ path'[t] = << >>
  BY <1>1, <1>2 DEF NextPlayout, IInv, FlagTypes
<1>4. /\ BatchTypes /\ queue \in [Threads -> Seq(Seq(Nodes))] /\ queue[t] \in Seq(Seq(Nodes))
      /\ evaled[t] \in Nat /\ evaled[t] <= Len(queue[t])
  BY DEF EInv, BatchTypes, Places, Waits
<1>l. PICK l \in Nat : l = Len(queue[t])
  BY <1>4
<1>5. /\ Append(queue[t], path[t]) \in Seq(Seq(Nodes))
      /\ queue'[t] = Append(queue[t], path[t]) /\ Len(queue'[t]) = l + 1
      /\ \A j \in 1 .. l : queue'[t][j] = queue[t][j]
      /\ queue'[t][l + 1] = path[t]
  BY <1>1, <1>4, <1>l
<1>6. BatchTypes'
  <2>1. queue' \in [Threads -> Seq(Seq(Nodes))]
    BY <1>1, <1>4, <1>5
  <2> QED BY <1>1, <1>4, <2>1 DEF BatchTypes
<1>7. Others(t)
  BY <1>1, <1>2, <1>3, <1>4 DEF Others, IInv, FlagTypes
<1>8. m \in created \ {head}
  <2>1. Ply[m] > Ply[head] /\ m \in created
    BY <1>m, <1>1 DEF EInv, Places, Below
  <2>2. head \in Nodes
    BY DEF IInv, FlagTypes
  <2> QED BY <2>1, <2>2, PlyAssumption
<1>9. Waits(t)' /\ Below(t)'
  <2>1. ASSUME NEW j \in DOMAIN queue'[t]
        PROVE  queue'[t][j] # << >> /\ End(queue[t][j])' \in created' \ {head'}
    <3>1. j \in 1 .. l \/ j = l + 1
      BY <1>5, <2>1
    <3>2. CASE j \in 1 .. l
      <4>1. queue[t][j] # << >> /\ End(queue[t][j]) \in created \ {head}
        BY <1>4, <1>l, <3>2 DEF EInv, Places, Waits
      <4> QED BY <1>1, <1>5, <3>2, <4>1 DEF End
    <3>3. CASE j = l + 1
      BY <1>1, <1>5, <1>8, <3>3 DEF End
    <3> QED BY <3>1, <3>2, <3>3
  <2>2. evaled'[t] <= Len(queue'[t])
    BY <1>1, <1>4, <1>5, <1>l
  <2>3. pc'[t] \notin {"idle", "root", "unvl", "backup", "check"}
    BY <1>2, <1>3
  <2>4. Waits(t)'
    BY <2>1, <2>2, <2>3 DEF Waits, End
  <2> QED BY <1>3, <2>4 DEF Below
<1>10. \A n \in Nodes : UsedAt(t, n)' \subseteq UsedAt(t, n)
  BY <1>1, <1>3, <1>4, <1>6, DroppedPath
<1>11. \A n \in Nodes :
        /\ HeldAt(t, n) = {j \in {0} : n = m} \cup {j \in evaled[t] + 1 .. l : End(queue[t][j]) = n}
        /\ HeldAt(t, n)' = {j \in evaled[t] + 1 .. l + 1 : End(queue[t][j])' = n}
  BY <1>m, <1>l, <1>1, <1>2, <1>3, <1>5 DEF HeldAt, End
<1>12. \A j \in evaled[t] + 1 .. l : End(queue[t][j])' = End(queue[t][j])
  <2>1. \A j \in evaled[t] + 1 .. l : j \in 1 .. l
    BY <1>4
  <2> QED BY <1>5, <2>1 DEF End
<1>13. End(queue[t][l + 1])' = m
  <2>1. queue'[t][(l + 1)'] = path[t]
    BY <1>5
  <2> QED BY <1>1, <2>1 DEF End
<1>14. \A j : j \in evaled[t] + 1 .. l + 1 <=> j \in evaled[t] + 1 .. l \/ j = l + 1
  BY <1>4, <1>l
<1>15. \A n \in Nodes \ {m} : HeldAt(t, n)' = HeldAt(t, n)
  BY <1>11, <1>12, <1>13, <1>14
<1>16. 0 \in HeldAt(t, m) /\ HeldAt(t, m)' \subseteq HeldAt(t, m) \cup {l + 1} /\ l + 1 \in HeldAt(t, m)'
       /\ 0 \notin HeldAt(t, m)'
  <2>1. 0 \notin evaled[t] + 1 .. l + 1
    BY <1>4
  <2> QED BY <1>11, <1>12, <1>13, <1>14, <2>1
<1>17. <<t, 0>> \in Waiting(m)
  BY <1>16, WaitingMembers
<1>18. nmc[m] = NotExpanded /\ Waiting(m) = {<<t, 0>>}
  BY <1>8, <1>17 DEF EInv, EvaluatedOnce
<1>19. Waiting(m)' = {<<t, l + 1>>}
  <2>1. HeldAt(t, m)' = {l + 1}
    <3>1. \A i \in HeldAt(t, m) : <<t, i>> \in Waiting(m)
      BY WaitingMembers
    <3>2. HeldAt(t, m) = {0}
      BY <1>16, <1>18, <3>1
    <3> QED BY <1>16, <3>2
  <2>2. \A s \in Threads \ {t} : HeldAt(s, m)' = {}
    <3> SUFFICES ASSUME NEW s \in Threads \ {t} PROVE HeldAt(s, m) = {}
      BY <1>1, <1>7, OthersSame
    <3>1. \A i \in HeldAt(s, m) : <<s, i>> \in Waiting(m)
      BY WaitingMembers
    <3> QED BY <1>18, <3>1
  <2> QED BY <2>1, <2>2 DEF Waiting
<1>20. EvaluatedOnce'
  <2>1. \A n \in Nodes \ {m} : Waiting(n)' = Waiting(n)
    BY <1>1, <1>7, <1>15, WaitingSame
  <2>2. created \in SUBSET Nodes
    BY <1>4 DEF BatchTypes
  <2>3. ASSUME NEW n \in created \ {head}
        PROVE  IF nmc'[n] = NotExpanded THEN \E place \in Waiting(n)' : Waiting(n)' = {place}
               ELSE Waiting(n)' = {}
    <3>1. CASE n = m
      BY <1>1, <1>18, <1>19, <3>1
    <3>2. CASE n # m
      <4>1. nmc'[n] = nmc[n] /\ Waiting(n)' = Waiting(n)
        BY <1>1, <2>1, <2>2, <3>2
      <4> QED BY <4>1 DEF EInv, EvaluatedOnce
    <3> QED BY <3>1, <3>2
  <2> QED BY <1>1, <2>3 DEF EvaluatedOnce
<1>21. Counted'
  BY <1>1, <1>4, <1>7, <1>10, CountedKept DEF EInv
<1>22. Fresh'
  BY <1>1 DEF EInv, Fresh
<1>23. Current(t)' = head /\ IsEvaled(head)
  BY <1>1, <1>3 DEF EInv, Entered, Current
<1>24. IsEvaled(Current(t))' /\ IsEvaled(head)'
  BY <1>1, <1>23 DEF IsEvaled
<1>25. \A n \in Nodes : IsEvaled(n) => IsEvaled(n)'
  BY <1>1 DEF IsEvaled
<1> QED BY <1>1, <1>6, <1>7, <1>9, <1>20, <1>21, <1>22, <1>24, <1>25, StepKeeps

(* A playout enters a child: it adds a virtual loss to the node it leaves,  *)
(* and is the one place of the child when it creates it.                    *)
LEMMA SelectKeeps ==
  ASSUME IInv, IInv', EInv, NEW t \in Threads, Select(t) PROVE EInv'
<1>c. PICK c \in Nodes : c = Current(t)
  BY CurrentInNodes DEF IInv
<1>1. /\ pc[t] = "select" /\ HasChildren(c) /\ IsEvaled(c) /\ IsEvaled(head)
      /\ UNCHANGED <<head, queue, evaled, discard>>
  BY <1>c DEF Select, IInv, PathInv, EInv, Entered, batch
<1>2. PICK i \in DOMAIN Kids[c] :
        /\ AddVirtualLoss(c, Kids[c][i])
        /\ path' = [path EXCEPT ![t] = Append(@, Kids[c][i])]
        /\ created' = created \cup {Kids[c][i]}
        /\ pc' = [pc EXCEPT ![t] = IF Kids[c][i] \in created THEN "descend" ELSE "leaf"]
  <2>1. 1 \in DOMAIN Kids[c]
    BY <1>1, TreeAssumption DEF HasChildren
  <2>2. Candidates(c) \subseteq DOMAIN Kids[c]
    BY <2>1 DEF Candidates, Wins, Loses
  <2> QED BY <1>c, <2>2 DEF Select
<1>k. PICK k \in Nodes : k = Kids[c][i]
  BY KidInNodes
<1>q. PICK q \in {"descend", "leaf"} : q = IF k \in created THEN "descend" ELSE "leaf"
  OBVIOUS
<1>3. /\ BatchTypes /\ nmc \in [Nodes -> Int] /\ created \in SUBSET Nodes
      /\ discard[t] \in Seq(Seq(Nodes)) /\ head \in Nodes /\ head \in created
      /\ path[t] \in Seq(Nodes) /\ path \in [Threads -> Seq(Nodes)]
      /\ evaled[t] \in Nat /\ evaled[t] <= Len(queue[t])
  BY DEF EInv, BatchTypes, IInv, FlagTypes, Places, Waits
<1>4. /\ nmc' = [nmc EXCEPT ![c] = nmc[c] + 1] /\ created' = created \cup {k}
      /\ pc' = [pc EXCEPT ![t] = q] /\ pc'[t] = q
      /\ path' = [path EXCEPT ![t] = Append(path[t], k)]
  BY <1>2, <1>k, <1>q DEF AddVirtualLoss, IInv, FlagTypes
<1>5. path'[t] = Append(path[t], k) /\ path'[t] # << >> /\ Current(t)' = k
  <2>1. path'[t] = Append(path[t], k)
    BY <1>3, <1>4
  <2>2. Append(path[t], k) # << >> /\ End(Append(path[t], k)) = k
    <3>1. path[t] \in Seq(Nodes)
      BY <1>3
    <3>2. /\ Len(Append(path[t], k)) = Len(path[t]) + 1
          /\ Append(path[t], k)[Len(path[t]) + 1] = k
      BY <3>1
    <3>3. Append(path[t], k) # << >>
      BY <3>1, <3>2
    <3> QED BY <3>2, <3>3 DEF End
  <2> QED BY <2>1, <2>2 DEF Current, End
<1>6. c \in created /\ Ply[k] > Ply[head] /\ k # head
  <2>1. c \in created /\ Ply[c] >= Ply[head]
    <3>1. CASE path[t] = << >>
      BY <1>c, <1>3, <3>1, PlyAssumption DEF Current
    <3>2. CASE path[t] # << >>
      BY <1>c, <1>3, <3>2, PlyAssumption DEF EInv, Places, Below
    <3> QED BY <3>1, <3>2
  <2>2. Ply[k] = Ply[c] + 1
    <3>1. k \in KidSet(c)
      BY <1>k DEF KidSet, Range
    <3> QED BY <3>1, PlyAssumption
  <2> QED BY <1>3, <2>1, <2>2, PlyAssumption
<1>7. nmc[c] \in Nat /\ nmc'[c] = nmc[c] + 1 /\ \A n \in Nodes \ {c} : nmc'[n] = nmc[n]
  <2>1. /\ IsFiniteSet(Uses(c))
        /\ Cardinality(Uses(c)) <= nmc[c]
    BY <1>1 DEF EInv, Counted, IsEvaled
  <2>2. Cardinality(Uses(c)) \in Nat
    BY <2>1, FS_CardinalityType
  <2> QED BY <1>3, <1>4, <2>1, <2>2
<1>8. BatchTypes'
  <2>1. nmc' \in [Nodes -> Int]
    BY <1>3, <1>4, <1>7
  <2> QED BY <1>1, <1>3, <1>4, <2>1 DEF BatchTypes
<1>9. Others(t)
  BY <1>1, <1>3, <1>4 DEF Others, IInv, FlagTypes
<1>10. Waits(t)' /\ Below(t)'
  <2>1. Waits(t)'
    BY <1>1, <1>4 DEF EInv, Places, Waits, End
  <2>2. Below(t)'
    BY <1>1, <1>4, <1>5, <1>6 DEF Below
  <2> QED BY <2>1, <2>2
<1>11. \A n \in Nodes :
        HeldAt(t, n)' = HeldAt(t, n) \cup {j \in {0} : k \notin created /\ n = k}
  BY <1>1, <1>4, <1>5, <1>q DEF HeldAt, End
<1>12. ASSUME NEW n \in Nodes
       PROVE  UsedAt(t, n)' = UsedAt(t, n) \cup {j \in {Len(discard[t]) + 1} : n = c}
  <2>1. UsedAt(t, n) = {j \in 1 .. Len(discard[t]) : n \in Origins(discard[t][j])}
                       \cup {j \in {Len(discard[t]) + 1} : n \in Origins(path[t])}
    BY <1>1, <1>3, UsedForm DEF UsedIs, IInv
  <2>2. UsedAt(t, n)' = {j \in 1 .. Len(discard'[t]) : n \in Origins(discard[t][j])'}
                       \cup {j \in {Len(discard'[t]) + 1} : n \in Origins(path[t])'}
    BY <1>4, <1>8, UsedFormNext DEF UsedIs, IInv
  <2>3. Origins(path[t])' = Origins(path[t]) \cup {c}
    <3>1. Origins(Append(path[t], k)) = Origins(path[t]) \cup {c}
      BY <1>k, <1>3, NewOrigin
    <3> QED BY <1>5, <3>1 DEF Origins
  <2>4. \A j \in 1 .. Len(discard[t]) : Origins(discard[t][j])' = Origins(discard[t][j])
    BY <1>1 DEF Origins
  <2> QED BY <1>1, <2>1, <2>2, <2>3, <2>4
<1>13. Counted'
  <2> SUFFICES ASSUME NEW n \in Nodes
               PROVE  /\ IsFiniteSet(Uses(n)')
                      /\ Cardinality(Uses(n)') <= IF nmc'[n] = NotExpanded THEN 0 ELSE nmc'[n]
    BY DEF Counted
  <2>1. /\ IsFiniteSet(Uses(n))
        /\ Cardinality(Uses(n)) <= IF nmc[n] = NotExpanded THEN 0 ELSE nmc[n]
    BY DEF EInv, Counted
  <2>2. \A s \in Threads \ {t} : UsedAt(s, n)' = UsedAt(s, n)
    BY <1>1, <1>9, OthersSame
  <2>3. CASE n = c
    <3>d. PICK d : d = Len(discard[t]) + 1
      OBVIOUS
    <3>1. Uses(n)' = Uses(n) \cup {<<t, d>>}
      <4>1. UsedAt(t, n)' = UsedAt(t, n) \cup {d}
        BY <1>12, <2>3, <3>d
      <4> QED BY <2>2, <4>1 DEF Uses
    <3>2. /\ IsFiniteSet(Uses(n)')
          /\ Cardinality(Uses(n)') = IF <<t, d>> \in Uses(n) THEN Cardinality(Uses(n))
                                     ELSE Cardinality(Uses(n)) + 1
      BY <2>1, <3>1, FS_AddElement
    <3>3. Cardinality(Uses(n)) \in Nat
      BY <2>1, FS_CardinalityType
    <3>4. Cardinality(Uses(n)) <= nmc[n]
      BY <1>7, <2>1, <2>3 DEF NotExpanded
    <3>5. Cardinality(Uses(n)') <= nmc'[n]
      BY <1>7, <2>3, <3>2, <3>3, <3>4
    <3>6. nmc'[n] # NotExpanded
      BY <1>7, <2>3 DEF NotExpanded
    <3> QED BY <3>2, <3>5, <3>6
  <2>4. CASE n # c
    <3>1. UsedAt(t, n)' = UsedAt(t, n)
      BY <1>12, <2>4
    <3>2. Uses(n)' = Uses(n)
      BY <2>2, <3>1 DEF Uses
    <3> QED BY <1>7, <2>1, <2>4, <3>2
  <2> QED BY <2>3, <2>4
<1>14. Fresh'
  BY <1>3, <1>4, <1>6, <1>7 DEF EInv, Fresh
<1>15. \A n \in Nodes : IsEvaled(n) <=> IsEvaled(n)'
  BY <1>1, <1>7 DEF IsEvaled, NotExpanded
<1>16. ASSUME k \notin created PROVE Waiting(k)' = {<<t, 0>>}
  <2>1. ASSUME NEW s \in Threads PROVE HeldAt(s, k) = {}
    <3>1. pc[s] \in {"leaf", "flagged"} => Current(s) # k
      BY <1>16 DEF IInv, PathInv, EInv, Places, Below
    <3>2. \A j \in evaled[s] + 1 .. Len(queue[s]) : End(queue[s][j]) # k
      <4>1. evaled[s] \in Nat /\ queue[s] \in Seq(Seq(Nodes))
        BY <1>3 DEF BatchTypes
      <4>2. \A j \in evaled[s] + 1 .. Len(queue[s]) : j \in DOMAIN queue[s]
        BY <4>1
      <4> QED BY <1>16, <4>2 DEF EInv, Places, Waits
    <3> QED BY <3>1, <3>2 DEF HeldAt
  <2>2. HeldAt(t, k)' = {0}
    BY <1>11, <1>16, <2>1
  <2>3. \A s \in Threads \ {t} : HeldAt(s, k)' = {}
    BY <1>1, <1>9, <2>1, OthersSame
  <2> QED BY <2>2, <2>3 DEF Waiting
<1>17. EvaluatedOnce'
  <2>1. ASSUME NEW n \in created' \ {head}
        PROVE  IF nmc'[n] = NotExpanded THEN \E place \in Waiting(n)' : Waiting(n)' = {place}
               ELSE Waiting(n)' = {}
    <3>1. CASE n = k /\ k \notin created
      <4>1. nmc'[n] = NotExpanded
        BY <1>6, <1>7, <3>1 DEF EInv, Fresh
      <4>2. Waiting(n)' = {<<t, 0>>}
        BY <1>16, <3>1
      <4> QED BY <4>1, <4>2
    <3>2. CASE n \in created
      <4>1. n \in Nodes /\ HeldAt(t, n)' = HeldAt(t, n)
        BY <1>3, <1>11, <3>2
      <4>2. Waiting(n)' = Waiting(n)
        BY <1>1, <1>9, <4>1, WaitingSame
      <4>3. nmc'[n] = NotExpanded <=> nmc[n] = NotExpanded
        BY <1>15, <4>1 DEF IsEvaled
      <4> QED BY <2>1, <3>2, <4>2, <4>3 DEF EInv, EvaluatedOnce
    <3> QED BY <1>4, <2>1, <3>1, <3>2
  <2> QED BY <1>1, <2>1 DEF EvaluatedOnce
<1>18. IsEvaled(head)'
  BY <1>1, <1>3, <1>15 DEF IsEvaled
<1> QED BY <1>1, <1>4, <1>8, <1>9, <1>10, <1>13, <1>14, <1>15, <1>17, <1>18, StepKeeps

-----------------------------------------------------------------------------
(* What is returned for the discarded playouts was counted, so no node      *)
(* falls below zero, where NOT_EXPANDED is.                                 *)
LEMMA DiscardsReturned ==
  ASSUME IInv, IInv', EInv, NEW t \in Threads, SubVirtualLosses(t), NEW n \in Nodes
  PROVE  /\ nmc[n] = NotExpanded <=> nmc'[n] = NotExpanded
         /\ nmc'[n] \in Int
         /\ IsFiniteSet(Uses(n)')
         /\ Cardinality(Uses(n)') <= IF nmc'[n] = NotExpanded THEN 0 ELSE nmc'[n]
<1>1. /\ pc[t] = "unvl" /\ pc' = [pc EXCEPT ![t] = "backup"] /\ path[t] = << >>
       /\ UNCHANGED <<head, created, path, batch>>
       /\ nmc' = [m \in Nodes |-> nmc[m] - NodeDiscards(t, m)]
  BY DEF SubVirtualLosses, tree, IInv, PathInv
<1>2. BatchTypes /\ nmc \in [Nodes -> Int] /\ discard[t] \in Seq(Seq(Nodes))
  BY DEF EInv, BatchTypes
<1>3. Others(t) /\ pc'[t] = "backup"
  BY <1>1 DEF Others, batch, IInv, FlagTypes
<1>d. PICK D : D = {j \in DOMAIN discard[t] : n \in Origins(discard[t][j])}
  OBVIOUS
<1>4. UsedAt(t, n) = D
  <2>1. UsedAt(t, n) = {j \in 1 .. Len(discard[t]) : n \in Origins(discard[t][j])}
                       \cup {j \in {Len(discard[t]) + 1} : n \in Origins(path[t])}
    BY <1>1, <1>2, UsedForm DEF UsedIs, IInv
  <2>2. Origins(path[t]) = {}
    BY <1>1, NoOrigins
  <2> QED BY <1>2, <1>d, <2>1, <2>2
<1>5. UsedAt(t, n)' = {}
  BY <1>3 DEF UsedAt, Trail
<1>6. \A s \in Threads \ {t} : UsedAt(s, n)' = UsedAt(s, n)
  BY <1>1, <1>3, OthersSame
<1>p. PICK P : P = {t} \X D
  OBVIOUS
<1>7. P \subseteq Uses(n) /\ Uses(n)' = Uses(n) \ P
  BY <1>4, <1>5, <1>6, <1>p DEF Uses
<1>8. IsFiniteSet(D) /\ Cardinality(D) \in Nat
  <2>1. D \subseteq 1 .. Len(discard[t]) /\ IsFiniteSet(1 .. Len(discard[t]))
    <3>1. Len(discard[t]) \in Int /\ DOMAIN discard[t] = 1 .. Len(discard[t])
      BY <1>2
    <3> QED BY <1>d, <3>1, FS_Interval
  <2> QED BY <2>1, FS_Subset, FS_CardinalityType
<1>9. Cardinality(P) = Cardinality(D)
  <2>1. IsFiniteSet({t}) /\ Cardinality({t}) = 1
    BY FS_Singleton
  <2>2. Cardinality({t} \X D) = Cardinality({t}) * Cardinality(D)
    BY <1>8, <2>1, FS_Product
  <2> QED BY <1>8, <1>p, <2>1, <2>2
<1>10. /\ IsFiniteSet(Uses(n)) /\ Cardinality(Uses(n)) \in Nat
      /\ Cardinality(Uses(n)) <= IF nmc[n] = NotExpanded THEN 0 ELSE nmc[n]
  BY FS_CardinalityType DEF EInv, Counted
<1>11. /\ IsFiniteSet(Uses(n)')
      /\ Cardinality(Uses(n)') = Cardinality(Uses(n)) - Cardinality(D)
  <2>1. Uses(n) \cap P = P
    BY <1>7
  <2>2. /\ IsFiniteSet(Uses(n) \ P)
        /\ Cardinality(Uses(n) \ P) = Cardinality(Uses(n)) - Cardinality(Uses(n) \cap P)
    BY <1>10, FS_Difference
  <2> QED BY <1>7, <1>9, <2>1, <2>2
<1>12. Cardinality(Uses(n)') \in Nat
  BY <1>11, FS_CardinalityType
<1>13. nmc'[n] = nmc[n] - Cardinality(D) /\ nmc[n] \in Int
  BY <1>1, <1>2, <1>d DEF NodeDiscards
<1>14. CASE nmc[n] = NotExpanded
  BY <1>8, <1>10, <1>11, <1>12, <1>13, <1>14 DEF NotExpanded
<1>15. CASE nmc[n] # NotExpanded
  BY <1>8, <1>10, <1>11, <1>12, <1>13, <1>15 DEF NotExpanded
<1> QED BY <1>14, <1>15

LEMMA SubVirtualLossesKeeps ==
  ASSUME IInv, IInv', EInv, NEW t \in Threads, SubVirtualLosses(t) PROVE EInv'
<1>1. /\ pc[t] = "unvl" /\ pc' = [pc EXCEPT ![t] = "backup"] /\ path[t] = << >>
      /\ UNCHANGED <<head, created, path, batch>>
      /\ nmc' = [n \in Nodes |-> nmc[n] - NodeDiscards(t, n)]
  BY DEF SubVirtualLosses, tree, IInv, PathInv
<1>2. /\ BatchTypes /\ nmc \in [Nodes -> Int] /\ created \in SUBSET Nodes /\ head \in Nodes
      /\ discard[t] \in Seq(Seq(Nodes))
  BY DEF EInv, BatchTypes, IInv, FlagTypes
<1>3. Others(t) /\ pc'[t] = "backup"
  BY <1>1 DEF Others, batch, IInv, FlagTypes
<1>4. \A n \in Nodes :
        /\ nmc[n] = NotExpanded <=> nmc'[n] = NotExpanded
        /\ nmc'[n] \in Int
        /\ IsFiniteSet(Uses(n)')
        /\ Cardinality(Uses(n)') <= IF nmc'[n] = NotExpanded THEN 0 ELSE nmc'[n]
  BY DiscardsReturned
<1>5. Counted'
  BY <1>4 DEF Counted
<1>6. BatchTypes'
  <2>1. nmc' \in [Nodes -> Int]
    BY <1>1, <1>4
  <2> QED BY <1>1, <1>2, <2>1 DEF BatchTypes, batch
<1>7. Waits(t)' /\ Below(t)'
  BY <1>1, <1>3 DEF EInv, Places, Waits, Below, batch, End, Current
<1>8. \A n \in Nodes : HeldAt(t, n)' = HeldAt(t, n)
  BY <1>1, <1>3 DEF HeldAt, batch, End
<1>9. EvaluatedOnce'
  BY <1>1, <1>2, <1>3, <1>4, <1>8, OnceKept DEF EInv
<1>10. Fresh'
  BY <1>1, <1>4 DEF EInv, Fresh
<1>11. \A n \in Nodes : IsEvaled(n) => IsEvaled(n)'
  BY <1>4 DEF IsEvaled
<1>12. IsEvaled(head)'
  BY <1>1, <1>2, <1>11 DEF EInv, Entered, IsEvaled
<1> QED BY <1>1, <1>3, <1>5, <1>6, <1>7, <1>9, <1>10, <1>11, <1>12, StepKeeps

LEMMA CheckKeeps ==
  ASSUME IInv, IInv', EInv, NEW t \in Threads, Check(t) PROVE EInv'
<1>1. PICK q \in {"idle", "select"} : pc' = [pc EXCEPT ![t] = q]
  BY DEF Check
<1>2. /\ pc[t] = "check" /\ path[t] = << >> /\ UNCHANGED <<head, created, nmc, path>>
      /\ queue' = [queue EXCEPT ![t] = << >>] /\ evaled' = [evaled EXCEPT ![t] = 0]
      /\ discard' = [discard EXCEPT ![t] = << >>]
  BY DEF Check, tree, stats, IInv, PathInv
<1>3. /\ BatchTypes /\ << >> \in Seq(Seq(Nodes)) /\ evaled[t] = Len(queue[t])
      /\ evaled[t] \in Nat
  BY <1>2 DEF EInv, BatchTypes, Places, Waits
<1>4. BatchTypes'
  BY <1>2, <1>3 DEF BatchTypes
<1>5. /\ pc'[t] = q /\ queue'[t] = << >> /\ evaled'[t] = 0 /\ discard'[t] = << >>
  BY <1>1, <1>2, <1>3 DEF BatchTypes, IInv, FlagTypes
<1>6. Others(t)
  BY <1>1, <1>2, <1>3 DEF Others, BatchTypes, IInv, FlagTypes
<1>7. Waits(t)' /\ Below(t)'
  BY <1>1, <1>2, <1>5 DEF Waits, Below
<1>8. ASSUME NEW n \in Nodes
      PROVE  HeldAt(t, n)' = HeldAt(t, n) /\ UsedAt(t, n)' \subseteq UsedAt(t, n)
  <2>1. HeldAt(t, n) = {}
    BY <1>2, <1>3 DEF HeldAt
  <2>2. HeldAt(t, n)' = {}
    BY <1>1, <1>5 DEF HeldAt
  <2>3. UsedAt(t, n)' = {}
    <3>1. UsedAt(t, n)' = {j \in 1 .. Len(discard'[t]) : n \in Origins(discard[t][j])'}
                         \cup {j \in {Len(discard'[t]) + 1} : n \in Origins(path[t])'}
      BY <1>1, <1>4, <1>5, UsedFormNext DEF UsedIs, IInv
    <3>2. Origins(path[t])' = {}
      BY <1>2, NoOrigins DEF Origins
    <3>3. 1 .. Len(discard'[t]) = {}
      BY <1>5
    <3> QED BY <3>1, <3>2, <3>3
  <2> QED BY <2>1, <2>2, <2>3
<1>9. Current(t)' = head /\ IsEvaled(head)
  BY <1>2 DEF EInv, Entered, Current
<1>10. IsEvaled(Current(t))' /\ IsEvaled(head)'
  BY <1>2, <1>9 DEF IsEvaled
<1> QED BY <1>2, <1>4, <1>6, <1>7, <1>8, <1>10, PlainStep

-----------------------------------------------------------------------------
(* A new search: no playout is under way, so every node it keeps is         *)
(* evaluated.                                                               *)
LEMMA GenmoveKeeps ==
  ASSUME IInv, IInv', EInv, NEW h \in Nodes, NEW found \in BOOLEAN, Genmove(h, found)
  PROVE  EInv'
<1> DEFINE kept == IF found THEN Subtree[h] \ ({head} \ {h}) ELSE {}
<1>k. PICK K : K = kept
  OBVIOUS
<1>1. /\ head' = h /\ created' = (created \cap K) \cup {h}
      /\ nmc' = [n \in Nodes |-> IF n \in K THEN nmc[n] ELSE NotExpanded]
      /\ pc' = [t \in Threads |-> "root"] /\ UNCHANGED <<path, batch>>
      /\ \A t \in Threads : pc[t] = "idle"
  BY <1>k DEF Genmove, Idle
<1>2. head \in K => head = h
  BY <1>k
<1>3. /\ BatchTypes /\ nmc \in [Nodes -> Int] /\ created \in SUBSET Nodes
  BY DEF EInv, BatchTypes
<1>4. ASSUME NEW t \in Threads
      PROVE  /\ path[t] = << >> /\ queue[t] = << >> /\ discard[t] = << >> /\ evaled[t] = 0
             /\ path'[t] = << >> /\ queue'[t] = << >> /\ discard'[t] = << >> /\ evaled'[t] = 0
             /\ pc'[t] = "root"
  BY <1>1 DEF IInv, PathInv, EInv, Places, Waits, batch
<1>5. BatchTypes'
  <2>1. nmc' \in [Nodes -> Int]
    BY <1>1, <1>3 DEF NotExpanded
  <2> QED BY <1>1, <1>3, <2>1 DEF BatchTypes, batch
<1>6. Places'
  <2>1. \A t \in Threads : Waits(t)' /\ Below(t)'
    BY <1>4 DEF Waits, Below
  <2> QED BY <1>1, <2>1 DEF Places
<1>7. Fresh'
  BY <1>1 DEF EInv, Fresh
<1>8. ASSUME NEW n \in Nodes PROVE Waiting(n) = {} /\ Waiting(n)' = {}
  <2>1. \A t \in Threads : HeldAt(t, n) = {}
    BY <1>1, <1>4 DEF HeldAt
  <2>2. \A t \in Threads : HeldAt(t, n)' = {}
    BY <1>4 DEF HeldAt
  <2> QED BY <2>1, <2>2 DEF Waiting
<1>9. EvaluatedOnce'
  <2>1. ASSUME NEW n \in created' \ {h} PROVE nmc'[n] # NotExpanded /\ Waiting(n)' = {}
    <3>1. n \in created /\ n \in K /\ n # head /\ n \in Nodes
      BY <1>1, <1>2, <1>3, <2>1
    <3>2. nmc[n] # NotExpanded
      BY <1>8, <3>1 DEF EInv, EvaluatedOnce
    <3> QED BY <1>1, <1>8, <3>1, <3>2
  <2> QED BY <1>1, <2>1 DEF EvaluatedOnce
<1>10. Counted'
  <2> SUFFICES ASSUME NEW n \in Nodes
               PROVE  /\ IsFiniteSet(Uses(n)')
                      /\ Cardinality(Uses(n)') <= IF nmc'[n] = NotExpanded THEN 0 ELSE nmc'[n]
    BY DEF Counted
  <2>1. \A t \in Threads : UsedAt(t, n)' = {}
    <3> SUFFICES ASSUME NEW t \in Threads PROVE UsedAt(t, n)' = {}
      OBVIOUS
    <3>1. UsedAt(t, n)' = {j \in 1 .. Len(discard'[t]) : n \in Origins(discard[t][j])'}
                         \cup {j \in {Len(discard'[t]) + 1} : n \in Origins(path[t])'}
      BY <1>4, <1>5, UsedFormNext DEF UsedIs, IInv
    <3>2. Origins(path[t])' = {}
      BY <1>4, NoOrigins DEF Origins
    <3>3. 1 .. Len(discard'[t]) = {}
      BY <1>4
    <3> QED BY <3>1, <3>2, <3>3
  <2>2. Uses(n)' = {}
    BY <2>1 DEF Uses
  <2>3. nmc[n] # NotExpanded => nmc[n] >= 0
    <3>1. Cardinality(Uses(n)) \in Nat
      BY FS_CardinalityType DEF EInv, Counted
    <3>2. nmc[n] # NotExpanded => Cardinality(Uses(n)) <= nmc[n]
      BY DEF EInv, Counted
    <3> QED BY <1>3, <3>1, <3>2
  <2>4. nmc'[n] # NotExpanded => nmc'[n] >= 0
    BY <1>1, <2>3
  <2> QED BY <2>2, <2>4, FS_EmptySet
<1>11. Entered'
  BY <1>4 DEF Entered
<1> QED BY <1>5, <1>6, <1>7, <1>9, <1>10, <1>11 DEF EInv

LEMMA ThreadKeeps ==
  ASSUME IInv, IInv', EInv, NEW t \in Threads, Thread(t) PROVE EInv'
<1> USE DEF control, stats
<1>1. CASE EvalRoot(t)
  BY <1>1, EvalRootKeeps
<1>2. CASE Select(t)
  BY <1>2, SelectKeeps
<1>3. CASE LeafDecided(t)
  BY <1>3, QuietKeeps DEF LeafDecided, Controls
<1>4. CASE LeafQueued(t)
  BY <1>4, LeafQueuedKeeps
<1>5. CASE SetLeafEvaled(t)
  BY <1>5, SetLeafEvaledKeeps
<1>6. CASE Discard(t)
  BY <1>6, NextKeeps DEF Discard, tree
<1>7. CASE Descend(t)
  <2>1. /\ pc[t] = "descend" /\ IsEvaled(Current(t))
        /\ UNCHANGED <<head, created, nmc, path, batch>>
    BY <1>7 DEF Descend, tree
  <2>2. PICK q \in {"done", "select"} : pc' = [pc EXCEPT ![t] = q]
    BY <1>7 DEF Descend
  <2> QED BY <2>1, <2>2, QuietKeeps DEF Controls
<1>8. CASE UpdateResults(t)
  BY <1>8, NextKeeps DEF UpdateResults, tree
<1>9. CASE EvalNode(t)
  BY <1>9, EvalNodeKeeps
<1>10. CASE EvalDone(t)
  BY <1>10, QuietKeeps DEF EvalDone, tree, Controls
<1>11. CASE SubVirtualLosses(t)
  BY <1>11, SubVirtualLossesKeeps
<1>12. CASE Backup(t)
  <2>1. evaled[t] = Len(queue[t])
    BY <1>12 DEF Backup, EInv, Places, Waits
  <2> QED BY <1>12, <2>1, QuietKeeps DEF Backup, tree, Controls
<1>13. CASE Check(t)
  BY <1>13, CheckKeeps
<1> QED BY <1>1, <1>2, <1>3, <1>4, <1>5, <1>6, <1>7, <1>8, <1>9, <1>10, <1>11, <1>12, <1>13
        DEF Thread

LEMMA InitEInv == Init => EInv
<1> SUFFICES ASSUME Init PROVE EInv
  OBVIOUS
<1> USE DEF Init
<1>1. BatchTypes
  <2>1. << >> \in Seq(Seq(Nodes)) /\ NotExpanded \in Int
    BY DEF NotExpanded
  <2> QED BY <2>1, TreeAssumption DEF BatchTypes
<1>2. Places
  BY DEF Places, Waits, Below
<1>3. Fresh /\ EvaluatedOnce
  BY DEF Fresh, EvaluatedOnce
<1>4. Entered
  BY DEF Entered
<1>5. Counted
  <2> SUFFICES ASSUME NEW n \in Nodes
               PROVE  /\ IsFiniteSet(Uses(n))
                      /\ Cardinality(Uses(n)) <= IF nmc[n] = NotExpanded THEN 0 ELSE nmc[n]
    BY DEF Counted
  <2>1. FlagTypes
    BY InitIInv DEF IInv
  <2>2. \A t \in Threads : UsedAt(t, n) = {}
    BY <1>1, <2>1, UsedForm, NoOrigins DEF UsedIs
  <2>3. Uses(n) = {}
    BY <2>2 DEF Uses
  <2> QED BY <2>3, FS_EmptySet
<1> QED BY <1>1, <1>2, <1>3, <1>4, <1>5 DEF EInv

(* EInv is an invariant of the search, next to IInv.                        *)
THEOREM Evaluation == Spec => []EInv
<1>1. IInv /\ IInv' /\ EInv /\ [Next]_vars => EInv'
  <2> SUFFICES ASSUME IInv, IInv', EInv, [Next]_vars PROVE EInv'
    OBVIOUS
  <2>1. ASSUME UNCHANGED <<head, created, nmc, pc, path, batch>> PROVE EInv'
    <3>1. \A t \in Threads : Current(t)' = Current(t)
      BY <2>1 DEF Current, End
    <3>2. \A n \in Nodes : Waiting(n)' = Waiting(n)
      BY <2>1, <3>1 DEF Waiting, HeldAt, batch, End
    <3>3. \A n \in Nodes : Uses(n)' = Uses(n)
      BY <2>1 DEF Uses, UsedAt, Trail, batch
    <3>4. EvaluatedOnce'
      BY <2>1, <3>2 DEF EInv, EvaluatedOnce, BatchTypes
    <3>5. Counted'
      BY <2>1, <3>3 DEF EInv, Counted
    <3>6. BatchTypes' /\ Fresh'
      BY <2>1 DEF EInv, BatchTypes, Fresh, batch
    <3>7. Places'
      BY <2>1, <3>1 DEF EInv, Places, Waits, Below, batch, End
    <3>8. Entered'
      BY <2>1, <3>1 DEF EInv, Entered, IsEvaled
    <3> QED BY <3>4, <3>5, <3>6, <3>7, <3>8 DEF EInv
  <2>2. CASE UNCHANGED vars \/ Ended
    BY <2>1, <2>2 DEF vars, tree, stats, Ended
  <2>3. ASSUME NEW h \in Nodes, Go(h) \/ GoOn(h) PROVE EInv'
    <3>1. PICK found \in BOOLEAN : Genmove(h, found)
      BY <2>3 DEF Go, GoOn
    <3> QED BY <3>1, GenmoveKeeps
  <2>4. ASSUME NEW t \in Threads, Thread(t) PROVE EInv'
    BY <2>4, ThreadKeeps
  <2>5. CASE StopUctSearch \/ PonderHit
    BY <2>1, <2>5 DEF StopUctSearch, PonderHit, tree, stats
  <2>6. ASSUME NEW n \in Nodes \ {Root}, PvMateFound(n) PROVE EInv'
    BY <2>1, <2>6 DEF PvMateFound, stats
  <2> QED BY <2>2, <2>3, <2>4, <2>5, <2>6 DEF Next
<1> QED BY InitEInv, Inductive, <1>1, PTL DEF Spec

(* Every node below the head is evaluated or is in exactly one place, being *)
(* created or in the queue of one searcher: never evaluated twice, never    *)
(* left behind.                                                             *)
THEOREM LeavesEvaluatedOnce == Spec => []EvaluatedOnce
BY Evaluation, PTL DEF EInv

-----------------------------------------------------------------------------
(* The nodes playouts select in are rated, but for a head that stochastic   *)
(* pondering went on to.                                                    *)
LEMMA RatedKept ==
  ASSUME IInv, EInv, Rated, NEW t \in Threads, Others(t), head' = head, onward' = onward,
         rated \subseteq rated',
         \A n \in Nodes : flag[n] # {} => flag'[n] # {},
         IsEvaled(head)' => IsEvaled(head) \/ head \in rated',
         \A n \in created' \ {head} :
           IsEvaled(n)' /\ (flag'[n] = {} \/ ~ Decided(n)) => n \in rated',
         pc'[t] = "flagged" => flag'[Current(t)'] # {} /\ Decided(Current(t)'),
         pc'[t] = "select" => Current(t)' \in rated' \/ (Current(t)' = head /\ IsEvaled(head)')
  PROVE  Rated'
<1>1. IsEvaled(head)' => HeadReady'
  <2>1. head \in Nodes /\ Skipped(head)' = Skipped(head)
    BY DEF IInv, FlagTypes, Skipped
  <2> QED BY <2>1 DEF Rated, HeadReady
<1>2. ASSUME NEW s \in Threads
      PROVE  /\ pc'[s] = "flagged" => flag'[Current(s)'] # {} /\ Decided(Current(s)')
             /\ pc'[s] = "select"  => Current(s)' \in rated' \/ Skipped(Current(s))'
  <2>1. CASE s = t
    <3>1. Current(t)' = head /\ IsEvaled(head)' => Current(t)' \in rated' \/ Skipped(Current(t))'
      BY <1>1 DEF HeadReady, Skipped
    <3> QED BY <2>1, <3>1
  <2>2. CASE s # t
    <3>1. Current(s)' = Current(s) /\ pc'[s] = pc[s] /\ Current(s) \in Nodes
      BY <2>2, OthersSame, CurrentInNodes DEF Others, IInv
    <3> QED BY <3>1 DEF Rated, Skipped
  <2> QED BY <2>1, <2>2
<1>3. \A s \in Threads :
        /\ pc'[s] = "flagged" => flag[Current(s)]' # {} /\ Decided(Current(s))'
        /\ pc'[s] = "select"  => Current(s)' \in rated' \/ Skipped(Current(s))'
  BY <1>2 DEF Decided
<1>4. \A n \in created' \ {head'} :
        IsEvaled(n)' /\ (flag'[n] = {} \/ ~ Decided(n)) => n \in rated'
  OBVIOUS
<1> QED BY <1>1, <1>3, <1>4 DEF Rated

(* The steps that evaluate no node and create none.                         *)
LEMMA RatedQuiet ==
  ASSUME IInv, EInv, Rated, NEW t \in Threads, Others(t),
         UNCHANGED <<head, created, rated, onward>>,
         \A n \in Nodes : IsEvaled(n)' => IsEvaled(n),
         \A n \in Nodes : flag[n] # {} => flag'[n] # {},
         pc'[t] = "flagged" => flag'[Current(t)'] # {} /\ Decided(Current(t)'),
         pc'[t] = "select" => Current(t)' \in rated \/ (Current(t)' = head /\ IsEvaled(head)')
  PROVE  Rated'
<1>1. created \subseteq Nodes /\ head \in Nodes
  BY DEF EInv, BatchTypes, IInv, FlagTypes
<1>2. \A n \in created' \ {head} :
        IsEvaled(n)' /\ (flag'[n] = {} \/ ~ Decided(n)) => n \in rated'
  BY <1>1 DEF Rated
<1>3. IsEvaled(head)' => IsEvaled(head)
  BY <1>1 DEF IsEvaled
<1> QED BY <1>2, <1>3, RatedKept

(* The end of a playout: the next one starts at the head, which is          *)
(* evaluated while a playout is under way.                                  *)
LEMMA RatedNext ==
  ASSUME IInv, EInv, Rated, NEW t \in Threads, NextPlayout(t), pc[t] \notin {"idle", "root"},
         UNCHANGED <<head, created, rated, nmc, flag, evaled, onward>>,
         \A s \in Threads \ {t} : queue'[s] = queue[s] /\ discard'[s] = discard[s]
  PROVE  Rated'
<1>1. PICK q \in {"eval", "select"} : pc' = [pc EXCEPT ![t] = q]
  BY DEF NextPlayout
<1>2. /\ path' = [path EXCEPT ![t] = << >>] /\ pc'[t] = q /\ path'[t] = << >>
  BY <1>1 DEF NextPlayout, IInv, FlagTypes
<1>3. Others(t)
  BY <1>1, <1>2 DEF Others, IInv, FlagTypes
<1>4. Current(t)' = head /\ IsEvaled(head)'
  BY <1>2 DEF Current, EInv, Entered, IsEvaled
<1>5. \A n \in Nodes : IsEvaled(n)' => IsEvaled(n)
  BY DEF IsEvaled
<1> QED BY <1>1, <1>2, <1>3, <1>4, <1>5, RatedQuiet

LEMMA RatedThread ==
  ASSUME IInv, IInv', EInv, Rated, NEW t \in Threads, Thread(t) PROVE Rated'
<1> USE DEF control, stats, batch, tree
<1>1. /\ pc \in [Threads -> Controls] /\ path \in [Threads -> Seq(Nodes)]
      /\ flag \in [Nodes -> SUBSET {"W", "L", "D"}] /\ head \in Nodes /\ Current(t) \in Nodes
      /\ nmc \in [Nodes -> Int] /\ created \in SUBSET Nodes /\ head \in created
  BY CurrentInNodes DEF IInv, FlagTypes, EInv, BatchTypes, Places
<1>o. onward' = onward
  BY DEF Thread, EvalRoot, Select, LeafDecided, LeafQueued, SetLeafEvaled, Discard, Descend,
         UpdateResults, EvalNode, EvalDone, SubVirtualLosses, Backup, Check
<1>e. pc[t] \notin {"idle", "root"} => IsEvaled(head)
  BY DEF EInv, Entered
<1>2. CASE EvalRoot(t)
  <2>1. /\ pc[t] = "root" /\ path[t] = << >> /\ UNCHANGED <<head, created, flag, path, batch>>
        /\ pc' = [pc EXCEPT ![t] = "select"] /\ rated \subseteq rated'
        /\ nmc' = IF IsEvaled(head) THEN nmc ELSE [nmc EXCEPT ![head] = 0]
        /\ ~ IsEvaled(head) => head \in rated'
    BY <1>2 DEF EvalRoot, IInv, PathInv
  <2>2. Others(t) /\ pc'[t] = "select"
    BY <1>1, <2>1 DEF Others
  <2>3. Current(t)' = head /\ IsEvaled(head)'
    BY <1>1, <2>1 DEF Current, IsEvaled, NotExpanded
  <2>4. \A n \in Nodes \ {head} : nmc'[n] = nmc[n]
    BY <1>1, <2>1
  <2>5. \A n \in created' \ {head} :
          IsEvaled(n)' /\ (flag'[n] = {} \/ ~ Decided(n)) => n \in rated'
    BY <1>1, <2>1, <2>4 DEF Rated, IsEvaled
  <2> QED BY <1>o, <2>1, <2>2, <2>3, <2>5, RatedKept
<1>3. CASE Select(t)
  <2>c. PICK c \in Nodes : c = Current(t)
    BY <1>1
  <2>1. /\ pc[t] = "select" /\ HasChildren(c) /\ IsEvaled(c) /\ c \in created
        /\ UNCHANGED <<head, rated, queue, evaled, discard>>
    BY <1>1, <1>3, <2>c DEF Select, IInv, PathInv, EInv, Entered, Places, Below, Current
  <2>2. /\ flag' = IF c = head THEN flag ELSE [flag EXCEPT ![c] = @ \cup Proved(c)]
        /\ \E k \in Nodes : /\ path' = [path EXCEPT ![t] = Append(@, k)] /\ created' = created \cup {k}
                             /\ nmc' = [nmc EXCEPT ![c] = @ + 1]
        /\ \E q \in {"descend", "leaf"} : pc' = [pc EXCEPT ![t] = q]
    <3>1. 1 \in DOMAIN Kids[c]
      BY <2>1, TreeAssumption DEF HasChildren
    <3>2. Candidates(c) \subseteq DOMAIN Kids[c]
      BY <3>1 DEF Candidates, Wins, Loses
    <3>3. \A i \in Candidates(c) : Kids[c][i] \in Nodes
      BY <3>2, KidInNodes
    <3> QED BY <1>3, <2>c, <3>3 DEF Select, AddVirtualLoss
  <2>3. Others(t) /\ pc'[t] \notin {"flagged", "select"}
    BY <1>1, <2>1, <2>2 DEF Others
  <2>4. \A n \in Nodes : flag[n] \subseteq flag'[n]
    BY <1>1, <2>2
  <2>5. \A n \in Nodes : IsEvaled(n)' => IsEvaled(n)
    BY <1>1, <2>1, <2>2 DEF IsEvaled
  <2>6. ASSUME NEW n \in created' \ {head}, IsEvaled(n)', flag'[n] = {} \/ ~ Decided(n)
        PROVE  n \in rated'
    <3>1. n \in Nodes /\ IsEvaled(n)
      BY <1>1, <2>2, <2>5, <2>6
    <3>2. n \in created
      BY <3>1 DEF EInv, Fresh, IsEvaled
    <3> QED BY <2>1, <2>4, <2>6, <3>1, <3>2 DEF Rated
  <2>7. IsEvaled(head)
    BY <1>e, <2>1
  <2>8. \A n \in Nodes : flag[n] # {} => flag'[n] # {}
    BY <2>4
  <2> QED BY <1>o, <2>1, <2>3, <2>6, <2>7, <2>8, RatedKept
<1>4. CASE LeafDecided(t)
  <2>c. PICK c \in Nodes : c = Current(t)
    BY <1>1
  <2>1. /\ pc' = [pc EXCEPT ![t] = "flagged"] /\ flag' = [flag EXCEPT ![c] = @ \cup {Flag(c)}]
        /\ UNCHANGED <<head, created, rated, nmc, path, batch>> /\ Decided(c)
    BY <1>4, <2>c DEF LeafDecided
  <2>2. Others(t) /\ pc'[t] = "flagged"
    BY <1>1, <2>1 DEF Others
  <2>3. Current(t)' = c
    BY <2>c, <2>1 DEF Current, End
  <2>4. flag'[c] # {} /\ \A n \in Nodes : flag[n] # {} => flag'[n] # {}
    BY <1>1, <2>1
  <2>5. \A n \in Nodes : IsEvaled(n)' => IsEvaled(n)
    BY <2>1 DEF IsEvaled
  <2> QED BY <1>o, <2>1, <2>2, <2>3, <2>4, <2>5, RatedQuiet
<1>5. CASE LeafQueued(t)
  <2>1. /\ NextPlayout(t) /\ pc[t] = "leaf"
        /\ UNCHANGED <<head, created, rated, nmc, flag, evaled, discard>>
        /\ queue' = [queue EXCEPT ![t] = Append(@, path[t])]
    BY <1>5 DEF LeafQueued
  <2>2. \A s \in Threads \ {t} : queue'[s] = queue[s] /\ discard'[s] = discard[s]
    BY <2>1 DEF EInv, BatchTypes
  <2> QED BY <1>o, <2>1, <2>2, RatedNext
<1>6. CASE SetLeafEvaled(t)
  <2>c. PICK c \in Nodes : c = Current(t)
    BY <1>1
  <2>1. /\ pc[t] = "flagged" /\ pc' = [pc EXCEPT ![t] = "done"] /\ path[t] # << >>
        /\ nmc' = [nmc EXCEPT ![c] = 0] /\ UNCHANGED <<head, created, flag, rated, path, batch>>
    BY <1>6, <2>c DEF SetLeafEvaled, IInv, PathInv
  <2>2. Others(t) /\ pc'[t] = "done"
    BY <1>1, <2>1 DEF Others
  <2>3. flag[c] # {} /\ Decided(c) /\ IsEvaled(head)
    BY <1>e, <2>c, <2>1 DEF Rated
  <2>4. \A n \in Nodes \ {c} : nmc'[n] = nmc[n]
    BY <1>1, <2>1
  <2>5. \A n \in created' \ {head} :
          IsEvaled(n)' /\ (flag'[n] = {} \/ ~ Decided(n)) => n \in rated'
    BY <1>1, <2>1, <2>3, <2>4 DEF Rated, IsEvaled
  <2> QED BY <1>o, <2>1, <2>2, <2>3, <2>5, RatedKept
<1>7. CASE Discard(t)
  <2>1. /\ NextPlayout(t) /\ pc[t] = "descend"
        /\ UNCHANGED <<head, created, rated, nmc, flag, evaled, queue>>
        /\ discard' = [discard EXCEPT ![t] = Append(@, path[t])]
    BY <1>7 DEF Discard
  <2>2. \A s \in Threads \ {t} : queue'[s] = queue[s] /\ discard'[s] = discard[s]
    BY <2>1 DEF EInv, BatchTypes
  <2> QED BY <1>o, <2>1, <2>2, RatedNext
<1>8. CASE Descend(t)
  <2>c. PICK c \in Nodes : c = Current(t)
    BY <1>1
  <2>1. /\ pc[t] = "descend" /\ IsEvaled(c) /\ path[t] # << >>
        /\ UNCHANGED <<head, created, rated, nmc, flag, path, batch>>
        /\ \E q \in {"done", "select"} :
             pc' = [pc EXCEPT ![t] = q] /\ (q = "select" => flag[c] = {})
    BY <1>8, <2>c DEF Descend, EndsPlayout, IInv, PathInv
  <2>2. Others(t) /\ pc'[t] \in {"done", "select"} /\ (pc'[t] = "select" => flag[c] = {})
    BY <1>1, <2>1 DEF Others
  <2>3. c \in created \ {head}
    <3>1. c \in created /\ Ply[c] > Ply[head]
      BY <2>c, <2>1 DEF EInv, Places, Below
    <3> QED BY <1>1, <3>1, PlyAssumption
  <2>4. Current(t)' = c
    BY <2>c, <2>1 DEF Current, End
  <2>5. pc'[t] = "select" => Current(t)' \in rated
    BY <2>1, <2>2, <2>3, <2>4 DEF Rated
  <2>6. \A n \in Nodes : IsEvaled(n)' => IsEvaled(n)
    BY <2>1 DEF IsEvaled
  <2> QED BY <1>o, <2>1, <2>2, <2>5, <2>6, RatedQuiet
<1>9. CASE UpdateResults(t)
  <2>1. /\ NextPlayout(t) /\ pc[t] = "done"
        /\ UNCHANGED <<head, created, rated, nmc, flag, evaled, queue, discard>>
    BY <1>9 DEF UpdateResults
  <2> QED BY <1>o, <2>1, RatedNext
<1>10. CASE EvalNode(t)
  <2>m. PICK m : m = End(queue[t][evaled[t] + 1])
    OBVIOUS
  <2>1. /\ pc[t] = "eval" /\ UNCHANGED <<head, created, flag, pc, path, queue, discard>>
        /\ rated' = rated \cup {m} /\ nmc' = [nmc EXCEPT ![m] = 0]
        /\ evaled' = [evaled EXCEPT ![t] = @ + 1]
    BY <1>10, <2>m DEF EvalNode
  <2>2. Others(t) /\ pc'[t] = "eval"
    BY <2>1 DEF Others, EInv, BatchTypes
  <2>3. \A n \in Nodes \ {m} : nmc'[n] = nmc[n]
    BY <1>1, <2>1
  <2>4. \A n \in created' \ {head} :
          IsEvaled(n)' /\ (flag'[n] = {} \/ ~ Decided(n)) => n \in rated'
    BY <1>1, <2>1, <2>3 DEF Rated, IsEvaled
  <2>5. IsEvaled(head)
    BY <1>e, <2>1
  <2> QED BY <1>o, <2>1, <2>2, <2>4, <2>5, RatedKept
<1>11. CASE EvalDone(t) \/ SubVirtualLosses(t) \/ Backup(t)
  <2>1. /\ UNCHANGED <<head, created, rated, flag, path, batch>>
        /\ \E q \in {"unvl", "backup", "check"} : pc' = [pc EXCEPT ![t] = q]
    BY <1>11 DEF EvalDone, SubVirtualLosses, Backup
  <2>2. Others(t) /\ pc'[t] \in {"unvl", "backup", "check"}
    BY <1>1, <2>1 DEF Others
  <2>3. \A n \in Nodes : IsEvaled(n)' => IsEvaled(n)
    <3>1. CASE SubVirtualLosses(t)
      BY <3>1, DiscardsReturned DEF IsEvaled
    <3>2. CASE nmc' = nmc
      BY <3>2 DEF IsEvaled
    <3> QED BY <1>11, <3>1, <3>2 DEF EvalDone, Backup
  <2> QED BY <1>o, <2>1, <2>2, <2>3, RatedQuiet
<1>12. CASE Check(t)
  <2>1. /\ pc[t] = "check" /\ path[t] = << >> /\ UNCHANGED <<head, created, rated, nmc, flag, path>>
        /\ \E q \in {"idle", "select"} : pc' = [pc EXCEPT ![t] = q]
        /\ queue' = [queue EXCEPT ![t] = << >>] /\ evaled' = [evaled EXCEPT ![t] = 0]
        /\ discard' = [discard EXCEPT ![t] = << >>]
    BY <1>12 DEF Check, IInv, PathInv
  <2>2. Others(t) /\ pc'[t] \in {"idle", "select"}
    BY <1>1, <2>1 DEF Others, EInv, BatchTypes
  <2>3. Current(t)' = head /\ IsEvaled(head)'
    BY <1>e, <2>1 DEF Current, IsEvaled
  <2>4. \A n \in Nodes : IsEvaled(n)' => IsEvaled(n)
    BY <2>1 DEF IsEvaled
  <2> QED BY <1>o, <2>1, <2>2, <2>3, <2>4, RatedQuiet
<1> QED BY <1>2, <1>3, <1>4, <1>5, <1>6, <1>7, <1>8, <1>9, <1>10, <1>11, <1>12 DEF Thread

(* A search from the position given keeps only a line without flags, so a   *)
(* head that is evaluated came from the queue or was a head before.  One    *)
(* that goes on keeps the flag of its move: its head came from the queue,   *)
(* or was decided when it was created.                                      *)
LEMMA RatedGenmove ==
  ASSUME IInv, EInv, Rated, NEW h \in Nodes, NEW found \in BOOLEAN, Genmove(h, found),
         IsEvaled(h)' => h \in rated' \/ (Skipped(h)' /\ h # Root /\ flag'[h] # {})
  PROVE  Rated'
<1>k. PICK K : K = IF found THEN Subtree[h] \ ({head} \ {h}) ELSE {}
  OBVIOUS
<1>1. /\ head' = h /\ created' = (created \cap K) \cup {h} /\ rated' = rated \cap K
      /\ nmc' = [n \in Nodes |-> IF n \in K THEN nmc[n] ELSE NotExpanded]
      /\ flag' = [n \in Nodes |-> IF found /\ n \in Subtree[h] \cup Line(h) THEN flag[n] ELSE {}]
      /\ pc' = [t \in Threads |-> "root"] /\ h \in Subtree[head]
  BY <1>k DEF Genmove
<1>2. head \in Nodes /\ created \in SUBSET Nodes
  BY DEF IInv, FlagTypes, EInv, BatchTypes
<1>3. IsEvaled(head)' => HeadReady'
  BY <1>1 DEF HeadReady, IsEvaled, Skipped
<1>4. ASSUME NEW n \in created' \ {h}, IsEvaled(n)', flag'[n] = {} \/ ~ Decided(n)
      PROVE  n \in rated'
  <2>1. n \in created /\ n \in K /\ n \in Nodes
    BY <1>1, <1>2, <1>4
  <2>2. n # head /\ (flag[n] = {} \/ ~ Decided(n)) /\ IsEvaled(n)
    BY <1>k, <1>1, <1>4, <2>1 DEF IsEvaled
  <2> QED BY <1>1, <2>1, <2>2 DEF Rated
<1> QED BY <1>1, <1>3, <1>4 DEF Rated

(* What a search keeps as its head was evaluated before.                    *)
LEMMA KeptHead ==
  ASSUME IInv, EInv, NEW h \in Nodes, NEW found \in BOOLEAN, Genmove(h, found), IsEvaled(h)'
  PROVE  /\ found /\ h \in created /\ IsEvaled(h)
         /\ h \in rated => h \in rated'
         /\ h \in Subtree[head] /\ flag'[h] = flag[h]
<1>k. PICK K : K = IF found THEN Subtree[h] \ ({head} \ {h}) ELSE {}
  OBVIOUS
<1>1. /\ rated' = rated \cap K
      /\ nmc' = [n \in Nodes |-> IF n \in K THEN nmc[n] ELSE NotExpanded]
      /\ flag' = [n \in Nodes |-> IF found /\ n \in Subtree[h] \cup Line(h) THEN flag[n] ELSE {}]
      /\ h \in Subtree[head]
  BY <1>k DEF Genmove
<1>2. h \in K /\ IsEvaled(h)
  BY <1>1 DEF IsEvaled
<1>3. found /\ h \in Subtree[h]
  BY <1>k, <1>2
<1>4. h \in created
  BY <1>2 DEF EInv, Fresh, IsEvaled
<1> QED BY <1>1, <1>2, <1>3, <1>4

LEMMA RatedGo ==
  ASSUME IInv, EInv, Rated, NEW h \in Nodes, Go(h) PROVE Rated'
<1>f. PICK found \in BOOLEAN : found = (\A n \in Line(h) : flag[n] = {})
  OBVIOUS
<1>1. Genmove(h, found)
  BY <1>f DEF Go
<1>2. head \in Nodes
  BY DEF IInv, FlagTypes
<1>3. IsEvaled(h)' => h \in rated'
  <2> SUFFICES ASSUME IsEvaled(h)' PROVE h \in rated'
    OBVIOUS
  <2>1. /\ found /\ h \in created /\ IsEvaled(h) /\ h \in Subtree[head]
        /\ h \in rated => h \in rated'
    BY <1>1, KeptHead
  <2>2. h = Root => head = Root
    <3> SUFFICES ASSUME h = Root, head # Root PROVE FALSE
      OBVIOUS
    <3> DEFINE S == Nodes \ {Root}
    <3>1. S \in SUBSET Nodes /\ head \in S
      BY <1>2
    <3>2. \A m \in S : KidSet(m) \subseteq S
      BY TreeAssumption DEF KidSet, Range
    <3>3. h \in S
      <4> HIDE DEF S
      <4> QED BY <1>2, <2>1, <3>1, <3>2 DEF Subtree
    <3> QED BY <3>3
  <2>3. h # Root => flag[h] = {}
    <3>1. h # Root => h \in Line(h)
      BY DEF Line, Subtree
    <3> QED BY <1>f, <2>1, <3>1
  <2>4. CASE h = head
    BY <2>1, <2>3, <2>4 DEF Rated, HeadReady
  <2>5. CASE h # head
    <3>1. flag[h] = {}
      BY <2>2, <2>3, <2>5
    <3> QED BY <2>1, <2>5, <3>1 DEF Rated
  <2> QED BY <2>4, <2>5
<1> QED BY <1>1, <1>3, RatedGenmove

-----------------------------------------------------------------------------
(* Sums over finite sets.                                                   *)
OneOf(s) == CHOOSE x \in s : TRUE

LEMMA Least == ASSUME NEW S \in SUBSET Nat, S # {} PROVE \E n \in S : \A m \in S : n <= m
<1> DEFINE R == OpToRel(<, Nat)
<1>1. IsWellFoundedOn(R, Nat)
  BY NatLessThanWellFounded
<1>2. \A x, y \in Nat : <<x, y>> \in R <=> x < y
  BY DEF OpToRel
<1> HIDE DEF R
<1>3. PICK n \in S : \A m \in S : ~ (<<m, n>> \in R)
  BY <1>1, WFMin
<1>4. ASSUME NEW m \in S PROVE n <= m
  <2>1. n \in Nat /\ m \in Nat
    OBVIOUS
  <2>2. ~ (m < n)
    BY <1>2, <1>3, <2>1, Zenon
  <2> QED BY <2>1, <2>2
<1> QED BY <1>4

(* What holds of the empty set, and of a set if it does without one of its  *)
(* members, holds of every finite set.                                      *)
LEMMA SetInduction ==
  ASSUME NEW S, IsFiniteSet(S), NEW X, {} \in X,
         \A s \in SUBSET S : s # {} /\ s \ {OneOf(s)} \in X => s \in X
  PROVE  S \in X
<1> DEFINE Bad == {k \in Nat : \E s \in SUBSET S : Cardinality(s) = k /\ s \notin X}
<1>1. Bad = {}
  <2> SUFFICES ASSUME Bad # {} PROVE FALSE
    OBVIOUS
  <2>1. PICK k \in Bad : \A m \in Bad : k <= m
    <3>1. Bad \in SUBSET Nat
      OBVIOUS
    <3> HIDE DEF Bad
    <3> QED BY <3>1, Least
  <2>2. PICK s \in SUBSET S : Cardinality(s) = k /\ s \notin X
    BY <2>1
  <2>3. s # {} /\ IsFiniteSet(s) /\ k \in Nat
    BY <2>1, <2>2, FS_Subset
  <2> DEFINE r == s \ {OneOf(s)}
  <2>4. OneOf(s) \in s
    BY <2>3 DEF OneOf
  <2>5. IsFiniteSet(r) /\ Cardinality(r) = k - 1 /\ r \in SUBSET S
    BY <2>2, <2>3, <2>4, FS_RemoveElement
  <2>6. Cardinality(r) \in Nat /\ ~ (k <= k - 1)
    BY <2>3, <2>5, FS_CardinalityType
  <2>7. r \in X
    <3> HIDE DEF r
    <3> QED BY <2>1, <2>5, <2>6
  <2> QED BY <2>2, <2>3, <2>7
<1>2. Cardinality(S) \in Nat
  BY FS_CardinalityType
<1> QED BY <1>1, <1>2

(* What a sum over a finite set is: the function that Folds defines.        *)
SumTable(f, S, it) ==
  it = [s \in SUBSET S |-> IF s = {} THEN 0
          ELSE f[CHOOSE x \in s : TRUE] + it[s \ {CHOOSE x \in s : TRUE}]]

LEMMA SumForm ==
  ASSUME NEW f, NEW S
  PROVE  SumFunctionOnSet(f, S) = (CHOOSE it : SumTable(f, S, it))[S]
BY DEF SumFunctionOnSet, FoldFunctionOnSet, MapThenFoldSet, SumTable

LEMMA TableIs ==
  ASSUME NEW f, NEW S, NEW it, SumTable(f, S, it)
  PROVE  \A s \in SUBSET S : it[s] = IF s = {} THEN 0 ELSE f[OneOf(s)] + it[s \ {OneOf(s)}]
BY DEF SumTable, OneOf

LEMMA IsTable ==
  ASSUME NEW f, NEW S, NEW h,
         \A s \in SUBSET S : h[s] = IF s = {} THEN 0 ELSE f[OneOf(s)] + h[s \ {OneOf(s)}]
  PROVE  SumTable(f, S, [s \in SUBSET S |-> h[s]])
<1> DEFINE g == [s \in SUBSET S |-> h[s]]
<1>1. ASSUME NEW s \in SUBSET S
      PROVE  g[s] = IF s = {} THEN 0 ELSE f[OneOf(s)] + g[s \ {OneOf(s)}]
  <2>1. s \ {OneOf(s)} \in SUBSET S
    OBVIOUS
  <2>2. g[s] = h[s] /\ g[s \ {OneOf(s)}] = h[s \ {OneOf(s)}]
    BY <2>1
  <2> HIDE DEF g
  <2> QED BY <2>2
<1>2. g = [s \in SUBSET S |-> g[s]]
  OBVIOUS
<1> HIDE DEF g
<1> QED BY <1>1, <1>2 DEF SumTable, OneOf

LEMMA TableExists ==
  ASSUME NEW f, NEW S, IsFiniteSet(S)
  PROVE  \E it : SumTable(f, S, it)
<1> DEFINE Is(h, s) == h[s] = IF s = {} THEN 0 ELSE f[OneOf(s)] + h[s \ {OneOf(s)}]
           Small(k) == {s \in SUBSET S : Cardinality(s) <= k}
           Has(k) == \E h : \A s \in Small(k) : Is(h, s)
           Bad == {k \in Nat : ~ Has(k)}
<1>1. \A s \in SUBSET S : IsFiniteSet(s) /\ Cardinality(s) \in Nat /\ (Cardinality(s) = 0 <=> s = {})
  BY FS_Subset, FS_CardinalityType, FS_EmptySet
<1>2. \A s \in SUBSET S : s # {} => s \ {OneOf(s)} \in SUBSET S /\ Cardinality(s \ {OneOf(s)}) = Cardinality(s) - 1
  BY <1>1, FS_RemoveElement DEF OneOf
<1>3. Has(0)
  <2> DEFINE h == [s \in SUBSET S |-> 0]
  <2>1. \A s \in Small(0) : s = {}
    BY <1>1
  <2>2. \A s \in Small(0) : Is(h, s)
    BY <2>1
  <2> QED BY <2>2
<1>4. ASSUME NEW k \in Nat, k # 0, Has(k - 1) PROVE Has(k)
  <2>1. PICK h : \A s \in Small(k - 1) : Is(h, s)
    BY <1>4
  <2> DEFINE g == [s \in SUBSET S |-> IF s \in Small(k - 1) THEN h[s] ELSE f[OneOf(s)] + h[s \ {OneOf(s)}]]
  <2>2. ASSUME NEW s \in Small(k) PROVE Is(g, s)
    <3>1. s \in SUBSET S /\ Cardinality(s) \in Nat /\ Cardinality(s) <= k
      BY <1>1
    <3>2. CASE s = {}
      <4>1. s \in Small(k - 1)
        BY <1>1, <1>4, <3>1, <3>2
      <4> HIDE DEF Small
      <4> QED BY <2>1, <3>1, <3>2, <4>1
    <3>3. CASE s # {}
      <4>1. s \ {OneOf(s)} \in Small(k - 1)
        BY <1>2, <1>4, <3>1, <3>3
      <4>2. g[s \ {OneOf(s)}] = h[s \ {OneOf(s)}]
        BY <4>1
      <4>3. g[s] = f[OneOf(s)] + h[s \ {OneOf(s)}]
        <5> HIDE DEF Small
        <5> QED BY <2>1, <3>1, <3>3
      <4> HIDE DEF g, Small
      <4> QED BY <3>3, <4>2, <4>3
    <3> QED BY <3>2, <3>3
  <2> QED BY <2>2
<1> HIDE DEF Has
<1>5. Bad = {}
  <2> SUFFICES ASSUME Bad # {} PROVE FALSE
    OBVIOUS
  <2>1. Bad \in SUBSET Nat
    OBVIOUS
  <2> HIDE DEF Bad
  <2>2. PICK k \in Bad : \A m \in Bad : k <= m
    BY <2>1, Least
  <2>3. k \in Nat /\ ~ Has(k) /\ k # 0
    BY <1>3, <2>2 DEF Bad
  <2>4. k - 1 \in Nat /\ ~ (k <= k - 1)
    BY <2>3
  <2>5. Has(k - 1)
    BY <2>2, <2>4 DEF Bad
  <2> QED BY <1>4, <2>3, <2>5
<1>6. Cardinality(S) \in Nat /\ Has(Cardinality(S))
  BY <1>1, <1>5
<1>7. PICK h : \A s \in Small(Cardinality(S)) : Is(h, s)
  BY <1>6 DEF Has
<1>8. \A s \in SUBSET S : s \in Small(Cardinality(S))
  BY <1>1, FS_Subset
<1>9. \A s \in SUBSET S : Is(h, s)
  <2> HIDE DEF Small
  <2> QED BY <1>7, <1>8
<1> QED BY <1>9, IsTable

LEMMA TablesAgree ==
  ASSUME NEW f, NEW S, NEW T \in SUBSET S, IsFiniteSet(S), NEW it, NEW jt,
         SumTable(f, S, it), SumTable(f, T, jt)
  PROVE  it[T] = jt[T]
<1> DEFINE X == {s \in SUBSET T : it[s] = jt[s]}
<1>1. IsFiniteSet(T)
  BY FS_Subset
<1>2. {} \in X
  BY TableIs
<1>3. ASSUME NEW s \in SUBSET T, s # {}, s \ {OneOf(s)} \in X PROVE s \in X
  <2>0. s \in SUBSET S
    OBVIOUS
  <2>1. it[s] = f[OneOf(s)] + it[s \ {OneOf(s)}]
    BY <1>3, <2>0, TableIs
  <2>2. jt[s] = f[OneOf(s)] + jt[s \ {OneOf(s)}]
    BY <1>3, TableIs
  <2> QED BY <1>3, <2>1, <2>2
<1>4. T \in X
  <2> HIDE DEF X
  <2> QED BY <1>1, <1>2, <1>3, SetInduction
<1> QED BY <1>4

LEMMA SumEmpty == ASSUME NEW f PROVE SumFunctionOnSet(f, {}) = 0
<1>1. SumTable(f, {}, CHOOSE it : SumTable(f, {}, it))
  BY TableExists, FS_EmptySet
<1> QED BY <1>1, SumForm, TableIs

LEMMA SumStep ==
  ASSUME NEW f, NEW S, IsFiniteSet(S), S # {}
  PROVE  SumFunctionOnSet(f, S) = f[OneOf(S)] + SumFunctionOnSet(f, S \ {OneOf(S)})
<1> DEFINE T == S \ {OneOf(S)}
           it == CHOOSE h : SumTable(f, S, h)
           jt == CHOOSE h : SumTable(f, T, h)
<1>1. IsFiniteSet(T)
  BY FS_Subset
<1>2. SumTable(f, S, it) /\ SumTable(f, T, jt)
  <2>1. (\E h : SumTable(f, S, h)) /\ (\E h : SumTable(f, T, h))
    <3> HIDE DEF T
    <3> QED BY <1>1, TableExists
  <2> QED BY <2>1
<1>3. SumFunctionOnSet(f, S) = it[S] /\ SumFunctionOnSet(f, T) = jt[T]
  BY SumForm
<1> HIDE DEF it, jt
<1>4. it[S] = f[OneOf(S)] + it[T]
  BY <1>2, TableIs
<1>5. it[T] = jt[T]
  <2>1. T \in SUBSET S
    OBVIOUS
  <2> HIDE DEF T
  <2> QED BY <1>2, <2>1, TablesAgree
<1> QED BY <1>3, <1>4, <1>5

LEMMA SumInt ==
  ASSUME NEW S, IsFiniteSet(S), NEW f, \A x \in S : f[x] \in Int
  PROVE  SumFunctionOnSet(f, S) \in Int
<1> DEFINE X == {s \in SUBSET S : SumFunctionOnSet(f, s) \in Int}
<1>1. {} \in X
  BY SumEmpty
<1>2. ASSUME NEW s \in SUBSET S, s # {}, s \ {OneOf(s)} \in X PROVE s \in X
  <2>1. IsFiniteSet(s) /\ OneOf(s) \in s
    BY <1>2, FS_Subset DEF OneOf
  <2> QED BY <1>2, <2>1, SumStep
<1>3. S \in X
  <2> HIDE DEF X
  <2> QED BY <1>1, <1>2, SetInduction
<1> QED BY <1>3

LEMMA SumNat ==
  ASSUME NEW S, IsFiniteSet(S), NEW f, \A x \in S : f[x] \in Nat
  PROVE  SumFunctionOnSet(f, S) \in Nat
<1> DEFINE X == {s \in SUBSET S : SumFunctionOnSet(f, s) \in Nat}
<1>1. {} \in X
  BY SumEmpty
<1>2. ASSUME NEW s \in SUBSET S, s # {}, s \ {OneOf(s)} \in X PROVE s \in X
  <2>1. IsFiniteSet(s) /\ OneOf(s) \in s
    BY <1>2, FS_Subset DEF OneOf
  <2> QED BY <1>2, <2>1, SumStep
<1>3. S \in X
  <2> HIDE DEF X
  <2> QED BY <1>1, <1>2, SetInduction
<1> QED BY <1>3

LEMMA SumSame ==
  ASSUME NEW S, IsFiniteSet(S), NEW f, NEW g, \A x \in S : f[x] = g[x]
  PROVE  SumFunctionOnSet(f, S) = SumFunctionOnSet(g, S)
<1> DEFINE X == {s \in SUBSET S : SumFunctionOnSet(f, s) = SumFunctionOnSet(g, s)}
<1>1. {} \in X
  BY SumEmpty
<1>2. ASSUME NEW s \in SUBSET S, s # {}, s \ {OneOf(s)} \in X PROVE s \in X
  <2>1. IsFiniteSet(s) /\ OneOf(s) \in s
    BY <1>2, FS_Subset DEF OneOf
  <2> QED BY <1>2, <2>1, SumStep
<1>3. S \in X
  <2> HIDE DEF X
  <2> QED BY <1>1, <1>2, SetInduction
<1> QED BY <1>3

LEMMA SumZero ==
  ASSUME NEW S, IsFiniteSet(S), NEW f, \A x \in S : f[x] = 0
  PROVE  SumFunctionOnSet(f, S) = 0
<1> DEFINE X == {s \in SUBSET S : SumFunctionOnSet(f, s) = 0}
<1>1. {} \in X
  BY SumEmpty
<1>2. ASSUME NEW s \in SUBSET S, s # {}, s \ {OneOf(s)} \in X PROVE s \in X
  <2>1. IsFiniteSet(s) /\ OneOf(s) \in s
    BY <1>2, FS_Subset DEF OneOf
  <2> QED BY <1>2, <2>1, SumStep
<1>3. S \in X
  <2> HIDE DEF X
  <2> QED BY <1>1, <1>2, SetInduction
<1> QED BY <1>3

Adds(S, f, g, h) == \A x \in S : f[x] \in Int /\ g[x] \in Int /\ h[x] = f[x] + g[x]
LEMMA SumPlus ==
  ASSUME NEW S, IsFiniteSet(S), NEW f, NEW g, NEW h, Adds(S, f, g, h)
  PROVE  SumFunctionOnSet(h, S) = SumFunctionOnSet(f, S) + SumFunctionOnSet(g, S)
<1> DEFINE X == {s \in SUBSET S : SumFunctionOnSet(h, s) = SumFunctionOnSet(f, s) + SumFunctionOnSet(g, s)}
<1>1. {} \in X
  BY SumEmpty
<1>2. ASSUME NEW s \in SUBSET S, s # {}, s \ {OneOf(s)} \in X PROVE s \in X
  <2>1. IsFiniteSet(s) /\ OneOf(s) \in s /\ IsFiniteSet(s \ {OneOf(s)})
    BY <1>2, FS_Subset DEF OneOf
  <2>2. SumFunctionOnSet(f, s \ {OneOf(s)}) \in Int /\ SumFunctionOnSet(g, s \ {OneOf(s)}) \in Int
    <3>1. \A x \in s \ {OneOf(s)} : f[x] \in Int /\ g[x] \in Int
      BY DEF Adds
    <3> QED BY <2>1, <3>1, SumInt
  <2>3. f[OneOf(s)] \in Int /\ g[OneOf(s)] \in Int /\ h[OneOf(s)] = f[OneOf(s)] + g[OneOf(s)]
    BY <2>1 DEF Adds
  <2>4. /\ SumFunctionOnSet(f, s) = f[OneOf(s)] + SumFunctionOnSet(f, s \ {OneOf(s)})
        /\ SumFunctionOnSet(g, s) = g[OneOf(s)] + SumFunctionOnSet(g, s \ {OneOf(s)})
        /\ SumFunctionOnSet(h, s) = h[OneOf(s)] + SumFunctionOnSet(h, s \ {OneOf(s)})
    BY <1>2, <2>1, SumStep
  <2> QED BY <1>2, <2>2, <2>3, <2>4
<1>3. S \in X
  <2> HIDE DEF X
  <2> QED BY <1>1, <1>2, SetInduction
<1> QED BY <1>3

LEMMA SumTimes ==
  ASSUME NEW S, IsFiniteSet(S), NEW c \in Int, NEW f, NEW g,
         \A x \in S : f[x] \in Int /\ g[x] = c * f[x]
  PROVE  SumFunctionOnSet(g, S) = c * SumFunctionOnSet(f, S)
<1> DEFINE X == {s \in SUBSET S : SumFunctionOnSet(g, s) = c * SumFunctionOnSet(f, s)}
<1>1. {} \in X
  BY SumEmpty
<1>2. ASSUME NEW s \in SUBSET S, s # {}, s \ {OneOf(s)} \in X PROVE s \in X
  <2>1. IsFiniteSet(s) /\ OneOf(s) \in s /\ IsFiniteSet(s \ {OneOf(s)})
    BY <1>2, FS_Subset DEF OneOf
  <2>2. SumFunctionOnSet(f, s \ {OneOf(s)}) \in Int
    <3>1. \A x \in s \ {OneOf(s)} : f[x] \in Int
      OBVIOUS
    <3> QED BY <2>1, <3>1, SumInt
  <2>3. f[OneOf(s)] \in Int /\ g[OneOf(s)] = c * f[OneOf(s)]
    BY <2>1
  <2>4. /\ SumFunctionOnSet(f, s) = f[OneOf(s)] + SumFunctionOnSet(f, s \ {OneOf(s)})
        /\ SumFunctionOnSet(g, s) = g[OneOf(s)] + SumFunctionOnSet(g, s \ {OneOf(s)})
    BY <1>2, <2>1, SumStep
  <2>5. \A a, b \in Int : c * (a + b) = c * a + c * b
    OBVIOUS
  <2> QED BY <1>2, <2>2, <2>3, <2>4, <2>5
<1>3. S \in X
  <2> HIDE DEF X
  <2> QED BY <1>1, <1>2, SetInduction
<1> QED BY <1>3

LEMMA SumOne ==
  ASSUME NEW S, IsFiniteSet(S), NEW f, NEW e \in S, f[e] \in Int, \A x \in S \ {e} : f[x] = 0
  PROVE  SumFunctionOnSet(f, S) = f[e]
<1> DEFINE X == {s \in SUBSET S : SumFunctionOnSet(f, s) = IF e \in s THEN f[e] ELSE 0}
<1>1. {} \in X
  BY SumEmpty
<1>2. ASSUME NEW s \in SUBSET S, s # {}, s \ {OneOf(s)} \in X PROVE s \in X
  <2>1. IsFiniteSet(s) /\ OneOf(s) \in s
    BY <1>2, FS_Subset DEF OneOf
  <2>2. SumFunctionOnSet(f, s) = f[OneOf(s)] + SumFunctionOnSet(f, s \ {OneOf(s)})
    BY <1>2, <2>1, SumStep
  <2>3. CASE OneOf(s) = e
    BY <1>2, <2>1, <2>2, <2>3
  <2>4. CASE OneOf(s) # e
    BY <1>2, <2>1, <2>2, <2>4
  <2> QED BY <2>3, <2>4
<1>3. S \in X
  <2> HIDE DEF X
  <2> QED BY <1>1, <1>2, SetInduction
<1> QED BY <1>3

(* A function that is changed in one place.                                 *)
LEMMA SumDiff ==
  ASSUME NEW S, IsFiniteSet(S), NEW f, NEW g, NEW e \in S,
         \A x \in S : f[x] \in Int /\ g[x] \in Int, \A x \in S \ {e} : g[x] = f[x]
  PROVE  /\ SumFunctionOnSet(g, S) = SumFunctionOnSet(f, S) + (g[e] - f[e])
         /\ SumFunctionOnSet(f, S) \in Int /\ SumFunctionOnSet(g, S) \in Int
<1> DEFINE d == [x \in S |-> g[x] - f[x]]
<1>1. /\ \A x \in S : f[x] \in Int /\ d[x] \in Int /\ g[x] = f[x] + d[x]
      /\ \A x \in S \ {e} : d[x] = 0
      /\ d[e] = g[e] - f[e]
  OBVIOUS
<1> HIDE DEF d
<1>2. SumFunctionOnSet(g, S) = SumFunctionOnSet(f, S) + SumFunctionOnSet(d, S)
  BY <1>1, SumPlus DEF Adds
<1>3. SumFunctionOnSet(d, S) = d[e]
  BY <1>1, SumOne
<1> QED BY <1>1, <1>2, <1>3, SumInt

LEMMA SumCount ==
  ASSUME NEW S, IsFiniteSet(S), NEW f, \A x \in S : f[x] \in {0, 1}
  PROVE  SumFunctionOnSet(f, S) = Cardinality({x \in S : f[x] = 1})
<1> DEFINE On(s) == {x \in s : f[x] = 1}
           X == {s \in SUBSET S : SumFunctionOnSet(f, s) = Cardinality(On(s))}
<1>1. {} \in X
  <2>1. On({}) = {}
    OBVIOUS
  <2> QED BY <2>1, SumEmpty, FS_EmptySet
<1>2. ASSUME NEW s \in SUBSET S, s # {}, s \ {OneOf(s)} \in X PROVE s \in X
  <2> DEFINE a == OneOf(s)
  <2>1. IsFiniteSet(s) /\ a \in s /\ IsFiniteSet(On(s \ {a}))
    BY <1>2, FS_Subset DEF OneOf
  <2>2. SumFunctionOnSet(f, s) = f[a] + SumFunctionOnSet(f, s \ {a})
    BY <1>2, <2>1, SumStep
  <2>3. CASE f[a] = 1
    <3>1. On(s) = On(s \ {a}) \cup {a} /\ a \notin On(s \ {a})
      BY <2>1, <2>3
    <3>2. Cardinality(On(s)) = Cardinality(On(s \ {a})) + 1 /\ Cardinality(On(s \ {a})) \in Nat
      <4> HIDE DEF On
      <4> QED BY <2>1, <3>1, FS_AddElement, FS_CardinalityType
    <3> HIDE DEF On
    <3> QED BY <1>2, <2>2, <2>3, <3>2
  <2>4. CASE f[a] = 0
    <3>1. On(s) = On(s \ {a})
      BY <2>1, <2>4
    <3>2. Cardinality(On(s \ {a})) \in Nat
      <4> HIDE DEF On
      <4> QED BY <2>1, FS_CardinalityType
    <3> HIDE DEF On
    <3> QED BY <1>2, <2>2, <2>4, <3>1, <3>2
  <2> QED BY <2>1, <2>3, <2>4
<1>3. S \in X
  <2> HIDE DEF X
  <2> QED BY <1>1, <1>2, SetInduction
<1> QED BY <1>3

(* The order of two sums.                                                   *)
Transposed(S, T, F, C, rows, columns) ==
  /\ \A x \in S : \A y \in T : F[x][y] \in Int /\ C[y][x] = F[x][y]
  /\ \A x \in S : rows[x] = SumFunctionOnSet(F[x], T)
  /\ \A y \in T : columns[y] = SumFunctionOnSet(C[y], S)
LEMMA SumSwap ==
  ASSUME NEW S, NEW T, IsFiniteSet(S), IsFiniteSet(T), NEW F, NEW C, NEW rows, NEW columns,
         Transposed(S, T, F, C, rows, columns)
  PROVE  SumFunctionOnSet(rows, S) = SumFunctionOnSet(columns, T)
<1>0. /\ \A x \in S : \A y \in T : F[x][y] \in Int /\ C[y][x] = F[x][y]
      /\ \A x \in S : rows[x] = SumFunctionOnSet(F[x], T)
      /\ \A y \in T : columns[y] = SumFunctionOnSet(C[y], S)
  BY DEF Transposed
<1> DEFINE column(s) == [y \in T |-> SumFunctionOnSet(C[y], s)]
           X == {s \in SUBSET S : SumFunctionOnSet(rows, s) = SumFunctionOnSet(column(s), T)}
<1>1. {} \in X
  <2>1. \A y \in T : column({})[y] = 0
    BY SumEmpty
  <2> HIDE DEF column
  <2> QED BY <2>1, SumEmpty, SumZero
<1>2. ASSUME NEW s \in SUBSET S, s # {}, s \ {OneOf(s)} \in X PROVE s \in X
  <2> DEFINE a == OneOf(s)
             r == s \ {a}
  <2>1. IsFiniteSet(s) /\ IsFiniteSet(r) /\ a \in s /\ a \in S
    BY <1>2, FS_Subset DEF OneOf
  <2>2. SumFunctionOnSet(rows, s) = rows[a] + SumFunctionOnSet(rows, r)
    BY <1>2, <2>1, SumStep
  <2>3. ASSUME NEW y \in T
        PROVE  /\ F[a][y] \in Int /\ column(r)[y] \in Int
               /\ column(s)[y] = F[a][y] + column(r)[y]
    <3>1. SumFunctionOnSet(C[y], s) = C[y][a] + SumFunctionOnSet(C[y], r)
      BY <1>2, <2>1, SumStep
    <3>2. SumFunctionOnSet(C[y], r) \in Int
      <4>1. \A x \in r : C[y][x] \in Int
        BY <1>0
      <4> HIDE DEF r
      <4> QED BY <2>1, <4>1, SumInt
    <3>3. C[y][a] = F[a][y] /\ F[a][y] \in Int
      BY <1>0, <2>1
    <3>4. column(s)[y] = SumFunctionOnSet(C[y], s) /\ column(r)[y] = SumFunctionOnSet(C[y], r)
      OBVIOUS
    <3> HIDE DEF column, a, r
    <3> QED BY <3>1, <3>2, <3>3, <3>4
  <2>4. SumFunctionOnSet(column(s), T) = SumFunctionOnSet(F[a], T) + SumFunctionOnSet(column(r), T)
    <3> HIDE DEF column, a, r
    <3> QED BY <2>3, SumPlus DEF Adds
  <2>5. SumFunctionOnSet(rows, r) = SumFunctionOnSet(column(r), T) /\ rows[a] = SumFunctionOnSet(F[a], T)
    BY <1>0, <1>2, <2>1
  <2> HIDE DEF column, r, a
  <2> QED BY <2>2, <2>4, <2>5
<1>3. S \in X
  <2> HIDE DEF X
  <2> QED BY <1>1, <1>2, SetInduction
<1>4. \A y \in T : column(S)[y] = columns[y]
  BY <1>0
<1>5. SumFunctionOnSet(column(S), T) = SumFunctionOnSet(columns, T)
  <2> HIDE DEF column
  <2> QED BY <1>4, SumSame
<1> QED BY <1>3, <1>5

-----------------------------------------------------------------------------
(* Statistics.                                                              *)
(* The playouts of t whose results are not in the tree: the one under way,  *)
(* the discarded ones until their virtual losses are returned, and those of *)
(* its queue until their values are backed up.  Pending counts the ones of  *)
(* a set; Asked counts those that wait for the network.                     *)
Count(s, X) == Cardinality({j \in DOMAIN s : s[j] \in X})
Bit(b)      == IF b THEN 1 ELSE 0
Pending(t, X) ==
  Bit(path[t] \in X)
  + (IF pc[t] \in {"backup", "check"} THEN 0 ELSE Count(discard[t], X))
  + (IF pc[t] = "check" THEN 0 ELSE Count(queue[t], X))
Asked(t, X) ==
  Bit(pc[t] = "leaf" /\ path[t] \in X) + (IF pc[t] = "check" THEN 0 ELSE Count(queue[t], X))
AllPending(X) == SumFunction([t \in Threads |-> Pending(t, X)])
AllAsked(X)   == SumFunction([t \in Threads |-> Asked(t, X)])

(* The playouts that end at n, that went on from it, and that came to it.   *)
Playouts   == Seq(Nodes)
At(n)      == {p \in Playouts : p # << >> /\ End(p) = n}
Via(n)     == {p \in Playouts : n \in Origins(p)}
Through(n) == {p \in Playouts : n \in Range(p)}

(* A playout goes down move by move from the head, through open nodes.      *)
Down(p) ==
  \A i \in DOMAIN p :
    /\ p[i] \in created /\ p[i] \in KidSet(IF i = 1 THEN head ELSE p[i - 1])
    /\ i < Len(p) => ~ Decided(p[i])
Routed(t) ==
  /\ Down(path[t])
  /\ \A j \in DOMAIN discard[t] : Down(discard[t][j]) /\ discard[t][j] # << >>
  /\ \A j \in DOMAIN queue[t] :
       Down(queue[t][j]) /\ queue[t][j] # << >>
       /\ ~ Decided(End(queue[t][j])) /\ End(queue[t][j]) \in expanded
Routes == \A t \in Threads : Routed(t)

(* Decided nodes have the flag of what they are; a draw may be found won.   *)
Marked(n) == IF Status[n] = "draw" THEN flag[n] \cap {"D", "W"} # {} ELSE Flag(n) \in flag[n]
Noted ==
  /\ \A n \in Nodes : "L" \in flag[n] => Status[n] # "draw"
  /\ \A n \in created \ {head} : Decided(n) /\ IsEvaled(n) => Marked(n)
  /\ \A t \in Threads : pc[t] = "flagged" => Decided(Current(t)) /\ Marked(Current(t))

(* What a playout may bring back from a node it ended at.                   *)
Settles(n, r) ==
  IF Status[n] = "draw" THEN r \in 0 .. 1 /\ ("W" \notin flag[n] => r = 1)
  ELSE IF Decided(n) THEN r = Value(Flag(n))
  ELSE flag[n] # {} /\ r = Fixed(n)
Results == \A t \in Threads : pc[t] \in {"flagged", "done"} => Settles(Current(t), result[t])

(* Nodes that do not exist have no statistics, and those that do hang       *)
(* together below the head.                                                 *)
Family ==
  /\ expanded \subseteq created
  /\ \A n \in created : Ply[n] >= Ply[head] /\ (n # head => Parent(n) \in created)
  /\ \A n \in created \ {head} : IsEvaled(n) /\ ~ Decided(n) => n \in expanded
  /\ \A n \in Nodes \ created : emc[n] = 0 /\ ewin[n] = 0 /\ nwin[n] = 0

(* The books.  Visits of a node are those of its moves.  The visits of an   *)
(* open node below the head are its evaluation, the playouts that went on   *)
(* from it, those that ended at its flag, and the pending ones; what a      *)
(* visit that is not pending brought is known for each of these.            *)
Visits(n) == IF nmc[n] = NotExpanded THEN 0 ELSE nmc[n]
Tally ==
  \A n \in created : /\ Visits(n) = SumFunctionOnSet(emc, KidSet(n))
                     /\ nwin[n] = SumFunctionOnSet(ewin, KidSet(n))
HeadCount == Visits(head) = pre + count + SumFunction([t \in Threads |-> NotCounted(t)])

Evaluations(n) == 1 - AllAsked(At(n))
Stopped(n)     == emc[n] - Visits(n) - Evaluations(n) - AllPending(At(n))
OpenLedger(n) ==
  /\ ewin[n] + nwin[n] = Evaluations(n) * (One - NN[n]) + One * (Visits(n) - AllPending(Via(n)))
                         + Stopped(n) * Fixed(n)
  /\ flag[n] = {} => Stopped(n) = 0
DecidedLedger(n) ==
  LET settled == emc[n] - AllPending(At(n))
  IN  IF Status[n] = "draw" THEN ewin[n] \in 0 .. settled /\ ("W" \notin flag[n] => ewin[n] = settled)
      ELSE ewin[n] = settled * Value(Flag(n))
Books(n) == IF Decided(n) THEN DecidedLedger(n) ELSE OpenLedger(n)
Ledger   == \A n \in created \ {head} : Books(n)

StatTypes ==
  /\ expanded \in SUBSET Nodes /\ emc \in [Nodes -> Int] /\ nwin \in [Nodes -> Int] /\ ewin \in [Nodes -> Int]
  /\ count \in Int /\ pre \in Int /\ result \in [Threads -> Int]

SInv == StatTypes /\ Routes /\ Noted /\ Results /\ Family /\ Tally /\ HeadCount /\ Ledger

-----------------------------------------------------------------------------
(* Playouts.                                                                *)
LEMMA KidSetIs ==
  ASSUME NEW c \in Nodes
  PROVE  KidSet(c) \subseteq Nodes /\ IsFiniteSet(KidSet(c))
<1>1. Kids[c] \in Seq(Nodes) /\ DOMAIN Kids[c] = 1 .. Len(Kids[c]) /\ Len(Kids[c]) \in Nat
  BY TreeAssumption
<1>2. IsFiniteSet(1 .. Len(Kids[c]))
  BY <1>1, FS_Interval
<1>3. Kids[c] \in Surjection(1 .. Len(Kids[c]), KidSet(c))
  BY <1>1 DEF KidSet, Range, Surjection
<1>4. IsFiniteSet(KidSet(c))
  BY <1>2, <1>3, FS_Surjection
<1> QED BY <1>1, <1>4 DEF KidSet, Range

LEMMA ParentIs ==
  ASSUME NEW c \in Nodes, NEW k \in KidSet(c)
  PROVE  Parent(k) = c
<1>1. \A n \in Nodes : k \in KidSet(n) => n = c
  BY PathsAssumption DEF KidSet, Range
<1> QED BY <1>1 DEF Parent

Before(p, i) == IF i = 1 THEN head ELSE p[i - 1]

LEMMA DownStep ==
  ASSUME NEW p \in Seq(Nodes), Down(p), head \in Nodes, NEW i \in DOMAIN p
  PROVE  /\ Before(p, i) \in Nodes /\ p[i] \in KidSet(Before(p, i)) /\ p[i] \in Nodes
         /\ Parent(p[i]) = Before(p, i) /\ p[i] \in created
         /\ Ply[p[i]] = Ply[Before(p, i)] + 1
<1>1. i \in 1 .. Len(p) /\ DOMAIN p = 1 .. Len(p) /\ Len(p) \in Nat
  OBVIOUS
<1>2. Before(p, i) \in Nodes
  <2>1. i # 1 => i - 1 \in 1 .. Len(p)
    BY <1>1
  <2> QED BY <1>1, <2>1 DEF Before
<1>3. p[i] \in created /\ p[i] \in KidSet(Before(p, i))
  BY DEF Down, Before
<1> QED BY <1>2, <1>3, KidSetIs, ParentIs, PlyAssumption

LEMMA DownPly ==
  ASSUME NEW p \in Seq(Nodes), Down(p), head \in Nodes
  PROVE  \A i \in DOMAIN p : Ply[p[i]] = Ply[head] + i /\ Ply[Before(p, i)] = Ply[head] + i - 1
<1> DEFINE Bad == {i \in DOMAIN p : Ply[p[i]] # Ply[head] + i}
<1>1. DOMAIN p = 1 .. Len(p) /\ Len(p) \in Nat /\ Ply[head] \in Nat
  BY PlyAssumption
<1>2. Bad = {}
  <2> SUFFICES ASSUME Bad # {} PROVE FALSE
    OBVIOUS
  <2>1. Bad \in SUBSET Nat
    BY <1>1
  <2>2. PICK i \in Bad : \A m \in Bad : i <= m
    <3> HIDE DEF Bad
    <3> QED BY <2>1, Least
  <2>3. i \in DOMAIN p /\ i \in Nat /\ Ply[p[i]] = Ply[Before(p, i)] + 1
    BY <2>1, <2>2, DownStep
  <2>4. CASE i = 1
    BY <1>1, <2>2, <2>3, <2>4 DEF Before
  <2>5. CASE i # 1
    <3>1. i - 1 \in DOMAIN p /\ ~ (i <= i - 1)
      BY <1>1, <2>3, <2>5
    <3>2. Ply[p[i - 1]] = Ply[head] + (i - 1)
      BY <2>2, <3>1
    <3> QED BY <1>1, <2>2, <2>3, <2>5, <3>2 DEF Before
  <2> QED BY <2>4, <2>5
<1>3. ASSUME NEW i \in DOMAIN p
      PROVE  Ply[p[i]] = Ply[head] + i /\ Ply[Before(p, i)] = Ply[head] + i - 1
  <2>1. Ply[p[i]] = Ply[head] + i
    BY <1>2
  <2>2. Ply[p[i]] = Ply[Before(p, i)] + 1 /\ Before(p, i) \in Nodes
    BY DownStep
  <2>3. Ply[Before(p, i)] \in Nat
    BY <2>2, PlyAssumption
  <2> QED BY <1>1, <2>1, <2>2, <2>3
<1> QED BY <1>3

LEMMA OriginsAre ==
  ASSUME NEW p \in Seq(Nodes), Down(p), head \in Nodes
  PROVE  Origins(p) = {Before(p, i) : i \in DOMAIN p}
<1>1. \A i \in DOMAIN p : Parent(p[i]) = Before(p, i)
  BY DownStep
<1> QED BY <1>1 DEF Origins, Range

(* A playout comes to a node once, and leaves it or ends there.             *)
LEMMA DownOnce ==
  ASSUME NEW p \in Seq(Nodes), Down(p), head \in Nodes
  PROVE  /\ \A i, j \in DOMAIN p : p[i] = p[j] \/ Before(p, i) = Before(p, j) => i = j
         /\ \A i, j \in DOMAIN p : Before(p, i) = p[j] => i = j + 1
         /\ head \notin Range(p)
         /\ p # << >> => head \in Origins(p) /\ Len(p) \in DOMAIN p /\ End(p) \in created
         /\ \A n \in Origins(p) : n \in Nodes /\ (n # head => n \in Range(p) /\ n \in created /\ ~ Decided(n))
         /\ \A n \in Nodes \ {head} :
              n \in Range(p) <=> (n \in Origins(p) \/ (p # << >> /\ n = End(p)))
         /\ p # << >> => End(p) \notin Origins(p)
<1>1. DOMAIN p = 1 .. Len(p) /\ Len(p) \in Nat /\ Ply[head] \in Nat
  BY PlyAssumption
<1>2. \A i \in DOMAIN p : Ply[p[i]] = Ply[head] + i /\ Ply[Before(p, i)] = Ply[head] + i - 1
  BY DownPly
<1>3. \A i \in DOMAIN p : i \in Nat /\ i >= 1 /\ i <= Len(p)
  BY <1>1
<1>4. \A i, j \in DOMAIN p : p[i] = p[j] \/ Before(p, i) = Before(p, j) => i = j
  <2> SUFFICES ASSUME NEW i \in DOMAIN p, NEW j \in DOMAIN p, p[i] = p[j] \/ Before(p, i) = Before(p, j)
               PROVE  i = j
    OBVIOUS
  <2>1. Ply[head] + i = Ply[head] + j \/ Ply[head] + i - 1 = Ply[head] + j - 1
    BY <1>2
  <2> QED BY <1>1, <1>3, <2>1
<1>5. \A i, j \in DOMAIN p : Before(p, i) = p[j] => i = j + 1
  <2> SUFFICES ASSUME NEW i \in DOMAIN p, NEW j \in DOMAIN p, Before(p, i) = p[j] PROVE i = j + 1
    OBVIOUS
  <2>1. Ply[head] + i - 1 = Ply[head] + j
    BY <1>2
  <2> QED BY <1>1, <1>3, <2>1
<1>6. head \notin Range(p)
  <2> SUFFICES ASSUME NEW i \in DOMAIN p, p[i] = head PROVE FALSE
    BY DEF Range
  <2>1. Ply[head] = Ply[head] + i
    BY <1>2
  <2> QED BY <1>1, <1>3, <2>1
<1>7. Origins(p) = {Before(p, i) : i \in DOMAIN p}
  BY OriginsAre
<1>8. ASSUME p # << >> PROVE head \in Origins(p) /\ Len(p) \in DOMAIN p /\ End(p) \in created
  <2>1. 1 \in DOMAIN p /\ Len(p) \in DOMAIN p
    BY <1>1, <1>8
  <2>2. Before(p, 1) = head
    BY DEF Before
  <2> QED BY <1>7, <2>1, <2>2, DownStep DEF End
<1>9. ASSUME NEW n \in Origins(p), n # head
      PROVE  n \in Range(p) /\ n \in created /\ ~ Decided(n)
  <2>1. PICK i \in DOMAIN p : n = Before(p, i)
    BY <1>7
  <2>2. i # 1 /\ n = p[i - 1] /\ i - 1 \in DOMAIN p /\ i - 1 < Len(p)
    BY <1>1, <1>9, <2>1 DEF Before
  <2> QED BY <2>2 DEF Down, Range
<1>10. \A n \in Origins(p) : n \in Nodes
  BY <1>7, DownStep
<1>11. ASSUME NEW n \in Nodes \ {head}
       PROVE  n \in Range(p) <=> (n \in Origins(p) \/ (p # << >> /\ n = End(p)))
  <2>1. ASSUME n \in Range(p) PROVE n \in Origins(p) \/ (p # << >> /\ n = End(p))
    <3>1. PICK i \in DOMAIN p : n = p[i]
      BY <2>1 DEF Range
    <3>2. CASE i = Len(p)
      BY <1>1, <3>1, <3>2 DEF End
    <3>3. CASE i # Len(p)
      <4>1. i + 1 \in DOMAIN p /\ Before(p, i + 1) = p[i]
        <5>1. i + 1 \in DOMAIN p /\ i + 1 # 1 /\ (i + 1) - 1 = i
          BY <1>1, <3>1, <3>3
        <5> QED BY <5>1 DEF Before
      <4> QED BY <1>7, <3>1, <4>1
    <3> QED BY <3>2, <3>3
  <2>2. ASSUME p # << >>, n = End(p) PROVE n \in Range(p)
    BY <1>8, <2>2 DEF End, Range
  <2> QED BY <1>9, <2>1, <2>2
<1>12. ASSUME p # << >> PROVE End(p) \notin Origins(p)
  <2> SUFFICES ASSUME NEW i \in DOMAIN p, End(p) = Before(p, i) PROVE FALSE
    BY <1>7
  <2>1. i = Len(p) + 1
    BY <1>5, <1>8, <1>12 DEF End
  <2> QED BY <1>1, <2>1
<1> QED BY <1>4, <1>5, <1>6, <1>8, <1>9, <1>10, <1>11, <1>12

-----------------------------------------------------------------------------
(* What a playout brings to the nodes on its way.                           *)
LEMMA Depths ==
  ASSUME NEW p \in Seq(Nodes), NEW i \in DOMAIN p, NEW r \in Int
  PROVE  /\ AtDepth(p, i, r) \in Int /\ AtDepth(p, Len(p), r) = r
         /\ i + 1 \in DOMAIN p => AtDepth(p, i, r) + AtDepth(p, i + 1, r) = One
<1>1. i \in Nat /\ Len(p) \in Nat /\ i <= Len(p)
  OBVIOUS
<1>2. \A k \in Nat : ((k + 1) % 2 = 0) = (k % 2 # 0)
  OBVIOUS
<1>3. (Len(p) - Len(p)) % 2 = 0
  BY <1>1
<1>4. ASSUME i + 1 \in DOMAIN p
      PROVE  ((Len(p) - i) % 2 = 0) = ((Len(p) - (i + 1)) % 2 # 0)
  <2>1. Len(p) - (i + 1) \in Nat /\ Len(p) - i = (Len(p) - (i + 1)) + 1
    BY <1>1, <1>4
  <2> QED BY <1>2, <2>1
<1> QED BY <1>3, <1>4 DEF AtDepth, One

LEMMA GainsAt ==
  ASSUME NEW p \in Seq(Nodes), Down(p), head \in Nodes, NEW r
  PROVE  /\ \A i \in DOMAIN p : /\ MoveGain(p[i], p, r) = AtDepth(p, i, r)
                                /\ NodeGain(Before(p, i), p, r) = AtDepth(p, i, r)
         /\ \A n : n \notin Range(p) => MoveGain(n, p, r) = 0
         /\ \A n : n \notin Origins(p) => NodeGain(n, p, r) = 0
<1>1. ASSUME NEW i \in DOMAIN p
      PROVE  /\ MoveGain(p[i], p, r) = AtDepth(p, i, r)
             /\ NodeGain(Before(p, i), p, r) = AtDepth(p, i, r)
  <2>1. (CHOOSE j \in DOMAIN p : p[j] = p[i]) = i
    BY DownOnce
  <2>2. \A j \in DOMAIN p : Parent(p[j]) = Before(p, i) <=> j = i
    BY DownOnce, DownStep
  <2>3. (CHOOSE j \in DOMAIN p : Parent(p[j]) = Before(p, i)) = i
    BY <2>2
  <2> QED BY <2>1, <2>2, <2>3 DEF MoveGain, NodeGain
<1>2. \A n : n \notin Range(p) => MoveGain(n, p, r) = 0
  BY DEF MoveGain, Range
<1>3. \A n : n \notin Origins(p) => NodeGain(n, p, r) = 0
  BY DEF NodeGain, Origins, Range
<1> QED BY <1>1, <1>2, <1>3

LEMMA GainsOf ==
  ASSUME NEW p \in Seq(Nodes), Down(p), head \in Nodes, NEW r \in Int
  PROVE  /\ \A n \in Nodes : MoveGain(n, p, r) \in Int /\ NodeGain(n, p, r) \in Int
         /\ \A n \in Nodes \ {head} :
              MoveGain(n, p, r) + NodeGain(n, p, r) =
                IF n \in Origins(p) THEN One ELSE IF p # << >> /\ n = End(p) THEN r ELSE 0
<1>1. \A i \in DOMAIN p : AtDepth(p, i, r) \in Int
  BY Depths
<1>2. ASSUME NEW n \in Nodes PROVE MoveGain(n, p, r) \in Int
  BY <1>1, GainsAt DEF Range
<1>3. ASSUME NEW n \in Nodes PROVE NodeGain(n, p, r) \in Int
  <2>1. CASE n \notin Origins(p)
    BY <2>1, GainsAt
  <2>2. CASE n \in Origins(p)
    <3>1. PICK i \in DOMAIN p : n = Before(p, i)
      BY <2>2, OriginsAre
    <3> QED BY <1>1, <3>1, GainsAt
  <2> QED BY <2>1, <2>2
<1>4. ASSUME NEW n \in Nodes \ {head}, n \in Origins(p)
      PROVE  MoveGain(n, p, r) + NodeGain(n, p, r) = One
  <2>1. PICK i \in DOMAIN p : n = Before(p, i)
    BY <1>4, OriginsAre
  <2>2. i - 1 \in DOMAIN p /\ n = p[i - 1] /\ (i - 1) + 1 = i
    BY <2>1 DEF Before
  <2>3. MoveGain(n, p, r) = AtDepth(p, i - 1, r) /\ NodeGain(n, p, r) = AtDepth(p, i, r)
    BY <2>1, <2>2, GainsAt
  <2>4. AtDepth(p, i - 1, r) + AtDepth(p, (i - 1) + 1, r) = One
    BY <2>2, Depths
  <2> QED BY <2>2, <2>3, <2>4
<1>5. ASSUME NEW n \in Nodes \ {head}, n \notin Origins(p), p # << >>, n = End(p)
      PROVE  MoveGain(n, p, r) + NodeGain(n, p, r) = r
  <2>1. Len(p) \in DOMAIN p /\ n = p[Len(p)]
    BY <1>5, DownOnce DEF End
  <2>2. MoveGain(n, p, r) = AtDepth(p, Len(p), r)
    BY <2>1, GainsAt
  <2> QED BY <1>5, <2>1, <2>2, GainsAt, Depths
<1>6. ASSUME NEW n \in Nodes \ {head}, n \notin Origins(p), ~ (p # << >> /\ n = End(p))
      PROVE  MoveGain(n, p, r) + NodeGain(n, p, r) = 0
  <2>1. n \notin Range(p)
    BY <1>6, DownOnce
  <2> QED BY <1>6, <2>1, GainsAt
<1> QED BY <1>2, <1>3, <1>4, <1>5, <1>6

(* A node gets what its moves get.                                          *)
LEMMA KidsOnWay ==
  ASSUME NEW p \in Seq(Nodes), Down(p), head \in Nodes, NEW n \in Nodes
  PROVE  /\ n \notin Origins(p) => \A k \in KidSet(n) : k \notin Range(p)
         /\ n \in Origins(p) => \E i \in DOMAIN p : /\ n = Before(p, i) /\ p[i] \in KidSet(n)
                                                    /\ \A k \in KidSet(n) \ {p[i]} : k \notin Range(p)
<1>1. \A i \in DOMAIN p : p[i] \in KidSet(n) => n = Before(p, i)
  BY DownStep, ParentIs
<1>2. Origins(p) = {Before(p, i) : i \in DOMAIN p}
  BY OriginsAre
<1>3. ASSUME n \notin Origins(p) PROVE \A k \in KidSet(n) : k \notin Range(p)
  BY <1>1, <1>2, <1>3 DEF Range
<1>4. ASSUME n \in Origins(p)
      PROVE  \E i \in DOMAIN p : /\ n = Before(p, i) /\ p[i] \in KidSet(n)
                                 /\ \A k \in KidSet(n) \ {p[i]} : k \notin Range(p)
  <2>1. PICK i \in DOMAIN p : n = Before(p, i)
    BY <1>2, <1>4
  <2>2. p[i] \in KidSet(n)
    BY <2>1, DownStep
  <2>3. ASSUME NEW j \in DOMAIN p, p[j] \in KidSet(n) PROVE p[j] = p[i]
    BY <1>1, <2>1, <2>3, DownOnce
  <2> QED BY <2>1, <2>2, <2>3 DEF Range
<1> QED BY <1>3, <1>4

LEMMA KidsGain ==
  ASSUME NEW p \in Seq(Nodes), Down(p), head \in Nodes, NEW r \in Int, NEW n \in Nodes,
         NEW f, \A k \in KidSet(n) : f[k] = MoveGain(k, p, r)
  PROVE  SumFunctionOnSet(f, KidSet(n)) = NodeGain(n, p, r)
<1>1. IsFiniteSet(KidSet(n)) /\ KidSet(n) \subseteq Nodes
  BY KidSetIs
<1>2. CASE n \notin Origins(p)
  <2>1. \A k \in KidSet(n) : f[k] = 0
    BY <1>2, KidsOnWay, GainsAt
  <2> QED BY <1>1, <1>2, <2>1, SumZero, GainsAt
<1>3. CASE n \in Origins(p)
  <2>1. PICK i \in DOMAIN p : /\ n = Before(p, i) /\ p[i] \in KidSet(n)
                              /\ \A k \in KidSet(n) \ {p[i]} : k \notin Range(p)
    BY <1>3, KidsOnWay
  <2>2. \A k \in KidSet(n) \ {p[i]} : f[k] = 0
    BY <2>1, GainsAt
  <2>3. f[p[i]] = AtDepth(p, i, r)
    BY <2>1, GainsAt
  <2>4. f[p[i]] \in Int
    BY <2>3, Depths
  <2> QED BY <1>1, <2>1, <2>2, <2>3, <2>4, SumOne, GainsAt
<1> QED BY <1>2, <1>3

LEMMA KidsPassed ==
  ASSUME NEW p \in Seq(Nodes), Down(p), head \in Nodes, NEW n \in Nodes,
         NEW f, \A k \in KidSet(n) : f[k] = Bit(p \in Through(k))
  PROVE  SumFunctionOnSet(f, KidSet(n)) = Bit(p \in Via(n))
<1>1. IsFiniteSet(KidSet(n)) /\ KidSet(n) \subseteq Nodes
  BY KidSetIs
<1>2. CASE n \notin Origins(p)
  <2>1. \A k \in KidSet(n) : f[k] = 0
    BY <1>2, KidsOnWay DEF Through, Bit
  <2> QED BY <1>1, <1>2, <2>1, SumZero DEF Via, Bit
<1>3. CASE n \in Origins(p)
  <2>1. PICK i \in DOMAIN p : /\ n = Before(p, i) /\ p[i] \in KidSet(n)
                              /\ \A k \in KidSet(n) \ {p[i]} : k \notin Range(p)
    BY <1>3, KidsOnWay
  <2>2. \A k \in KidSet(n) \ {p[i]} : f[k] = 0
    BY <2>1 DEF Through, Bit
  <2>3. f[p[i]] = 1
    BY <2>1 DEF Through, Bit, Range, Playouts
  <2> QED BY <1>1, <1>3, <2>1, <2>2, <2>3, SumOne DEF Via, Bit, Playouts
<1> QED BY <1>2, <1>3

-----------------------------------------------------------------------------
(* Counting playouts.                                                       *)
LEMMA CountSum ==
  ASSUME NEW s, Len(s) \in Nat, DOMAIN s = 1 .. Len(s), NEW X,
         NEW f, \A j \in DOMAIN s : f[j] = Bit(s[j] \in X)
  PROVE  /\ IsFiniteSet(DOMAIN s) /\ Count(s, X) \in Nat
         /\ SumFunctionOnSet(f, DOMAIN s) = Count(s, X)
<1>1. IsFiniteSet(DOMAIN s)
  BY FS_Interval
<1>2. \A j \in DOMAIN s : f[j] \in {0, 1}
  BY DEF Bit
<1>3. {j \in DOMAIN s : f[j] = 1} = {j \in DOMAIN s : s[j] \in X}
  BY DEF Bit
<1>4. SumFunctionOnSet(f, DOMAIN s) = Cardinality({j \in DOMAIN s : f[j] = 1})
  BY <1>1, <1>2, SumCount
<1>5. Cardinality({j \in DOMAIN s : s[j] \in X}) \in Nat
  BY <1>1, FS_Subset, FS_CardinalityType
<1> QED BY <1>1, <1>3, <1>4, <1>5 DEF Count

LEMMA CountIs ==
  ASSUME NEW s, Len(s) \in Nat, DOMAIN s = 1 .. Len(s), NEW X
  PROVE  /\ Count(s, X) \in Nat
         /\ (\A j \in DOMAIN s : s[j] \notin X) => Count(s, X) = 0
         /\ (\A j \in DOMAIN s : s[j] \in X) => Count(s, X) = Len(s)
         /\ s = << >> => Count(s, X) = 0
<1>1. IsFiniteSet(DOMAIN s) /\ Cardinality(DOMAIN s) = Len(s)
  <2>1. IsFiniteSet(1 .. Len(s)) /\ Cardinality(1 .. Len(s)) = IF 1 > Len(s) THEN 0 ELSE Len(s) - 1 + 1
    BY FS_Interval
  <2> QED BY <2>1
<1>2. Count(s, X) \in Nat
  BY <1>1, FS_Subset, FS_CardinalityType DEF Count
<1>3. ASSUME \A j \in DOMAIN s : s[j] \notin X PROVE Count(s, X) = 0
  <2>1. {j \in DOMAIN s : s[j] \in X} = {}
    BY <1>3
  <2> QED BY <2>1, FS_EmptySet DEF Count
<1>4. ASSUME \A j \in DOMAIN s : s[j] \in X PROVE Count(s, X) = Len(s)
  <2>1. {j \in DOMAIN s : s[j] \in X} = DOMAIN s
    BY <1>4
  <2> QED BY <1>1, <2>1 DEF Count
<1>5. s = << >> => \A j \in DOMAIN s : s[j] \notin X
  OBVIOUS
<1> QED BY <1>2, <1>3, <1>4, <1>5

LEMMA CountAppend ==
  ASSUME NEW S, NEW s \in Seq(S), NEW p \in S, NEW X
  PROVE  Count(Append(s, p), X) = Count(s, X) + Bit(p \in X)
<1> DEFINE q == Append(s, p)
           D == {j \in DOMAIN s : s[j] \in X}
           E == {j \in DOMAIN q : q[j] \in X}
<1>1. /\ Len(s) \in Nat /\ DOMAIN s = 1 .. Len(s) /\ DOMAIN q = 1 .. Len(s) + 1
      /\ \A j \in 1 .. Len(s) : q[j] = s[j]
      /\ q[Len(s) + 1] = p
  OBVIOUS
<1> HIDE DEF q
<1>2. IsFiniteSet(D)
  <2>1. IsFiniteSet(1 .. Len(s))
    BY <1>1, FS_Interval
  <2> QED BY <1>1, <2>1, FS_Subset
<1>3. Cardinality(D) \in Nat
  BY <1>2, FS_CardinalityType
<1>6. Count(Append(s, p), X) = Cardinality(E) /\ Count(s, X) = Cardinality(D)
  BY DEF Count, q
<1>4. CASE p \in X
  <2>1. E = D \cup {Len(s) + 1} /\ Len(s) + 1 \notin D
    BY <1>1, <1>4
  <2>2. Cardinality(E) = Cardinality(D) + 1
    <3> HIDE DEF E, D
    <3> QED BY <1>2, <2>1, FS_AddElement
  <2> HIDE DEF E, D
  <2> QED BY <1>4, <1>6, <2>2 DEF Bit
<1>5. CASE p \notin X
  <2>1. E = D
    BY <1>1, <1>5
  <2> HIDE DEF E, D
  <2> QED BY <1>3, <1>5, <1>6, <2>1 DEF Bit
<1> QED BY <1>4, <1>5

LEMMA CountSplit ==
  ASSUME NEW s, Len(s) \in Nat, DOMAIN s = 1 .. Len(s), NEW X, NEW Y, NEW Z,
         \A j \in DOMAIN s : Bit(s[j] \in Z) = Bit(s[j] \in X) + Bit(s[j] \in Y)
  PROVE  Count(s, Z) = Count(s, X) + Count(s, Y)
<1> DEFINE of(A) == [j \in DOMAIN s |-> Bit(s[j] \in A)]
<1>1. \A A : /\ \A j \in DOMAIN s : of(A)[j] = Bit(s[j] \in A) /\ of(A)[j] \in Int
  BY DEF Bit
<1> HIDE DEF of
<1>2. /\ IsFiniteSet(DOMAIN s)
      /\ SumFunctionOnSet(of(X), DOMAIN s) = Count(s, X)
      /\ SumFunctionOnSet(of(Y), DOMAIN s) = Count(s, Y)
      /\ SumFunctionOnSet(of(Z), DOMAIN s) = Count(s, Z)
  BY <1>1, CountSum
<1>3. SumFunctionOnSet(of(Z), DOMAIN s) = SumFunctionOnSet(of(X), DOMAIN s) + SumFunctionOnSet(of(Y), DOMAIN s)
  BY <1>1, <1>2, SumPlus DEF Adds
<1> QED BY <1>2, <1>3

LEMMA CountKids ==
  ASSUME NEW s \in Seq(Seq(Nodes)), \A j \in DOMAIN s : Down(s[j]), head \in Nodes, NEW n \in Nodes,
         NEW f, \A k \in KidSet(n) : f[k] = Count(s, Through(k))
  PROVE  SumFunctionOnSet(f, KidSet(n)) = Count(s, Via(n))
<1> DEFINE F == [k \in KidSet(n) |-> [j \in DOMAIN s |-> Bit(s[j] \in Through(k))]]
           C == [j \in DOMAIN s |-> [k \in KidSet(n) |-> Bit(s[j] \in Through(k))]]
           g == [j \in DOMAIN s |-> Bit(s[j] \in Via(n))]
<1>1. Len(s) \in Nat /\ DOMAIN s = 1 .. Len(s) /\ \A j \in DOMAIN s : s[j] \in Seq(Nodes)
  OBVIOUS
<1>2. \A k \in KidSet(n) : \A j \in DOMAIN s : F[k][j] = Bit(s[j] \in Through(k)) /\ F[k][j] \in Int /\ C[j][k] = F[k][j]
  BY DEF Bit
<1>3. \A j \in DOMAIN s : g[j] = Bit(s[j] \in Via(n))
  OBVIOUS
<1> HIDE DEF F, C, g
<1>4. IsFiniteSet(KidSet(n)) /\ IsFiniteSet(DOMAIN s)
  BY <1>1, KidSetIs, FS_Interval
<1>5. ASSUME NEW k \in KidSet(n) PROVE f[k] = SumFunctionOnSet(F[k], DOMAIN s)
  BY <1>1, <1>2, CountSum
<1>6. ASSUME NEW j \in DOMAIN s PROVE g[j] = SumFunctionOnSet(C[j], KidSet(n))
  <2>1. \A k \in KidSet(n) : C[j][k] = Bit(s[j] \in Through(k))
    BY <1>2
  <2>2. s[j] \in Seq(Nodes) /\ Down(s[j])
    BY <1>1
  <2>3. SumFunctionOnSet(C[j], KidSet(n)) = Bit(s[j] \in Via(n))
    BY <2>1, <2>2, KidsPassed
  <2> QED BY <1>3, <2>3
<1>7. SumFunctionOnSet(f, KidSet(n)) = SumFunctionOnSet(g, DOMAIN s)
  <2>1. \A k \in KidSet(n) : \A j \in DOMAIN s : F[k][j] \in Int /\ C[j][k] = F[k][j]
    BY <1>2
  <2>2. Transposed(KidSet(n), DOMAIN s, F, C, f, g)
    BY <1>5, <1>6, <2>1 DEF Transposed
  <2> QED BY <1>4, <2>2, SumSwap
<1> QED BY <1>1, <1>3, <1>7, CountSum

(* A playout that comes to a node below the head went on or ended there.    *)
LEMMA CountThrough ==
  ASSUME NEW s \in Seq(Seq(Nodes)), \A j \in DOMAIN s : Down(s[j]), head \in Nodes,
         NEW n \in Nodes \ {head}
  PROVE  /\ Count(s, Through(n)) = Count(s, Via(n)) + Count(s, At(n))
         /\ Decided(n) => Count(s, Via(n)) = 0
<1>1. Len(s) \in Nat /\ DOMAIN s = 1 .. Len(s) /\ \A j \in DOMAIN s : s[j] \in Seq(Nodes)
  OBVIOUS
<1>2. ASSUME NEW j \in DOMAIN s
      PROVE  /\ Bit(s[j] \in Through(n)) = Bit(s[j] \in Via(n)) + Bit(s[j] \in At(n))
             /\ Decided(n) => s[j] \notin Via(n)
  <2>1. s[j] \in Seq(Nodes) /\ Down(s[j])
    BY <1>1
  <2>2. /\ n \in Range(s[j]) <=> (n \in Origins(s[j]) \/ (s[j] # << >> /\ n = End(s[j])))
        /\ s[j] # << >> => End(s[j]) \notin Origins(s[j])
        /\ n \in Origins(s[j]) => ~ Decided(n)
    BY <2>1, DownOnce
  <2> QED BY <2>1, <2>2 DEF Through, Via, At, Playouts, Bit
<1>3. Count(s, Through(n)) = Count(s, Via(n)) + Count(s, At(n))
  BY <1>1, <1>2, CountSplit
<1>4. Decided(n) => Count(s, Via(n)) = 0
  BY <1>1, <1>2, CountIs
<1> QED BY <1>3, <1>4

(* What the batch of t brings.                                              *)
Batched(t) == \A j \in DOMAIN queue[t] :
  Down(queue[t][j]) /\ queue[t][j] # << >> /\ ~ Decided(End(queue[t][j]))
MoveGainAt(t, n) == [j \in DOMAIN queue[t] |-> MoveGain(n, queue[t][j], LeafValue(queue[t][j]))]
NodeGainAt(t, n) == [j \in DOMAIN queue[t] |-> NodeGain(n, queue[t][j], LeafValue(queue[t][j]))]

LEMMA QueueForm ==
  ASSUME NEW t \in Threads, BatchTypes, Batched(t), head \in Nodes
  PROVE  /\ Len(queue[t]) \in Nat /\ DOMAIN queue[t] = 1 .. Len(queue[t]) /\ IsFiniteSet(DOMAIN queue[t])
         /\ \A j \in DOMAIN queue[t] :
              /\ queue[t][j] \in Seq(Nodes) /\ Down(queue[t][j]) /\ queue[t][j] # << >>
              /\ LeafValue(queue[t][j]) \in Int
         /\ \A n : /\ MoveGains(t, n) = SumFunctionOnSet(MoveGainAt(t, n), DOMAIN queue[t])
                   /\ NodeGains(t, n) = SumFunctionOnSet(NodeGainAt(t, n), DOMAIN queue[t])
<1>1. queue[t] \in Seq(Seq(Nodes))
  BY DEF BatchTypes
<1>2. /\ Len(queue[t]) \in Nat /\ DOMAIN queue[t] = 1 .. Len(queue[t])
      /\ \A j \in DOMAIN queue[t] : queue[t][j] \in Seq(Nodes)
  BY <1>1
<1>3. IsFiniteSet(DOMAIN queue[t])
  BY <1>2, FS_Interval
<1>4. ASSUME NEW j \in DOMAIN queue[t] PROVE LeafValue(queue[t][j]) \in Int
  <2>1. queue[t][j] \in Seq(Nodes) /\ queue[t][j] # << >> /\ Down(queue[t][j])
    BY <1>2 DEF Batched
  <2>2. End(queue[t][j]) \in Nodes
    BY <2>1 DEF End
  <2>3. NN[End(queue[t][j])] \in 0 .. One
    BY <2>2, TreeAssumption
  <2> QED BY <2>3 DEF LeafValue, One
<1>5. \A n : /\ MoveGains(t, n) = SumFunctionOnSet(MoveGainAt(t, n), DOMAIN queue[t])
             /\ NodeGains(t, n) = SumFunctionOnSet(NodeGainAt(t, n), DOMAIN queue[t])
  <2> SUFFICES ASSUME NEW n
               PROVE  /\ MoveGains(t, n) = SumFunctionOnSet(MoveGainAt(t, n), DOMAIN queue[t])
                      /\ NodeGains(t, n) = SumFunctionOnSet(NodeGainAt(t, n), DOMAIN queue[t])
    OBVIOUS
  <2>1. DOMAIN MoveGainAt(t, n) = DOMAIN queue[t] /\ DOMAIN NodeGainAt(t, n) = DOMAIN queue[t]
    BY DEF MoveGainAt, NodeGainAt
  <2>2. MoveGains(t, n) = SumFunction(MoveGainAt(t, n)) /\ NodeGains(t, n) = SumFunction(NodeGainAt(t, n))
    BY DEF MoveGains, NodeGains, MoveGainAt, NodeGainAt
  <2> QED BY <2>1, <2>2 DEF SumFunction
<1> QED BY <1>2, <1>3, <1>4, <1>5 DEF Batched

LEMMA GainsAreInt ==
  ASSUME NEW t \in Threads, BatchTypes, Batched(t), head \in Nodes, NEW n \in Nodes
  PROVE  /\ MoveGains(t, n) \in Int /\ NodeGains(t, n) \in Int
         /\ \A j \in DOMAIN queue[t] : /\ MoveGainAt(t, n)[j] = MoveGain(n, queue[t][j], LeafValue(queue[t][j]))
                                       /\ NodeGainAt(t, n)[j] = NodeGain(n, queue[t][j], LeafValue(queue[t][j]))
                                       /\ MoveGainAt(t, n)[j] \in Int /\ NodeGainAt(t, n)[j] \in Int
         /\ (\A j \in DOMAIN queue[t] : n \notin Range(queue[t][j])) => MoveGains(t, n) = 0
         /\ (\A j \in DOMAIN queue[t] : n \notin Origins(queue[t][j])) => NodeGains(t, n) = 0
<1>1. \A j \in DOMAIN queue[t] : /\ MoveGainAt(t, n)[j] = MoveGain(n, queue[t][j], LeafValue(queue[t][j]))
                                 /\ NodeGainAt(t, n)[j] = NodeGain(n, queue[t][j], LeafValue(queue[t][j]))
  BY DEF MoveGainAt, NodeGainAt
<1>2. \A j \in DOMAIN queue[t] :
        /\ MoveGain(n, queue[t][j], LeafValue(queue[t][j])) \in Int
        /\ NodeGain(n, queue[t][j], LeafValue(queue[t][j])) \in Int
        /\ n \notin Range(queue[t][j]) => MoveGain(n, queue[t][j], LeafValue(queue[t][j])) = 0
        /\ n \notin Origins(queue[t][j]) => NodeGain(n, queue[t][j], LeafValue(queue[t][j])) = 0
  BY QueueForm, GainsOf, GainsAt
<1>3. IsFiniteSet(DOMAIN queue[t])
  BY QueueForm
<1>4. /\ \A j \in DOMAIN queue[t] : MoveGainAt(t, n)[j] \in Int /\ NodeGainAt(t, n)[j] \in Int
      /\ (\A j \in DOMAIN queue[t] : n \notin Range(queue[t][j])) => \A j \in DOMAIN queue[t] : MoveGainAt(t, n)[j] = 0
      /\ (\A j \in DOMAIN queue[t] : n \notin Origins(queue[t][j])) => \A j \in DOMAIN queue[t] : NodeGainAt(t, n)[j] = 0
  BY <1>1, <1>2
<1>5. /\ MoveGains(t, n) = SumFunctionOnSet(MoveGainAt(t, n), DOMAIN queue[t])
      /\ NodeGains(t, n) = SumFunctionOnSet(NodeGainAt(t, n), DOMAIN queue[t])
  BY QueueForm
<1>6. MoveGains(t, n) \in Int /\ NodeGains(t, n) \in Int
  BY <1>3, <1>4, <1>5, SumInt
<1>7. /\ (\A j \in DOMAIN queue[t] : n \notin Range(queue[t][j])) => MoveGains(t, n) = 0
      /\ (\A j \in DOMAIN queue[t] : n \notin Origins(queue[t][j])) => NodeGains(t, n) = 0
  BY <1>3, <1>4, <1>5, SumZero
<1> QED BY <1>1, <1>4, <1>6, <1>7

LEMMA BatchGains ==
  ASSUME NEW t \in Threads, BatchTypes, Batched(t), head \in Nodes, NEW n \in Nodes \ {head}
  PROVE  MoveGains(t, n) + NodeGains(t, n) =
           One * Count(queue[t], Via(n)) + (One - NN[n]) * Count(queue[t], At(n))
<1> DEFINE D == DOMAIN queue[t]
           via == [j \in D |-> Bit(queue[t][j] \in Via(n))]
           at  == [j \in D |-> Bit(queue[t][j] \in At(n))]
           f   == [j \in D |-> One * via[j]]
           g   == [j \in D |-> (One - NN[n]) * at[j]]
           h   == [j \in D |-> f[j] + g[j]]
<1>1. /\ Len(queue[t]) \in Nat /\ D = 1 .. Len(queue[t]) /\ IsFiniteSet(D)
      /\ \A j \in D : /\ queue[t][j] \in Seq(Nodes) /\ Down(queue[t][j]) /\ queue[t][j] # << >>
                      /\ LeafValue(queue[t][j]) \in Int
      /\ MoveGains(t, n) = SumFunctionOnSet(MoveGainAt(t, n), D)
      /\ NodeGains(t, n) = SumFunctionOnSet(NodeGainAt(t, n), D)
  BY QueueForm
<1>2. One \in Int /\ One - NN[n] \in Int
  <2>1. NN[n] \in 0 .. One
    BY TreeAssumption
  <2> QED BY <2>1 DEF One
<1>3. \A j \in D : /\ via[j] = Bit(queue[t][j] \in Via(n)) /\ via[j] \in {0, 1}
                   /\ at[j] = Bit(queue[t][j] \in At(n)) /\ at[j] \in {0, 1}
  BY DEF Bit
<1>4. \A j \in D : f[j] = One * via[j] /\ g[j] = (One - NN[n]) * at[j] /\ h[j] = f[j] + g[j]
  OBVIOUS
<1> HIDE DEF via, at, f, g, h
<1>5. \A j \in D : f[j] \in Int /\ g[j] \in Int /\ via[j] \in Int /\ at[j] \in Int
  BY <1>2, <1>3, <1>4
<1>6. ASSUME NEW j \in D PROVE h[j] = MoveGainAt(t, n)[j] + NodeGainAt(t, n)[j]
  <2> DEFINE p == queue[t][j]
             r == LeafValue(queue[t][j])
  <2>1. p \in Seq(Nodes) /\ Down(p) /\ p # << >> /\ r \in Int
    BY <1>1
  <2>2. MoveGainAt(t, n)[j] + NodeGainAt(t, n)[j] = IF n \in Origins(p) THEN One ELSE IF p # << >> /\ n = End(p) THEN r ELSE 0
    <3>1. MoveGainAt(t, n)[j] = MoveGain(n, p, r) /\ NodeGainAt(t, n)[j] = NodeGain(n, p, r)
      BY GainsAreInt
    <3>2. MoveGain(n, p, r) + NodeGain(n, p, r) = IF n \in Origins(p) THEN One ELSE IF p # << >> /\ n = End(p) THEN r ELSE 0
      <4> HIDE DEF p, r
      <4> QED BY ONLY <2>1, GainsOf, head \in Nodes, n \in Nodes \ {head}
    <3> QED BY <3>1, <3>2
  <2>3. p # << >> => End(p) \notin Origins(p)
    <3> HIDE DEF p, r
    <3> QED BY <2>1, DownOnce
  <2>4. CASE n \in Origins(p)
    <3>1. via[j] = 1 /\ at[j] = 0
      BY <1>3, <2>1, <2>3, <2>4 DEF Via, At, Bit, Playouts
    <3> QED BY <1>2, <1>4, <2>2, <2>4, <3>1 DEF One
  <2>5. CASE n \notin Origins(p) /\ n = End(p)
    <3>1. via[j] = 0 /\ at[j] = 1
      BY <1>3, <2>1, <2>5 DEF Via, At, Bit, Playouts
    <3>2. r = One - NN[n]
      BY <2>5 DEF LeafValue
    <3> QED BY <1>2, <1>4, <2>1, <2>2, <2>5, <3>1, <3>2 DEF One
  <2>6. CASE n \notin Origins(p) /\ n # End(p)
    <3>1. via[j] = 0 /\ at[j] = 0
      BY <1>3, <2>1, <2>6 DEF Via, At, Bit, Playouts
    <3> QED BY <1>2, <1>4, <2>1, <2>2, <2>6, <3>1 DEF One
  <2> QED BY <2>4, <2>5, <2>6
<1>7. SumFunctionOnSet(h, D) = MoveGains(t, n) + NodeGains(t, n)
  <2>1. \A j \in D : MoveGainAt(t, n)[j] \in Int /\ NodeGainAt(t, n)[j] \in Int
    BY GainsAreInt
  <2>2. Adds(D, MoveGainAt(t, n), NodeGainAt(t, n), h)
    BY <1>6, <2>1 DEF Adds
  <2> QED BY <1>1, <2>2, SumPlus
<1>8. SumFunctionOnSet(h, D) = SumFunctionOnSet(f, D) + SumFunctionOnSet(g, D)
  <2>1. Adds(D, f, g, h)
    BY <1>4, <1>5 DEF Adds
  <2> QED BY <1>1, <2>1, SumPlus
<1>9. SumFunctionOnSet(f, D) = One * SumFunctionOnSet(via, D)
  BY <1>1, <1>2, <1>4, <1>5, SumTimes
<1>10. SumFunctionOnSet(g, D) = (One - NN[n]) * SumFunctionOnSet(at, D)
  BY <1>1, <1>2, <1>4, <1>5, SumTimes
<1>11. SumFunctionOnSet(via, D) = Count(queue[t], Via(n)) /\ SumFunctionOnSet(at, D) = Count(queue[t], At(n))
  BY <1>1, <1>3, CountSum
<1> QED BY <1>7, <1>8, <1>9, <1>10, <1>11

LEMMA BatchKids ==
  ASSUME NEW t \in Threads, BatchTypes, Batched(t), head \in Nodes, NEW n \in Nodes,
         NEW f, \A k \in KidSet(n) : f[k] = MoveGains(t, k)
  PROVE  SumFunctionOnSet(f, KidSet(n)) = NodeGains(t, n)
<1> DEFINE D == DOMAIN queue[t]
           F == [k \in KidSet(n) |-> MoveGainAt(t, k)]
           C == [j \in D |-> [k \in KidSet(n) |-> MoveGainAt(t, k)[j]]]
<1>1. KidSet(n) \subseteq Nodes /\ IsFiniteSet(KidSet(n)) /\ IsFiniteSet(D)
  BY KidSetIs, QueueForm
<1>2. \A k \in KidSet(n) : F[k] = MoveGainAt(t, k) /\ \A j \in D : C[j][k] = F[k][j]
  OBVIOUS
<1> HIDE DEF F, C
<1>3. \A k \in KidSet(n) : f[k] = SumFunctionOnSet(F[k], D)
  BY <1>2, QueueForm
<1>4. \A k \in KidSet(n) : \A j \in D : F[k][j] \in Int /\ C[j][k] = F[k][j]
  BY <1>1, <1>2, GainsAreInt
<1>5. ASSUME NEW j \in D PROVE NodeGainAt(t, n)[j] = SumFunctionOnSet(C[j], KidSet(n))
  <2>1. /\ queue[t][j] \in Seq(Nodes) /\ Down(queue[t][j]) /\ LeafValue(queue[t][j]) \in Int
    BY QueueForm
  <2>2. \A k \in KidSet(n) : C[j][k] = MoveGain(k, queue[t][j], LeafValue(queue[t][j]))
    BY <1>1, <1>2, GainsAreInt
  <2>3. SumFunctionOnSet(C[j], KidSet(n)) = NodeGain(n, queue[t][j], LeafValue(queue[t][j]))
    BY <2>1, <2>2, KidsGain
  <2> QED BY <2>3, GainsAreInt
<1>6. Transposed(KidSet(n), D, F, C, f, NodeGainAt(t, n))
  BY <1>3, <1>4, <1>5 DEF Transposed
<1> QED BY <1>1, <1>6, SumSwap, QueueForm

(* What all threads have pending.                                           *)
AllNotCounted  == SumFunction([t \in Threads |-> NotCounted(t)])
PendingsAreNat ==
  /\ \A t \in Threads : NotCounted(t) \in Nat /\ \A X : Pending(t, X) \in Nat /\ Asked(t, X) \in Nat
  /\ AllNotCounted \in Nat /\ \A X : AllPending(X) \in Nat /\ AllAsked(X) \in Nat

LEMMA PendingForm == BatchTypes => PendingsAreNat
<1> SUFFICES ASSUME BatchTypes PROVE PendingsAreNat
  OBVIOUS
<1>1. ASSUME NEW t \in Threads
      PROVE  NotCounted(t) \in Nat /\ \A X : Pending(t, X) \in Nat /\ Asked(t, X) \in Nat
  <2>1. queue[t] \in Seq(Seq(Nodes)) /\ discard[t] \in Seq(Seq(Nodes))
    BY DEF BatchTypes
  <2>2. /\ Len(queue[t]) \in Nat /\ DOMAIN queue[t] = 1 .. Len(queue[t])
        /\ Len(discard[t]) \in Nat /\ DOMAIN discard[t] = 1 .. Len(discard[t])
    BY <2>1
  <2>3. \A X : Count(queue[t], X) \in Nat /\ Count(discard[t], X) \in Nat
    BY <2>2, CountIs
  <2>4. \A b : Bit(b) \in Nat
    BY DEF Bit
  <2>5. NotCounted(t) \in Nat
    <3>1. (IF path[t] # << >> THEN 1 ELSE 0) \in Nat
      OBVIOUS
    <3>2. (IF pc[t] \in {"backup", "check"} THEN 0 ELSE Len(discard[t])) \in Nat
      BY <2>2
    <3>3. \A a, b \in Nat : a + b \in Nat
      OBVIOUS
    <3> QED BY <3>1, <3>2, <3>3 DEF NotCounted
  <2> QED BY <2>3, <2>4, <2>5 DEF Pending, Asked
<1>2. AllNotCounted \in Nat
  <2> DEFINE f == [t \in Threads |-> NotCounted(t)]
  <2>1. DOMAIN f = Threads /\ \A t \in Threads : f[t] \in Nat
    BY <1>1
  <2> HIDE DEF f
  <2>2. SumFunctionOnSet(f, Threads) \in Nat
    BY <2>1, SumNat, ThreadsAssumption
  <2> QED BY <2>1, <2>2 DEF AllNotCounted, SumFunction, f
<1>3. ASSUME NEW X PROVE AllPending(X) \in Nat
  <2> DEFINE f == [t \in Threads |-> Pending(t, X)]
  <2>1. DOMAIN f = Threads /\ \A t \in Threads : f[t] \in Nat
    BY <1>1
  <2> HIDE DEF f
  <2>2. SumFunctionOnSet(f, Threads) \in Nat
    BY <2>1, SumNat, ThreadsAssumption
  <2> QED BY <2>1, <2>2 DEF AllPending, SumFunction, f
<1>4. ASSUME NEW X PROVE AllAsked(X) \in Nat
  <2> DEFINE f == [t \in Threads |-> Asked(t, X)]
  <2>1. DOMAIN f = Threads /\ \A t \in Threads : f[t] \in Nat
    BY <1>1
  <2> HIDE DEF f
  <2>2. SumFunctionOnSet(f, Threads) \in Nat
    BY <2>1, SumNat, ThreadsAssumption
  <2> QED BY <2>1, <2>2 DEF AllAsked, SumFunction, f
<1> QED BY <1>1, <1>2, <1>3, <1>4 DEF PendingsAreNat

LEMMA PendingFormNext == BatchTypes' => PendingsAreNat'
BY PendingForm, PTL

(* A step of t changes the totals by what it changes for t.                 *)
LEMMA TotalsChange ==
  ASSUME BatchTypes, BatchTypes', NEW t \in Threads, Others(t)
  PROVE  /\ AllNotCounted' = AllNotCounted + (NotCounted(t)' - NotCounted(t))
         /\ \A X : /\ AllPending(X)' = AllPending(X) + (Pending(t, X)' - Pending(t, X))
                   /\ AllAsked(X)' = AllAsked(X) + (Asked(t, X)' - Asked(t, X))
<1>1. PendingsAreNat /\ PendingsAreNat'
  BY PendingForm, PendingFormNext
<1>2. \A s \in Threads \ {t} :
        NotCounted(s)' = NotCounted(s) /\ \A X : Pending(s, X)' = Pending(s, X) /\ Asked(s, X)' = Asked(s, X)
  BY DEF Others, NotCounted, Pending, Asked
<1>3. AllNotCounted' = AllNotCounted + (NotCounted(t)' - NotCounted(t))
  <2> DEFINE f == [s \in Threads |-> NotCounted(s)]
             g == [s \in Threads |-> NotCounted(s)']
  <2>1. /\ DOMAIN f = Threads /\ DOMAIN g = Threads
        /\ \A s \in Threads : f[s] = NotCounted(s) /\ g[s] = NotCounted(s)'
    OBVIOUS
  <2>2. AllNotCounted = SumFunctionOnSet(f, Threads) /\ AllNotCounted' = SumFunctionOnSet(g, Threads)
    BY <2>1 DEF AllNotCounted, SumFunction
  <2> HIDE DEF f, g
  <2>3. \A s \in Threads : f[s] \in Int /\ g[s] \in Int
    BY <1>1, <2>1 DEF PendingsAreNat
  <2> QED BY <1>2, <2>1, <2>2, <2>3, SumDiff, ThreadsAssumption
<1>4. ASSUME NEW X PROVE AllPending(X)' = AllPending(X) + (Pending(t, X)' - Pending(t, X))
  <2> DEFINE f == [s \in Threads |-> Pending(s, X)]
             g == [s \in Threads |-> Pending(s, X)']
  <2>1. /\ DOMAIN f = Threads /\ DOMAIN g = Threads
        /\ \A s \in Threads : f[s] = Pending(s, X) /\ g[s] = Pending(s, X)'
    OBVIOUS
  <2>2. AllPending(X) = SumFunctionOnSet(f, Threads) /\ AllPending(X)' = SumFunctionOnSet(g, Threads)
    BY <2>1 DEF AllPending, SumFunction
  <2> HIDE DEF f, g
  <2>3. \A s \in Threads : f[s] \in Int /\ g[s] \in Int
    BY <1>1, <2>1 DEF PendingsAreNat
  <2> QED BY <1>2, <2>1, <2>2, <2>3, SumDiff, ThreadsAssumption
<1>5. ASSUME NEW X PROVE AllAsked(X)' = AllAsked(X) + (Asked(t, X)' - Asked(t, X))
  <2> DEFINE f == [s \in Threads |-> Asked(s, X)]
             g == [s \in Threads |-> Asked(s, X)']
  <2>1. /\ DOMAIN f = Threads /\ DOMAIN g = Threads
        /\ \A s \in Threads : f[s] = Asked(s, X) /\ g[s] = Asked(s, X)'
    OBVIOUS
  <2>2. AllAsked(X) = SumFunctionOnSet(f, Threads) /\ AllAsked(X)' = SumFunctionOnSet(g, Threads)
    BY <2>1 DEF AllAsked, SumFunction
  <2> HIDE DEF f, g
  <2>3. \A s \in Threads : f[s] \in Int /\ g[s] \in Int
    BY <1>1, <2>1 DEF PendingsAreNat
  <2> QED BY <1>2, <2>1, <2>2, <2>3, SumDiff, ThreadsAssumption
<1> QED BY <1>3, <1>4, <1>5

-----------------------------------------------------------------------------
(* How the parts of the invariant are kept.                                 *)
(* What a step may do to the flags.                                         *)
FlagKept(n) ==
  /\ flag[n] # {} /\ ~ Decided(n) => flag'[n] = flag[n]
  /\ "W" \in flag[n] => "W" \in flag'[n]
  /\ Marked(n) => Marked(n)'
  /\ "L" \in flag'[n] => Status[n] # "draw"
FlagsKept == \A n \in Nodes : FlagKept(n)

LEMMA SameFlags == ASSUME Noted, UNCHANGED flag PROVE FlagsKept
BY DEF Noted, FlagsKept, FlagKept, Marked

LEMMA SettlesKept ==
  ASSUME NEW n \in Nodes, FlagsKept, NEW r, Settles(n, r)
  PROVE  Settles(n, r)'
<1>1. FlagKept(n)
  BY DEF FlagsKept
<1>2. CASE Decided(n)
  BY <1>1, <1>2 DEF FlagKept, Settles, Decided
<1>3. CASE ~ Decided(n)
  <2>1. Status[n] # "draw"
    BY <1>3 DEF Decided
  <2>2. flag[n] # {} /\ flag'[n] = flag[n]
    BY <1>1, <1>3, <2>1 DEF FlagKept, Settles
  <2> QED BY <2>2 DEF Settles, Fixed
<1> QED BY <1>2, <1>3

LEMMA DownKept ==
  ASSUME head' = head, created \subseteq created', NEW p, Down(p)
  PROVE  Down(p)'
BY DEF Down

LEMMA PlacesKept ==
  ASSUME IInv, EInv, SInv, NEW t \in Threads, Others(t), head' = head, created \subseteq created',
         expanded \subseteq expanded', FlagsKept,
         \A s \in Threads \ {t} : result'[s] = result[s],
         Routed(t)',
         \A n \in created' \ {head} :
           Decided(n) /\ IsEvaled(n)' => (n \in created /\ IsEvaled(n)) \/ Marked(n)',
         pc'[t] = "flagged" => Decided(Current(t)') /\ Marked(Current(t))',
         pc'[t] \in {"flagged", "done"} => Settles(Current(t), result[t])'
  PROVE  Routes' /\ Noted' /\ Results'
<1>1. ASSUME NEW s \in Threads PROVE Routed(s)'
  <2>1. CASE s = t
    BY <2>1
  <2>2. CASE s # t
    <3>1. path'[s] = path[s] /\ discard'[s] = discard[s] /\ queue'[s] = queue[s]
      BY <2>2 DEF Others
    <3>2. Routed(s)
      BY DEF SInv, Routes
    <3> QED BY <3>1, <3>2, DownKept DEF Routed
  <2> QED BY <2>1, <2>2
<1>2. ASSUME NEW s \in Threads \ {t} PROVE pc'[s] = pc[s] /\ Current(s)' = Current(s) /\ Current(s) \in Nodes
  BY <1>2, OthersSame, CurrentInNodes DEF Others, IInv
<1>3. Noted'
  <2>1. \A n \in Nodes : "L" \in flag'[n] => Status[n] # "draw"
    BY DEF FlagsKept, FlagKept
  <2>2. \A n \in created' \ {head'} : Decided(n) /\ IsEvaled(n)' => Marked(n)'
    <3> SUFFICES ASSUME NEW n \in created' \ {head}, Decided(n), IsEvaled(n)' PROVE Marked(n)'
      OBVIOUS
    <3>1. CASE n \in created /\ IsEvaled(n)
      <4>1. n \in Nodes
        BY <3>1 DEF EInv, BatchTypes
      <4> QED BY <3>1, <4>1 DEF SInv, Noted, FlagsKept, FlagKept
    <3> QED BY <3>1
  <2>3. \A s \in Threads : pc'[s] = "flagged" => Decided(Current(s)') /\ Marked(Current(s))'
    <3> SUFFICES ASSUME NEW s \in Threads \ {t}, pc'[s] = "flagged" PROVE Decided(Current(s)') /\ Marked(Current(s))'
      OBVIOUS
    <3>1. Decided(Current(s)) /\ Marked(Current(s))
      BY <1>2 DEF SInv, Noted
    <3>2. \A n \in Nodes : Marked(n) => Marked(n)'
      BY DEF FlagsKept, FlagKept
    <3> QED BY <1>2, <3>1, <3>2
  <2> QED BY <2>1, <2>2, <2>3 DEF Noted
<1>4. Results'
  <2> SUFFICES ASSUME NEW s \in Threads \ {t}, pc'[s] \in {"flagged", "done"}
               PROVE  Settles(Current(s), result[s])'
    BY DEF Results
  <2>1. Settles(Current(s), result[s])
    BY <1>2 DEF SInv, Results
  <2>2. result'[s] = result[s]
    OBVIOUS
  <2>3. \A n \in Nodes : \A r : Settles(n, r) => Settles(n, r)'
    BY SettlesKept
  <2> QED BY <1>2, <2>1, <2>2, <2>3
<1> QED BY <1>1, <1>3, <1>4 DEF Routes

(* The books of an open node, with what a step adds to each entry.          *)
LEMMA OpenMoves ==
  ASSUME NEW n \in Nodes, OpenLedger(n), FlagKept(n), ~ Decided(n),
         emc[n] \in Int, ewin[n] \in Int, nwin[n] \in Int, Visits(n) \in Int,
         Evaluations(n) \in Int, AllPending(At(n)) \in Int, AllPending(Via(n)) \in Int,
         NEW dm \in Int, NEW dv \in Int, NEW de \in Int, NEW da \in Int, NEW dw \in Int, NEW dx \in Int,
         emc'[n] = emc[n] + dm, Visits(n)' = Visits(n) + dv, Evaluations(n)' = Evaluations(n) + de,
         AllPending(At(n))' = AllPending(At(n)) + da, AllPending(Via(n))' = AllPending(Via(n)) + dw,
         ewin'[n] + nwin'[n] = ewin[n] + nwin[n] + dx,
         LET ds == dm - dv - de - da IN
           /\ dx = de * (One - NN[n]) + One * (dv - dw) + ds * Fixed(n)'
           /\ flag'[n] = {} => ds = 0
  PROVE  OpenLedger(n)'
<1> DEFINE s == Stopped(n)
           e == Evaluations(n)
           w == Visits(n) - AllPending(Via(n))
           ds == dm - dv - de - da
<1>1. s \in Int /\ e \in Int /\ w \in Int /\ ds \in Int
  BY DEF Stopped
<1>2. Stopped(n)' = s + ds /\ Evaluations(n)' = e + de
      /\ Visits(n)' - AllPending(Via(n))' = w + (dv - dw)
  BY DEF Stopped
<1>3. /\ ewin[n] + nwin[n] = e * (One - NN[n]) + One * w + s * Fixed(n)
      /\ flag[n] = {} => s = 0
  BY DEF OpenLedger
<1>4. s * Fixed(n) = s * Fixed(n)'
  <2>1. Fixed(n) \in Int /\ Fixed(n)' \in Int
    BY DEF Fixed, One
  <2>2. CASE flag[n] = {}
    BY <1>3, <2>1, <2>2
  <2>3. CASE flag[n] # {}
    BY <2>3 DEF FlagKept, Fixed
  <2> QED BY <2>2, <2>3
<1>5. flag'[n] = {} => s + ds = 0
  <2>1. flag'[n] = {} => flag[n] = {}
    BY DEF FlagKept
  <2> QED BY <1>1, <1>3, <2>1
<1>6. PICK c \in {0, 1, 2} : c = Fixed(n)'
  BY DEF Fixed, One
<1>7. PICK d \in {0, 1, 2} : d = One - NN[n]
  <2>1. NN[n] \in 0 .. One
    BY TreeAssumption
  <2> QED BY <2>1 DEF One
<1>8. /\ ewin'[n] + nwin'[n] = (e * d + 2 * w + s * c) + dx
      /\ dx = de * d + 2 * (dv - dw) + ds * c
  BY <1>3, <1>4, <1>6, <1>7 DEF One
<1> HIDE DEF s, e, w, ds
<1>9. ewin'[n] + nwin'[n] = (e + de) * d + 2 * (w + (dv - dw)) + (s + ds) * c
  BY <1>1, <1>6, <1>7, <1>8
<1> QED BY <1>2, <1>5, <1>6, <1>7, <1>9 DEF OpenLedger, One

(* The books of a decided node.                                             *)
LEMMA DecidedMoves ==
  ASSUME NEW n \in Nodes, DecidedLedger(n), FlagKept(n), Decided(n),
         emc[n] \in Int, ewin[n] \in Int, AllPending(At(n)) \in Int,
         NEW dm \in Int, NEW da \in Int, NEW dx \in Int,
         emc'[n] = emc[n] + dm, AllPending(At(n))' = AllPending(At(n)) + da, ewin'[n] = ewin[n] + dx,
         IF Status[n] = "draw" THEN dx \in 0 .. dm - da /\ ("W" \notin flag'[n] => dx = dm - da)
         ELSE dx = (dm - da) * Value(Flag(n))
  PROVE  DecidedLedger(n)'
<1> DEFINE s == emc[n] - AllPending(At(n))
           ds == dm - da
<1>1. s \in Int /\ ds \in Int /\ emc'[n] - AllPending(At(n))' = s + ds
  OBVIOUS
<1>2. CASE Status[n] = "draw"
  <2>1. ewin[n] \in 0 .. s /\ ("W" \notin flag[n] => ewin[n] = s)
    BY <1>2 DEF DecidedLedger
  <2>2. dx \in 0 .. ds /\ ("W" \notin flag'[n] => dx = ds)
    BY <1>2
  <2>3. ewin'[n] \in 0 .. s + ds /\ ("W" \notin flag'[n] => ewin'[n] = s + ds)
    <3> HIDE DEF s, ds
    <3> QED BY <1>1, <2>1, <2>2 DEF FlagKept
  <2> QED BY <1>1, <1>2, <2>3 DEF DecidedLedger
<1>3. CASE Status[n] # "draw"
  <2>1. ewin[n] = s * Value(Flag(n)) /\ dx = ds * Value(Flag(n))
    BY <1>3 DEF DecidedLedger
  <2>2. PICK c \in {0, 1, 2} : c = Value(Flag(n))
    BY DEF Value, Flag, One
  <2>3. ewin'[n] = (s + ds) * c
    <3> HIDE DEF s, ds
    <3> QED BY <1>1, <2>1, <2>2
  <2>4. ewin'[n] = (emc'[n] - AllPending(At(n))') * Value(Flag(n))
    BY <1>1, <2>2, <2>3
  <2> QED BY <1>3, <2>4 DEF DecidedLedger
<1> QED BY <1>2, <1>3

(* A step that moves no result, and leaves the pending playouts as they     *)
(* are, leaves the books.                                                   *)
StatsSame(t) ==
  /\ UNCHANGED <<head, created, emc, ewin, nwin, pre>>
  /\ \A n \in Nodes : Visits(n)' = Visits(n)
  /\ \A X : << >> \notin X => Pending(t, X)' = Pending(t, X)
  /\ \A n \in created \ {head} : ~ Decided(n) => Asked(t, At(n))' = Asked(t, At(n))
  /\ count' + NotCounted(t)' = count + NotCounted(t)

LEMMA NotAtNone == \A n : << >> \notin At(n) /\ << >> \notin Via(n)
BY NoOrigins DEF At, Via

LEMMA StatsAreInt ==
  ASSUME BatchTypes, StatTypes, NEW n \in Nodes
  PROVE  /\ emc[n] \in Int /\ ewin[n] \in Int /\ nwin[n] \in Int /\ Visits(n) \in Int
         /\ Evaluations(n) \in Int /\ AllPending(At(n)) \in Int /\ AllPending(Via(n)) \in Int
<1>1. emc[n] \in Int /\ ewin[n] \in Int /\ nwin[n] \in Int /\ nmc[n] \in Int
  BY DEF BatchTypes, StatTypes
<1>2. AllPending(At(n)) \in Nat /\ AllPending(Via(n)) \in Nat /\ AllAsked(At(n)) \in Nat
  BY PendingForm DEF PendingsAreNat
<1> QED BY <1>1, <1>2 DEF Visits, Evaluations

LEMMA StatsKept ==
  ASSUME IInv, BatchTypes, BatchTypes', SInv, StatTypes', NEW t \in Threads, Others(t), StatsSame(t), FlagsKept
  PROVE  Tally' /\ HeadCount' /\ Ledger'
<1>1. Tally'
  BY DEF SInv, Tally, StatsSame, BatchTypes
<1>2. /\ AllNotCounted' = AllNotCounted + (NotCounted(t)' - NotCounted(t))
      /\ \A X : /\ AllPending(X)' = AllPending(X) + (Pending(t, X)' - Pending(t, X))
                /\ AllAsked(X)' = AllAsked(X) + (Asked(t, X)' - Asked(t, X))
  BY TotalsChange
<1>3. PendingsAreNat /\ PendingsAreNat'
  BY PendingForm, PendingFormNext
<1>4. HeadCount'
  <2>1. Visits(head) = pre + count + AllNotCounted
    BY DEF SInv, HeadCount, AllNotCounted
  <2>2. Visits(head)' = Visits(head) /\ pre' = pre /\ count' + NotCounted(t)' = count + NotCounted(t)
    BY DEF StatsSame, IInv, FlagTypes
  <2>3. pre \in Int /\ count \in Int /\ count' \in Int
    BY DEF SInv, StatTypes
  <2>4. AllNotCounted \in Nat /\ NotCounted(t) \in Nat /\ NotCounted(t)' \in Nat
    BY <1>3 DEF PendingsAreNat
  <2>5. Visits(head)' = pre' + count' + AllNotCounted'
    BY <1>2, <2>1, <2>2, <2>3, <2>4
  <2> QED BY <2>5 DEF HeadCount, AllNotCounted, StatsSame
<1>5. ASSUME NEW n \in created \ {head} PROVE Books(n)'
  <2>1. n \in Nodes /\ FlagKept(n) /\ Books(n)
    BY DEF BatchTypes, FlagsKept, SInv, Ledger
  <2>2. /\ emc[n] \in Int /\ ewin[n] \in Int /\ nwin[n] \in Int /\ Visits(n) \in Int
        /\ Evaluations(n) \in Int /\ AllPending(At(n)) \in Int /\ AllPending(Via(n)) \in Int
    BY <2>1, StatsAreInt DEF SInv
  <2>3. /\ AllPending(At(n))' = AllPending(At(n)) /\ AllPending(Via(n))' = AllPending(Via(n))
        /\ ~ Decided(n) => AllAsked(At(n))' = AllAsked(At(n))
    BY <1>2, <1>3, NotAtNone DEF StatsSame, PendingsAreNat
  <2>4. emc'[n] = emc[n] /\ ewin'[n] = ewin[n] /\ nwin'[n] = nwin[n] /\ Visits(n)' = Visits(n)
    BY <2>1 DEF StatsSame
  <2>5. CASE Decided(n)
    <3>1. emc'[n] = emc[n] + 0 /\ ewin'[n] = ewin[n] + 0 /\ AllPending(At(n))' = AllPending(At(n)) + 0
      BY <2>2, <2>3, <2>4
    <3>2. 0 \in 0 .. 0 - 0 /\ 0 = 0 - 0 /\ 0 = (0 - 0) * Value(Flag(n))
      BY DEF Value, One
    <3>3. DecidedLedger(n)'
      BY <2>1, <2>2, <2>5, <3>1, <3>2, DecidedMoves DEF Books
    <3> QED BY <2>5, <3>3 DEF Books, Decided
  <2>6. CASE ~ Decided(n)
    <3>1. Evaluations(n)' = Evaluations(n)
      BY <2>3, <2>6 DEF Evaluations
    <3>2. OpenLedger(n)
      BY <2>1, <2>6 DEF Books
    <3>3. OpenLedger(n)'
      <4>1. flag'[n] = {} => flag[n] = {}
        BY <2>1, <2>6 DEF FlagKept
      <4>2. Stopped(n)' = Stopped(n) /\ Stopped(n) \in Int
        BY <2>2, <2>3, <2>4, <3>1 DEF Stopped
      <4>3. Stopped(n) * Fixed(n) = Stopped(n) * Fixed(n)'
        <5>1. Fixed(n) \in Int /\ Fixed(n)' \in Int
          BY DEF Fixed, One
        <5>2. flag[n] # {} => Fixed(n)' = Fixed(n)
          BY <2>1, <2>6 DEF FlagKept, Fixed
        <5> QED BY <3>2, <4>2, <5>1, <5>2 DEF OpenLedger
      <4> QED BY <2>3, <2>4, <3>1, <3>2, <4>1, <4>2, <4>3 DEF OpenLedger
    <3> QED BY <2>6, <3>3 DEF Books, Decided
  <2> QED BY <2>5, <2>6
<1>6. Ledger'
  BY <1>5 DEF Ledger, StatsSame
<1> QED BY <1>1, <1>4, <1>6

LEMMA QuietStats ==
  ASSUME IInv, EInv, EInv', SInv, NEW t \in Threads, Others(t), StatsSame(t), FlagsKept,
         expanded \subseteq expanded', expanded' \subseteq created, count' \in Int, result' \in [Threads -> Int],
         \A s \in Threads \ {t} : result'[s] = result[s],
         Routed(t)',
         \A n \in created \ {head} : Decided(n) /\ IsEvaled(n)' => IsEvaled(n) \/ Marked(n)',
         \A n \in created \ {head} : ~ Decided(n) /\ IsEvaled(n)' => IsEvaled(n) \/ n \in expanded,
         pc'[t] = "flagged" => Decided(Current(t)') /\ Marked(Current(t))',
         pc'[t] \in {"flagged", "done"} => Settles(Current(t), result[t])'
  PROVE  SInv'
<1>1. head' = head /\ created' = created /\ emc' = emc /\ ewin' = ewin /\ nwin' = nwin /\ pre' = pre
  BY DEF StatsSame
<1>2. StatTypes'
  BY <1>1 DEF SInv, StatTypes, EInv, BatchTypes
<1>3. Tally' /\ HeadCount' /\ Ledger'
  BY <1>2, StatsKept DEF EInv
<1>4. Routes' /\ Noted' /\ Results'
  <2>1. created \subseteq created'
    BY <1>1
  <2>2. \A n \in created' \ {head} :
          Decided(n) /\ IsEvaled(n)' => (n \in created /\ IsEvaled(n)) \/ Marked(n)'
    BY <1>1
  <2> QED BY <1>1, <2>1, <2>2, PlacesKept
<1>5. Family'
  BY <1>1 DEF SInv, Family
<1> QED BY <1>2, <1>3, <1>4, <1>5 DEF SInv

LEMMA EvalRootStats ==
  ASSUME IInv, EInv, EInv', SInv, NEW t \in Threads, EvalRoot(t) PROVE SInv'
<1>1. /\ pc[t] = "root" /\ pc' = [pc EXCEPT ![t] = "select"] /\ pc \in [Threads -> Controls]
      /\ UNCHANGED <<head, created, expanded, flag, nwin, emc, ewin, count, pre, path, result, batch>>
      /\ nmc' = nmc \/ (nmc[head] = NotExpanded /\ nmc' = [nmc EXCEPT ![head] = 0])
      /\ path[t] = << >>
  BY DEF EvalRoot, IInv, FlagTypes, PathInv, IsEvaled
<1>2. Others(t) /\ pc'[t] = "select"
  BY <1>1 DEF Others, batch
<1>3. StatsSame(t)
  <2>1. \A n \in Nodes : Visits(n)' = Visits(n)
    BY <1>1 DEF Visits, EInv, BatchTypes, NotExpanded
  <2>2. \A X : Pending(t, X)' = Pending(t, X) /\ Asked(t, X)' = Asked(t, X)
    BY <1>1, <1>2 DEF Pending, Asked, batch
  <2>3. NotCounted(t)' = NotCounted(t)
    BY <1>1, <1>2 DEF NotCounted, batch
  <2> QED BY <1>1, <2>1, <2>2, <2>3 DEF StatsSame
<1>4. FlagsKept
  BY <1>1, SameFlags DEF SInv
<1>5. Routed(t)'
  BY <1>1, DownKept DEF SInv, Routes, Routed, batch
<1>6. \A n \in created \ {head} : IsEvaled(n)' => IsEvaled(n)
  BY <1>1 DEF IsEvaled, EInv, BatchTypes
<1> QED BY <1>1, <1>2, <1>3, <1>4, <1>5, <1>6, QuietStats DEF SInv, StatTypes, Family

(* The node a playout is at.                                                *)
LEMMA CurrentIs ==
  ASSUME IInv, SInv, NEW t \in Threads
  PROVE  /\ path[t] \in Seq(Nodes) /\ path[t] \in Playouts /\ Down(path[t]) /\ Current(t) \in Nodes
         /\ path[t] = << >> <=> Current(t) = head
         /\ path[t] # << >> => Current(t) = End(path[t]) /\ Current(t) \in created \ {head}
         /\ \A n : path[t] \in At(n) <=> path[t] # << >> /\ n = Current(t)
<1>1. path[t] \in Seq(Nodes) /\ Down(path[t]) /\ head \in Nodes
  BY DEF IInv, FlagTypes, SInv, Routes, Routed
<1>2. path[t] \in Playouts /\ Current(t) \in Nodes
  BY <1>1, CurrentInNodes DEF Playouts, IInv
<1>3. path[t] = << >> => Current(t) = head
  BY DEF Current
<1>4. ASSUME path[t] # << >>
      PROVE Current(t) = End(path[t]) /\ Current(t) \in created \ {head}
  <2>1. head \notin Range(path[t]) /\ Len(path[t]) \in DOMAIN path[t] /\ End(path[t]) \in created
    BY <1>1, <1>4, DownOnce
  <2>2. End(path[t]) # head
    BY <2>1 DEF End, Range
  <2> QED BY <1>4, <2>1, <2>2 DEF Current
<1>5. \A n : path[t] \in At(n) <=> path[t] # << >> /\ n = Current(t)
  BY <1>2, <1>4 DEF At
<1> QED BY <1>1, <1>2, <1>3, <1>4, <1>5

LEMMA HeldUnevaluated ==
  ASSUME EInv, NEW n \in created \ {head}, NEW t \in Threads, NEW j \in HeldAt(t, n)
  PROVE  nmc[n] = NotExpanded
<1>1. <<t, j>> \in Waiting(n)
  BY WaitingMembers
<1> QED BY <1>1 DEF EInv, EvaluatedOnce

(* Steps of the thread t that leave its batch alone.                        *)
LEMMA SameBatch ==
  ASSUME SInv, NEW t \in Threads, UNCHANGED <<head, created, path, batch>>, expanded \subseteq expanded'
  PROVE  Routed(t)'
<1>1. Routed(t)
  BY DEF SInv, Routes
<1>2. \A p : Down(p) => Down(p)'
  BY DownKept
<1>3. path' = path /\ queue' = queue /\ discard' = discard
  BY DEF batch
<1> QED BY <1>1, <1>2, <1>3 DEF Routed

LEMMA SamePending ==
  ASSUME NEW t \in Threads, UNCHANGED <<path, batch>>,
         pc[t] \in {"backup", "check"} <=> pc'[t] \in {"backup", "check"},
         pc[t] = "check" <=> pc'[t] = "check"
  PROVE  /\ NotCounted(t)' = NotCounted(t)
         /\ \A X : /\ Pending(t, X)' = Pending(t, X)
                   /\ (pc[t] = "leaf" /\ path[t] \in X <=> pc'[t] = "leaf" /\ path[t] \in X)
                        => Asked(t, X)' = Asked(t, X)
<1>1. path' = path /\ queue' = queue /\ discard' = discard
  BY DEF batch
<1>2. NotCounted(t)' = NotCounted(t)
  BY <1>1 DEF NotCounted
<1>3. \A X : Pending(t, X)' = Pending(t, X)
  BY <1>1 DEF Pending
<1>4. ASSUME NEW X, pc[t] = "leaf" /\ path[t] \in X <=> pc'[t] = "leaf" /\ path[t] \in X
      PROVE  Asked(t, X)' = Asked(t, X)
  <2>1. Bit(pc[t] = "leaf" /\ path[t] \in X)' = Bit(pc[t] = "leaf" /\ path[t] \in X)
    BY <1>1, <1>4 DEF Bit
  <2> QED BY <1>1, <2>1 DEF Asked
<1> QED BY <1>2, <1>3, <1>4

LEMMA FlagsGrow ==
  ASSUME Noted, FlagTypes, NEW c \in Nodes, NEW F \in SUBSET {"W", "L", "D"},
         flag' = [flag EXCEPT ![c] = @ \cup F],
         "L" \in F => Status[c] # "draw",
         ~ Decided(c) /\ flag[c] # {} => F \subseteq flag[c]
  PROVE  FlagsKept
<1>1. \A n \in Nodes : flag'[n] = IF n = c THEN flag[c] \cup F ELSE flag[n]
  BY DEF FlagTypes
<1>2. ASSUME NEW n \in Nodes PROVE FlagKept(n)
  <2>1. flag[n] \subseteq flag'[n] /\ ("L" \in flag'[n] => Status[n] # "draw")
    BY <1>1 DEF Noted
  <2>2. flag[n] # {} /\ ~ Decided(n) => flag'[n] = flag[n]
    BY <1>1
  <2>3. Marked(n) => Marked(n)'
    BY <2>1 DEF Marked
  <2> QED BY <2>1, <2>2, <2>3 DEF FlagKept
<1> QED BY <1>2 DEF FlagsKept

LEMMA LeafDecidedStats ==
  ASSUME IInv, IInv', EInv, EInv', SInv, NEW t \in Threads, LeafDecided(t) PROVE SInv'
<1>0. PICK n \in Nodes : n = Current(t)
  BY CurrentIs
<1>1. /\ pc[t] = "leaf" /\ Decided(n) /\ pc' = [pc EXCEPT ![t] = "flagged"]
      /\ flag' = [flag EXCEPT ![n] = @ \cup {Flag(n)}]
      /\ expanded' = IF Status[n] = "open" THEN expanded \cup {n} ELSE expanded
      /\ result' = [result EXCEPT ![t] = Value(Flag(n))]
      /\ UNCHANGED <<head, created, nmc, nwin, emc, ewin, count, pre, path, batch>>
      /\ pc \in [Threads -> Controls] /\ flag \in [Nodes -> SUBSET {"W", "L", "D"}]
      /\ path[t] # << >>
  BY <1>0 DEF LeafDecided, IInv, FlagTypes, PathInv, stats, control
<1>2. Others(t) /\ pc'[t] = "flagged"
  BY <1>1 DEF Others, batch
<1>3. n \in Nodes /\ n \in created \ {head} /\ \A m : path[t] \in At(m) <=> m = n
  BY <1>0, <1>1, CurrentIs
<1>4. StatsSame(t)
  <2>1. \A m \in Nodes : Visits(m)' = Visits(m)
    BY <1>1 DEF Visits
  <2>2. /\ NotCounted(t)' = NotCounted(t) /\ \A X : Pending(t, X)' = Pending(t, X)
        /\ \A m \in created \ {head} : ~ Decided(m) => Asked(t, At(m))' = Asked(t, At(m))
    BY <1>1, <1>2, <1>3, SamePending
  <2> QED BY <1>1, <2>1, <2>2 DEF StatsSame
<1>5. Flag(n) \in {"W", "L", "D"} /\ (Flag(n) = "L" => Status[n] # "draw")
  BY DEF Flag
<1>6. FlagsKept
  <2>1. Noted /\ FlagTypes /\ Decided(n)
    BY <1>1 DEF SInv, IInv
  <2> QED BY <1>1, <1>3, <1>5, <2>1, FlagsGrow
<1>7. Routed(t)'
  BY <1>1, SameBatch
<1>8. Current(t)' = n
  BY <1>0, <1>1 DEF Current
<1>9. Marked(n)'
  <2>1. Flag(n) \in flag'[n] /\ (Status[n] = "draw" => Flag(n) = "D")
    BY <1>1, <1>3 DEF Flag
  <2> QED BY <2>1 DEF Marked
<1>10. Settles(n, result[t])'
  <2>1. result'[t] = Value(Flag(n)) /\ (Status[n] = "draw" => result'[t] = 1)
    BY <1>1 DEF Flag, Value, SInv, StatTypes
  <2>2. Decided(n)
    BY <1>1
  <2> QED BY <2>1, <2>2 DEF Settles, Decided
<1>11. \A m \in created \ {head} : IsEvaled(m)' => IsEvaled(m)
  BY <1>1 DEF IsEvaled
<1>12. expanded \subseteq expanded' /\ expanded' \subseteq created /\ count' \in Int
       /\ result' \in [Threads -> Int] /\ \A s \in Threads \ {t} : result'[s] = result[s]
  BY <1>1, <1>3 DEF SInv, StatTypes, Family, Value, One
<1>13. Decided(Current(t)') /\ Marked(Current(t))' /\ Settles(Current(t), result[t])'
  BY <1>1, <1>8, <1>9, <1>10
<1> QED BY <1>2, <1>4, <1>6, <1>7, <1>11, <1>12, <1>13, QuietStats

LEMMA SetLeafEvaledStats ==
  ASSUME IInv, IInv', EInv, EInv', SInv, NEW t \in Threads, SetLeafEvaled(t) PROVE SInv'
<1>0. PICK n \in Nodes : n = Current(t)
  BY CurrentIs
<1>1. /\ pc[t] = "flagged" /\ pc' = [pc EXCEPT ![t] = "done"] /\ nmc' = [nmc EXCEPT ![n] = 0]
      /\ UNCHANGED <<head, created, expanded, flag, nwin, emc, ewin, count, pre, path, result, batch>>
      /\ pc \in [Threads -> Controls] /\ path[t] # << >>
  BY <1>0 DEF SetLeafEvaled, IInv, FlagTypes, PathInv, tree, control
<1>2. Others(t) /\ pc'[t] = "done"
  BY <1>1 DEF Others, batch
<1>3. n \in created \ {head} /\ \A m : path[t] \in At(m) <=> m = n
  BY <1>0, <1>1, CurrentIs
<1>4. nmc[n] = NotExpanded
  <2>1. 0 \in HeldAt(t, n)
    BY <1>0, <1>1 DEF HeldAt
  <2> QED BY <1>3, <2>1, HeldUnevaluated
<1>5. StatsSame(t)
  <2>1. \A m \in Nodes : Visits(m)' = Visits(m)
    BY <1>1, <1>4 DEF Visits, EInv, BatchTypes, NotExpanded
  <2>2. NotCounted(t)' = NotCounted(t) /\ \A X : Pending(t, X)' = Pending(t, X) /\ Asked(t, X)' = Asked(t, X)
    BY <1>1, <1>2, SamePending
  <2> QED BY <1>1, <2>1, <2>2 DEF StatsSame
<1>6. FlagsKept
  BY <1>1, SameFlags DEF SInv
<1>7. Routed(t)'
  BY <1>1, SameBatch
<1>8. Current(t)' = n
  BY <1>0, <1>1 DEF Current
<1>9. \A m \in created \ {head} : IsEvaled(m)' => IsEvaled(m) \/ m = n
  BY <1>1 DEF IsEvaled, EInv, BatchTypes
<1>10. Decided(n) /\ Marked(n)'
  BY <1>0, <1>1 DEF SInv, Noted, Marked
<1>11. Settles(Current(t), result[t])'
  BY <1>0, <1>1, <1>6, <1>8, SettlesKept DEF SInv, Results
<1> QED BY <1>1, <1>2, <1>5, <1>6, <1>7, <1>9, <1>10, <1>11, QuietStats DEF SInv, StatTypes, Family

LEMMA DescendStats ==
  ASSUME IInv, IInv', EInv, EInv', SInv, NEW t \in Threads, Descend(t) PROVE SInv'
<1>0. PICK n \in Nodes : n = Current(t)
  BY CurrentIs
<1> DEFINE found == Value(IF "W" \in flag[n] THEN "W" ELSE IF "L" \in flag[n] THEN "L"
                          ELSE IF "D" \in flag[n] THEN "D" ELSE "L")
<1>1. /\ pc[t] = "descend" /\ nmc[n] # NotExpanded
      /\ \/ /\ EndsPlayout(n) /\ result' = [result EXCEPT ![t] = found] /\ pc' = [pc EXCEPT ![t] = "done"]
         \/ pc' = [pc EXCEPT ![t] = "select"] /\ result' = result
      /\ UNCHANGED <<head, created, expanded, flag, nmc, nwin, emc, ewin, count, pre, path, batch>>
      /\ pc \in [Threads -> Controls] /\ path[t] # << >> /\ result \in [Threads -> Int]
  BY <1>0 DEF Descend, IInv, FlagTypes, PathInv, tree, stats, control, IsEvaled, SInv, StatTypes
<1>2. Others(t) /\ pc'[t] \in {"done", "select"}
  BY <1>1 DEF Others, batch
<1>3. n \in created \ {head} /\ Current(t)' = n
  BY <1>0, <1>1, CurrentIs DEF Current
<1>4. StatsSame(t)
  <2>1. \A m \in Nodes : Visits(m)' = Visits(m)
    BY <1>1 DEF Visits
  <2>2. NotCounted(t)' = NotCounted(t) /\ \A X : Pending(t, X)' = Pending(t, X) /\ Asked(t, X)' = Asked(t, X)
    BY <1>1, <1>2, SamePending
  <2> QED BY <1>1, <2>1, <2>2 DEF StatsSame
<1>5. FlagsKept
  BY <1>1, SameFlags DEF SInv
<1>6. Routed(t)'
  BY <1>1, SameBatch
<1>7. ASSUME pc'[t] = "done" PROVE Settles(Current(t), result[t])'
  <2>1. EndsPlayout(n) /\ result'[t] = found
    BY <1>1, <1>7
  <2>2. /\ flag[n] \in SUBSET {"W", "L", "D"}
        /\ "W" \in flag[n] => Outcome[n] = "win"
        /\ "L" \in flag[n] => Outcome[n] = "lose" /\ Status[n] # "draw"
        /\ "D" \in flag[n] => Status[n] = "draw"
    BY DEF IInv, FlagTypes, FlagsSound, SInv, Noted
  <2>3. CASE Decided(n)
    <3>1. Marked(n)
      BY <1>1, <1>3, <2>3 DEF SInv, Noted, IsEvaled
    <3>2. CASE Status[n] = "draw"
      <4>1. found \in 0 .. 1 /\ ("W" \notin flag[n] => found = 1)
        BY <2>2, <3>1, <3>2 DEF Marked, Value
      <4> QED BY <1>1, <1>3, <2>1, <3>2, <4>1 DEF Settles
    <3>3. CASE Status[n] # "draw"
      <4>1. found = Value(Flag(n))
        <5>1. Flag(n) \in flag[n] /\ Flag(n) \in {"W", "L"}
          BY <3>1, <3>3 DEF Marked, Flag
        <5>2. "W" \in flag[n] => "L" \notin flag[n]
          BY <2>2
        <5> QED BY <5>1, <5>2
      <4> QED BY <1>1, <1>3, <2>1, <2>3, <3>3, <4>1 DEF Settles, Decided
    <3> QED BY <3>2, <3>3
  <2>4. CASE ~ Decided(n)
    <3>1. n \in expanded
      BY <1>1, <1>3, <2>4 DEF SInv, Family, IsEvaled
    <3>2. flag[n] # {} /\ Status[n] # "draw"
      BY <2>1, <2>4, <3>1 DEF EndsPlayout, Decided
    <3>3. found = Fixed(n)
      BY <2>2, <3>2 DEF Fixed, Value
    <3> QED BY <1>1, <1>3, <2>1, <2>4, <3>2, <3>3 DEF Settles, Decided, Fixed
  <2> QED BY <2>3, <2>4
<1>8. \A m \in created \ {head} : IsEvaled(m)' => IsEvaled(m)
  BY <1>1 DEF IsEvaled
<1>9. result' \in [Threads -> Int] /\ \A s \in Threads \ {t} : result'[s] = result[s]
  <2>1. found \in Int
    BY DEF Value, One
  <2> QED BY <1>1, <2>1
<1> QED BY <1>1, <1>2, <1>4, <1>5, <1>6, <1>7, <1>8, <1>9, QuietStats DEF SInv, StatTypes, Family

LEMMA EvalNodeStats ==
  ASSUME IInv, IInv', EInv, EInv', SInv, NEW t \in Threads, EvalNode(t) PROVE SInv'
<1>0. /\ queue[t] \in Seq(Seq(Nodes)) /\ evaled[t] \in Nat /\ pc[t] = "eval" /\ evaled[t] < Len(queue[t])
  BY DEF EvalNode, EInv, BatchTypes
<1>1. evaled[t] + 1 \in DOMAIN queue[t] /\ evaled[t] + 1 \in evaled[t] + 1 .. Len(queue[t])
  BY <1>0
<1>2. PICK n \in created \ {head} : n = End(queue[t][evaled[t] + 1])
  BY <1>1 DEF EInv, Places, Waits
<1>3. /\ pc' = pc /\ nmc' = [nmc EXCEPT ![n] = 0]
      /\ UNCHANGED <<head, created, expanded, flag, nwin, emc, ewin, count, pre, path, result, queue, discard>>
      /\ evaled' = [evaled EXCEPT ![t] = @ + 1] /\ n \in Nodes
  BY <1>2 DEF EvalNode, control, EInv, BatchTypes
<1>4. Others(t)
  BY <1>3 DEF Others, EInv, BatchTypes
<1>5. nmc[n] = NotExpanded
  <2>1. evaled[t] + 1 \in HeldAt(t, n)
    BY <1>1, <1>2 DEF HeldAt
  <2> QED BY <2>1, HeldUnevaluated
<1>6. StatsSame(t)
  <2>1. \A m \in Nodes : Visits(m)' = Visits(m)
    BY <1>3, <1>5 DEF Visits, EInv, BatchTypes, NotExpanded
  <2>2. NotCounted(t)' = NotCounted(t) /\ \A X : Pending(t, X)' = Pending(t, X) /\ Asked(t, X)' = Asked(t, X)
    BY <1>3 DEF NotCounted, Pending, Asked
  <2> QED BY <1>3, <2>1, <2>2 DEF StatsSame
<1>7. FlagsKept
  BY <1>3, SameFlags DEF SInv
<1>8. Routed(t)'
  BY <1>3, DownKept DEF SInv, Routes, Routed
<1>9. ~ Decided(n) /\ n \in expanded
  BY <1>1, <1>2 DEF SInv, Routes, Routed
<1>10. \A m \in created \ {head} : IsEvaled(m)' => IsEvaled(m) \/ m = n
  BY <1>3 DEF IsEvaled, EInv, BatchTypes
<1> QED BY <1>0, <1>3, <1>4, <1>6, <1>7, <1>8, <1>9, <1>10, QuietStats DEF SInv, StatTypes, Family

LEMMA EvalDoneStats ==
  ASSUME IInv, IInv', EInv, EInv', SInv, NEW t \in Threads, EvalDone(t) PROVE SInv'
<1>1. /\ pc[t] = "eval" /\ pc' = [pc EXCEPT ![t] = "unvl"] /\ pc \in [Threads -> Controls]
      /\ UNCHANGED <<head, created, expanded, flag, nmc, nwin, emc, ewin, count, pre, path, result, batch>>
  BY DEF EvalDone, IInv, FlagTypes, tree, stats, control
<1>2. Others(t) /\ pc'[t] = "unvl"
  BY <1>1 DEF Others, batch
<1>3. StatsSame(t)
  <2>1. \A m \in Nodes : Visits(m)' = Visits(m)
    BY <1>1 DEF Visits
  <2>2. NotCounted(t)' = NotCounted(t) /\ \A X : Pending(t, X)' = Pending(t, X) /\ Asked(t, X)' = Asked(t, X)
    BY <1>1, <1>2, SamePending
  <2> QED BY <1>1, <2>1, <2>2 DEF StatsSame
<1>4. FlagsKept
  BY <1>1, SameFlags DEF SInv
<1>5. Routed(t)'
  BY <1>1, SameBatch
<1>6. \A m \in created \ {head} : IsEvaled(m)' => IsEvaled(m)
  BY <1>1 DEF IsEvaled
<1> QED BY <1>1, <1>2, <1>3, <1>4, <1>5, <1>6, QuietStats DEF SInv, StatTypes, Family

LEMMA CheckStats ==
  ASSUME IInv, IInv', EInv, EInv', SInv, NEW t \in Threads, Check(t) PROVE SInv'
<1>1. /\ pc[t] = "check" /\ pc' = [pc EXCEPT ![t] = pc'[t]] /\ pc'[t] \in {"idle", "select"}
      /\ queue' = [queue EXCEPT ![t] = << >>] /\ discard' = [discard EXCEPT ![t] = << >>]
      /\ evaled' = [evaled EXCEPT ![t] = 0]
      /\ UNCHANGED <<head, created, expanded, flag, nmc, nwin, emc, ewin, count, pre, path, result>>
      /\ pc \in [Threads -> Controls] /\ path[t] = << >>
  BY DEF Check, IInv, FlagTypes, PathInv, tree, stats
<1>2. Others(t) /\ queue'[t] = << >> /\ discard'[t] = << >>
  BY <1>1 DEF Others, EInv, BatchTypes
<1>3. StatsSame(t)
  <2>1. \A m \in Nodes : Visits(m)' = Visits(m)
    BY <1>1 DEF Visits
  <2>2. \A X : Count(<< >>, X) = 0
    BY CountIs
  <2>3. NotCounted(t)' = NotCounted(t)
    BY <1>1, <1>2 DEF NotCounted
  <2>4. \A X : Pending(t, X)' = Pending(t, X) /\ Asked(t, X)' = Asked(t, X)
    BY <1>1, <1>2, <2>2 DEF Pending, Asked, Bit
  <2> QED BY <1>1, <2>1, <2>3, <2>4 DEF StatsSame
<1>4. FlagsKept
  BY <1>1, SameFlags DEF SInv
<1>5. Routed(t)'
  BY <1>1, <1>2 DEF Routed, Down
<1>6. \A m \in created \ {head} : IsEvaled(m)' => IsEvaled(m)
  BY <1>1 DEF IsEvaled
<1> QED BY <1>1, <1>2, <1>3, <1>4, <1>5, <1>6, QuietStats DEF SInv, StatTypes, Family

(* The end of a playout whose result is not known yet: it is pending as     *)
(* before, in the discards or in the queue.                                 *)
LEMMA EndsPlayoutIn ==
  ASSUME IInv, BatchTypes, NEW t \in Threads, NextPlayout(t)
  PROVE  /\ pc'[t] \in {"eval", "select"} /\ path'[t] = << >>
         /\ \A s \in Threads \ {t} : pc'[s] = pc[s] /\ path'[s] = path[s]
         /\ path[t] \in Seq(Nodes) /\ queue[t] \in Seq(Seq(Nodes)) /\ discard[t] \in Seq(Seq(Nodes))
         /\ Down(<< >>)'
BY DEF NextPlayout, IInv, FlagTypes, BatchTypes, Down

LEMMA DiscardStats ==
  ASSUME IInv, IInv', EInv, EInv', SInv, NEW t \in Threads, Discard(t) PROVE SInv'
<1>1. /\ pc[t] = "descend" /\ NextPlayout(t) /\ path[t] # << >>
      /\ discard' = [discard EXCEPT ![t] = Append(discard[t], path[t])]
      /\ UNCHANGED <<head, created, expanded, flag, nmc, nwin, emc, ewin, count, pre, result, queue, evaled>>
  BY DEF Discard, IInv, PathInv, tree, stats, control
<1>2. /\ pc'[t] \in {"eval", "select"} /\ path'[t] = << >>
      /\ \A s \in Threads \ {t} : pc'[s] = pc[s] /\ path'[s] = path[s]
      /\ path[t] \in Seq(Nodes) /\ queue[t] \in Seq(Seq(Nodes)) /\ discard[t] \in Seq(Seq(Nodes))
      /\ Down(<< >>)'
  BY <1>1, EndsPlayoutIn DEF EInv
<1>3. Others(t) /\ discard'[t] = Append(discard[t], path[t])
  BY <1>1, <1>2 DEF Others, EInv, BatchTypes
<1>4. \A m \in Nodes : Visits(m)' = Visits(m)
  BY <1>1 DEF Visits
<1>5. NotCounted(t)' = NotCounted(t)
  <2>1. Len(discard'[t]) = Len(discard[t]) + 1 /\ Len(discard[t]) \in Nat
    BY <1>2, <1>3
  <2> QED BY <1>1, <1>2, <2>1 DEF NotCounted
<1>6. ASSUME NEW n PROVE Asked(t, At(n))' = Asked(t, At(n))
  BY <1>1, <1>2 DEF Asked, Bit
<1>7. ASSUME NEW X, << >> \notin X PROVE Pending(t, X)' = Pending(t, X)
  <2>1. Count(discard'[t], X) = Count(discard[t], X) + Bit(path[t] \in X)
    BY <1>2, <1>3, CountAppend
  <2>2. Bit(path[t] \in X) \in Nat /\ Bit(path'[t] \in X) = 0
    BY <1>2, <1>7 DEF Bit
  <2>3. Count(discard[t], X) \in Nat /\ Count(queue[t], X) \in Nat
    <3>1. /\ Len(queue[t]) \in Nat /\ DOMAIN queue[t] = 1 .. Len(queue[t])
          /\ Len(discard[t]) \in Nat /\ DOMAIN discard[t] = 1 .. Len(discard[t])
      BY <1>2
    <3> QED BY <3>1, CountIs
  <2> QED BY <1>1, <1>2, <2>1, <2>2, <2>3 DEF Pending
<1>8. StatsSame(t)
  BY <1>1, <1>4, <1>5, <1>6, <1>7 DEF StatsSame
<1>9. FlagsKept
  BY <1>1, SameFlags DEF SInv
<1>10. Routed(t)'
  <2>1. Routed(t)
    BY DEF SInv, Routes
  <2>2. \A p : Down(p) => Down(p)'
    BY <1>1, DownKept
  <2>3. \A j \in DOMAIN discard'[t] : discard'[t][j] = path[t] \/ (j \in DOMAIN discard[t] /\ discard'[t][j] = discard[t][j])
    BY <1>2, <1>3
  <2>4. \A j \in DOMAIN discard'[t] : Down(discard[t][j])' /\ discard'[t][j] # << >>
    <3> SUFFICES ASSUME NEW j \in DOMAIN discard'[t] PROVE Down(discard[t][j])' /\ discard'[t][j] # << >>
      OBVIOUS
    <3>1. PICK p : p = discard'[t][j]
      OBVIOUS
    <3>2. Down(p) /\ p # << >>
      BY <1>1, <2>1, <2>3, <3>1 DEF Routed
    <3> QED BY <2>2, <3>1, <3>2
  <2> QED BY <1>1, <1>2, <2>1, <2>2, <2>4 DEF Routed
<1>11. \A m \in created \ {head} : IsEvaled(m)' => IsEvaled(m)
  BY <1>1 DEF IsEvaled
<1> QED BY <1>1, <1>2, <1>3, <1>8, <1>9, <1>10, <1>11, QuietStats DEF SInv, StatTypes, Family

LEMMA LeafQueuedStats ==
  ASSUME IInv, IInv', EInv, EInv', SInv, NEW t \in Threads, LeafQueued(t) PROVE SInv'
<1>0. PICK n \in Nodes : n = Current(t)
  BY CurrentIs
<1>1. /\ pc[t] = "leaf" /\ NextPlayout(t) /\ path[t] # << >> /\ ~ Decided(n)
      /\ queue' = [queue EXCEPT ![t] = Append(queue[t], path[t])]
      /\ expanded' = expanded \cup {n} /\ count' = count + 1
      /\ UNCHANGED <<head, created, flag, nmc, nwin, emc, ewin, pre, result, discard, evaled>>
  BY <1>0 DEF LeafQueued, IInv, PathInv, stats, control
<1>2. /\ pc'[t] \in {"eval", "select"} /\ path'[t] = << >>
      /\ \A s \in Threads \ {t} : pc'[s] = pc[s] /\ path'[s] = path[s]
      /\ path[t] \in Seq(Nodes) /\ queue[t] \in Seq(Seq(Nodes)) /\ discard[t] \in Seq(Seq(Nodes))
      /\ Down(<< >>)'
  BY <1>1, EndsPlayoutIn DEF EInv
<1>3. Others(t) /\ queue'[t] = Append(queue[t], path[t])
  BY <1>1, <1>2 DEF Others, EInv, BatchTypes
<1>4. \A m \in Nodes : Visits(m)' = Visits(m)
  BY <1>1 DEF Visits
<1>5. count' + NotCounted(t)' = count + NotCounted(t)
  <2>1. PICK d \in Nat : d = Len(discard[t])
    <3>1. discard[t] \in Seq(Seq(Nodes))
      BY <1>2
    <3>2. Len(discard[t]) \in Nat
      BY <3>1
    <3> QED BY <3>2
  <2>2. NotCounted(t) = 1 + d
    BY <1>1, <2>1 DEF NotCounted
  <2>3. NotCounted(t)' = 0 + d
    BY <1>1, <1>2, <2>1 DEF NotCounted
  <2>4. count \in Int /\ count' = count + 1
    BY <1>1 DEF SInv, StatTypes
  <2> QED BY <2>2, <2>3, <2>4
<1>6. ASSUME NEW X, << >> \notin X PROVE Pending(t, X)' = Pending(t, X) /\ Asked(t, X)' = Asked(t, X)
  <2>1. Count(queue'[t], X) = Count(queue[t], X) + Bit(path[t] \in X)
    BY <1>2, <1>3, CountAppend
  <2>2. Bit(path[t] \in X) \in Nat /\ Bit(path'[t] \in X) = 0
    BY <1>2, <1>6 DEF Bit
  <2>3. Count(discard[t], X) \in Nat /\ Count(queue[t], X) \in Nat
    <3>1. /\ Len(queue[t]) \in Nat /\ DOMAIN queue[t] = 1 .. Len(queue[t])
          /\ Len(discard[t]) \in Nat /\ DOMAIN discard[t] = 1 .. Len(discard[t])
      BY <1>2
    <3> QED BY <3>1, CountIs
  <2>4. Bit(pc[t] = "leaf" /\ path[t] \in X) = Bit(path[t] \in X) /\ Bit(pc'[t] = "leaf" /\ path'[t] \in X) = 0
    BY <1>1, <1>2, <1>6 DEF Bit
  <2>5. Pending(t, X)' = Pending(t, X)
    BY <1>1, <1>2, <2>1, <2>2, <2>3 DEF Pending
  <2>6. Asked(t, X)' = Asked(t, X)
    BY <1>1, <1>2, <2>1, <2>2, <2>3, <2>4 DEF Asked
  <2> QED BY <2>5, <2>6
<1>7. StatsSame(t)
  BY <1>1, <1>4, <1>5, <1>6, NotAtNone DEF StatsSame
<1>8. FlagsKept
  BY <1>1, SameFlags DEF SInv
<1>9. n \in created /\ n = End(path[t])
  BY <1>0, <1>1, CurrentIs
<1>10. Routed(t)'
  <2>1. Routed(t)
    BY DEF SInv, Routes
  <2>2. \A p : Down(p) => Down(p)'
    BY <1>1, DownKept
  <2>3. \A j \in DOMAIN queue'[t] : queue'[t][j] = path[t] \/ (j \in DOMAIN queue[t] /\ queue'[t][j] = queue[t][j])
    BY <1>2, <1>3
  <2>4. ASSUME NEW j \in DOMAIN queue'[t]
        PROVE  /\ Down(queue[t][j])' /\ queue'[t][j] # << >>
               /\ ~ Decided(End(queue'[t][j])) /\ End(queue'[t][j]) \in expanded'
    <3>1. PICK p : p = queue'[t][j]
      OBVIOUS
    <3>2. Down(p) /\ p # << >> /\ ~ Decided(End(p)) /\ End(p) \in expanded'
      BY <1>1, <1>9, <2>1, <2>3, <3>1 DEF Routed
    <3> QED BY <2>2, <3>1, <3>2
  <2> QED BY <1>1, <1>2, <2>1, <2>2, <2>4 DEF Routed
<1>11. \A m \in created \ {head} : IsEvaled(m)' => IsEvaled(m)
  BY <1>1 DEF IsEvaled
<1>12. expanded \subseteq expanded' /\ expanded' \subseteq created /\ count' \in Int /\ result' \in [Threads -> Int]
  BY <1>1, <1>9 DEF SInv, StatTypes, Family
<1> QED BY <1>1, <1>2, <1>3, <1>7, <1>8, <1>10, <1>11, <1>12, QuietStats

(* Flags alone.                                                             *)
LEMMA PvMateStats ==
  ASSUME IInv, EInv, EInv', SInv, NEW n \in Nodes \ {Root}, PvMateFound(n) PROVE SInv'
<1>1. PICK t \in Threads : TRUE
  BY ThreadsAssumption
<1>2. /\ flag[n] \cap {"W", "L"} = {}
      /\ \E lost \in {{}, {"D"}} : flag' = [flag EXCEPT ![n] = (@ \ lost) \cup {"W"}]
      /\ UNCHANGED <<head, created, expanded, nmc, nwin, emc, ewin, count, pre, pc, path, result, queue, evaled, discard>>
  BY DEF PvMateFound, stats, control, batch
<1>3. Others(t)
  BY <1>2 DEF Others
<1>4. StatsSame(t)
  BY <1>2 DEF StatsSame, Visits, Pending, Asked, NotCounted
<1>5. FlagsKept
  <2>1. flag \in [Nodes -> SUBSET {"W", "L", "D"}] /\ \A m \in Nodes : "D" \in flag[m] => Status[m] = "draw"
    BY DEF IInv, FlagTypes, FlagsSound
  <2>2. \A m \in Nodes \ {n} : flag'[m] = flag[m]
    BY <1>2, <2>1
  <2>3. \A m \in Nodes \ {n} : FlagKept(m)
    BY <2>2 DEF FlagKept, SInv, Noted, Marked
  <2>4. flag[n] \in {{}, {"D"}} /\ "W" \in flag'[n] /\ "L" \notin flag'[n]
    BY <1>2, <2>1
  <2>5. FlagKept(n)
    <3>1. flag[n] # {} => Decided(n)
      BY <2>1, <2>4 DEF Decided
    <3>2. Marked(n) => Marked(n)'
      <4>1. CASE Status[n] = "draw"
        BY <2>4, <4>1 DEF Marked
      <4>2. CASE Status[n] # "draw"
        BY <2>4, <4>2 DEF Marked, Flag
      <4> QED BY <4>1, <4>2
    <3> QED BY <2>4, <3>1, <3>2 DEF FlagKept
  <2> QED BY <2>3, <2>5 DEF FlagsKept
<1>6. Routed(t)'
  BY <1>2, DownKept DEF SInv, Routes, Routed
<1>7. Current(t)' = Current(t) /\ Current(t) \in Nodes
  BY <1>2, CurrentIs DEF Current
<1>8. pc'[t] = "flagged" => Decided(Current(t)') /\ Marked(Current(t))'
  <2>1. pc[t] = "flagged" => Decided(Current(t)) /\ Marked(Current(t))
    BY DEF SInv, Noted
  <2>2. \A m \in Nodes : Marked(m) => Marked(m)'
    BY <1>5 DEF FlagsKept, FlagKept
  <2> QED BY <1>2, <1>7, <2>1, <2>2
<1>9. pc'[t] \in {"flagged", "done"} => Settles(Current(t), result[t])'
  <2>1. pc[t] \in {"flagged", "done"} => Settles(Current(t), result[t])
    BY DEF SInv, Results
  <2>2. \A m \in Nodes : \A r : Settles(m, r) => Settles(m, r)'
    BY <1>5, SettlesKept
  <2> QED BY <1>2, <1>7, <2>1, <2>2
<1>10. \A m \in created \ {head} : IsEvaled(m)' => IsEvaled(m)
  BY <1>2 DEF IsEvaled
<1> QED BY <1>2, <1>3, <1>4, <1>5, <1>6, <1>8, <1>9, <1>10, QuietStats DEF SInv, StatTypes, Family

(* The steps that change only what the threads are told.                    *)
LEMMA SignalStats ==
  ASSUME IInv, EInv, EInv', SInv,
         UNCHANGED <<head, created, expanded, flag, nmc, nwin, emc, ewin, count, pre, pc, path, result, queue, evaled,
                     discard>>
  PROVE  SInv'
<1>1. PICK t \in Threads : TRUE
  BY ThreadsAssumption
<1>2. Others(t)
  BY DEF Others
<1>3. StatsSame(t)
  BY DEF StatsSame, Visits, Pending, Asked, NotCounted
<1>4. FlagsKept
  BY SameFlags DEF SInv
<1>5. Routed(t)'
  BY DownKept DEF SInv, Routes, Routed
<1>6. Current(t)' = Current(t) /\ Current(t) \in Nodes
  BY CurrentIs DEF Current
<1>7. pc'[t] = "flagged" => Decided(Current(t)') /\ Marked(Current(t))'
  BY <1>6 DEF SInv, Noted, Marked
<1>8. pc'[t] \in {"flagged", "done"} => Settles(Current(t), result[t])'
  BY <1>4, <1>6, SettlesKept DEF SInv, Results
<1>9. \A m \in created \ {head} : IsEvaled(m)' => IsEvaled(m)
  BY DEF IsEvaled
<1> QED BY <1>2, <1>3, <1>4, <1>5, <1>7, <1>8, <1>9, QuietStats DEF SInv, StatTypes, Family

(* How a step of t that moves results keeps the books of one node.          *)
LEMMA OpenBooks ==
  ASSUME IInv, BatchTypes, BatchTypes', SInv, NEW t \in Threads, Others(t),
         NEW n \in created \ {head}, ~ Decided(n), FlagKept(n),
         NEW dm \in Int, NEW dv \in Int, NEW de \in Int, NEW da \in Int, NEW dw \in Int, NEW dx \in Int,
         emc'[n] = emc[n] + dm, Visits(n)' = Visits(n) + dv,
         Asked(t, At(n))' = Asked(t, At(n)) - de,
         Pending(t, At(n))' = Pending(t, At(n)) + da, Pending(t, Via(n))' = Pending(t, Via(n)) + dw,
         ewin'[n] + nwin'[n] = ewin[n] + nwin[n] + dx,
         LET ds == dm - dv - de - da IN
           /\ dx = de * (One - NN[n]) + One * (dv - dw) + ds * Fixed(n)'
           /\ flag'[n] = {} => ds = 0
  PROVE  Books(n)'
<1>1. n \in Nodes /\ OpenLedger(n)
  BY DEF BatchTypes, SInv, Ledger, Books
<1>2. /\ emc[n] \in Int /\ ewin[n] \in Int /\ nwin[n] \in Int /\ Visits(n) \in Int
      /\ Evaluations(n) \in Int /\ AllPending(At(n)) \in Int /\ AllPending(Via(n)) \in Int
  BY <1>1, StatsAreInt DEF SInv
<1>3. \A X : /\ AllPending(X)' = AllPending(X) + (Pending(t, X)' - Pending(t, X))
             /\ AllAsked(X)' = AllAsked(X) + (Asked(t, X)' - Asked(t, X))
             /\ Pending(t, X) \in Int /\ Asked(t, X) \in Int /\ AllAsked(X) \in Int /\ AllPending(X) \in Int
  BY TotalsChange, PendingForm DEF PendingsAreNat
<1>4. Evaluations(n)' = Evaluations(n) + de
  BY <1>3 DEF Evaluations
<1>5. AllPending(At(n))' = AllPending(At(n)) + da /\ AllPending(Via(n))' = AllPending(Via(n)) + dw
  BY <1>3
<1>6. OpenLedger(n)'
  BY <1>1, <1>2, <1>4, <1>5, OpenMoves
<1> QED BY <1>6 DEF Books, Decided

LEMMA DecidedBooks ==
  ASSUME IInv, BatchTypes, BatchTypes', SInv, NEW t \in Threads, Others(t),
         NEW n \in created \ {head}, Decided(n), FlagKept(n),
         NEW dm \in Int, NEW da \in Int, NEW dx \in Int,
         emc'[n] = emc[n] + dm, Pending(t, At(n))' = Pending(t, At(n)) + da, ewin'[n] = ewin[n] + dx,
         IF Status[n] = "draw" THEN dx \in 0 .. dm - da /\ ("W" \notin flag'[n] => dx = dm - da)
         ELSE dx = (dm - da) * Value(Flag(n))
  PROVE  Books(n)'
<1>1. n \in Nodes /\ DecidedLedger(n)
  BY DEF BatchTypes, SInv, Ledger, Books
<1>2. emc[n] \in Int /\ ewin[n] \in Int /\ AllPending(At(n)) \in Int
  BY <1>1, StatsAreInt DEF SInv
<1>3. \A X : /\ AllPending(X)' = AllPending(X) + (Pending(t, X)' - Pending(t, X))
             /\ Pending(t, X) \in Int /\ AllPending(X) \in Int
  BY TotalsChange, PendingForm DEF PendingsAreNat
<1>4. AllPending(At(n))' = AllPending(At(n)) + da
  BY <1>3
<1>5. DecidedLedger(n)'
  BY <1>1, <1>2, <1>4, DecidedMoves
<1> QED BY <1>5 DEF Books, Decided

(* The count of the head.                                                   *)
LEMMA HeadMoves ==
  ASSUME IInv, BatchTypes, BatchTypes', SInv, StatTypes', NEW t \in Threads, Others(t), UNCHANGED <<head, pre>>,
         NEW d \in Int, Visits(head)' = Visits(head) + d,
         count' + NotCounted(t)' = count + NotCounted(t) + d
  PROVE  HeadCount'
<1>1. AllNotCounted' = AllNotCounted + (NotCounted(t)' - NotCounted(t))
  BY TotalsChange
<1>2. Visits(head) = pre + count + AllNotCounted
  BY DEF SInv, HeadCount, AllNotCounted
<1>3. pre \in Int /\ count \in Int /\ count' \in Int
  BY DEF SInv, StatTypes
<1>4. AllNotCounted \in Nat /\ NotCounted(t) \in Nat /\ NotCounted(t)' \in Nat
  BY PendingForm, PendingFormNext DEF PendingsAreNat
<1>5. Visits(head)' = pre' + count' + AllNotCounted'
  BY <1>1, <1>2, <1>3, <1>4
<1> QED BY <1>5 DEF HeadCount, AllNotCounted

LEMMA UpdateResultsStats ==
  ASSUME IInv, IInv', EInv, EInv', SInv, NEW t \in Threads, UpdateResults(t) PROVE SInv'
<1>0. PICK p \in Seq(Nodes) : p = path[t]
  BY CurrentIs
<1>1. PICK m \in Nodes : m = Current(t)
  BY CurrentIs
<1>2. PICK r \in Int : r = result[t]
  BY DEF SInv, StatTypes
<1>3. /\ pc[t] = "done" /\ NextPlayout(t) /\ p # << >>
      /\ ewin' = [n \in Nodes |-> ewin[n] + MoveGain(n, p, r)]
      /\ nwin' = [n \in Nodes |-> nwin[n] + NodeGain(n, p, r)]
      /\ count' = count + 1
      /\ UNCHANGED <<head, created, expanded, flag, nmc, emc, pre, result, queue, evaled, discard>>
  BY <1>0, <1>2 DEF UpdateResults, IInv, PathInv, tree, control
<1>4. /\ pc'[t] \in {"eval", "select"} /\ path'[t] = << >>
      /\ \A s \in Threads \ {t} : pc'[s] = pc[s] /\ path'[s] = path[s]
      /\ queue[t] \in Seq(Seq(Nodes)) /\ discard[t] \in Seq(Seq(Nodes)) /\ Down(<< >>)'
  BY <1>3, EndsPlayoutIn DEF EInv
<1>5. Others(t)
  BY <1>3, <1>4 DEF Others
<1>6. /\ Down(p) /\ p \in Playouts /\ m \in created \ {head} /\ m = End(p) /\ head \in Nodes
      /\ \A n : p \in At(n) <=> n = m
  BY <1>0, <1>1, <1>3, CurrentIs DEF IInv, FlagTypes
<1>7. Settles(m, r)
  BY <1>1, <1>2, <1>3 DEF SInv, Results
<1>8. FlagsKept
  BY <1>3, SameFlags DEF SInv
<1>9. /\ \A n \in Nodes : MoveGain(n, p, r) \in Int /\ NodeGain(n, p, r) \in Int
      /\ \A n \in Nodes \ {head} :
           MoveGain(n, p, r) + NodeGain(n, p, r) = IF n \in Origins(p) THEN One ELSE IF n = m THEN r ELSE 0
      /\ \A n : n \notin Origins(p) => NodeGain(n, p, r) = 0
  BY <1>3, <1>6, GainsOf, GainsAt
<1>10. StatTypes'
  <2>1. \A n \in Nodes : ewin[n] + MoveGain(n, p, r) \in Int /\ nwin[n] + NodeGain(n, p, r) \in Int
    BY <1>9 DEF SInv, StatTypes
  <2>2. expanded \in SUBSET Nodes /\ emc \in [Nodes -> Int] /\ pre \in Int /\ result \in [Threads -> Int]
        /\ count + 1 \in Int
    BY DEF SInv, StatTypes
  <2> QED BY <1>3, <2>1, <2>2 DEF StatTypes
<1>11. Tally'
  <2> SUFFICES ASSUME NEW n \in created
               PROVE  Visits(n)' = SumFunctionOnSet(emc, KidSet(n)) /\ nwin'[n] = SumFunctionOnSet(ewin', KidSet(n))
    BY <1>3 DEF Tally
  <2>1. n \in Nodes /\ Visits(n) = SumFunctionOnSet(emc, KidSet(n)) /\ nwin[n] = SumFunctionOnSet(ewin, KidSet(n))
    BY DEF SInv, Tally, EInv, BatchTypes
  <2>2. Visits(n)' = Visits(n)
    BY <1>3 DEF Visits
  <2> DEFINE g == [k \in KidSet(n) |-> MoveGain(k, p, r)]
  <2>3. \A k \in KidSet(n) : g[k] = MoveGain(k, p, r)
    OBVIOUS
  <2> HIDE DEF g
  <2>4. SumFunctionOnSet(g, KidSet(n)) = NodeGain(n, p, r)
    BY <1>6, <2>1, <2>3, KidsGain
  <2>5. KidSet(n) \subseteq Nodes /\ IsFiniteSet(KidSet(n))
    BY <2>1, KidSetIs
  <2>6. Adds(KidSet(n), ewin, g, ewin')
    BY <1>3, <1>9, <2>3, <2>5 DEF Adds, SInv, StatTypes
  <2>7. SumFunctionOnSet(ewin', KidSet(n)) = SumFunctionOnSet(ewin, KidSet(n)) + SumFunctionOnSet(g, KidSet(n))
    BY <2>5, <2>6, SumPlus
  <2> QED BY <1>3, <2>1, <2>2, <2>4, <2>7
<1>12. HeadCount'
  <2>1. PICK d \in Nat : d = Len(discard[t])
    <3>1. discard[t] \in Seq(Seq(Nodes))
      BY <1>4
    <3>2. Len(discard[t]) \in Nat
      BY <3>1
    <3> QED BY <3>2
  <2>2. NotCounted(t) = 1 + d
    BY <1>0, <1>3, <2>1 DEF NotCounted
  <2>3. NotCounted(t)' = 0 + d
    BY <1>3, <1>4, <2>1 DEF NotCounted
  <2>4. count \in Int /\ count' = count + 1
    BY <1>3 DEF SInv, StatTypes
  <2>5. Visits(head)' = Visits(head) + 0
    <3>1. Visits(head)' = Visits(head) /\ Visits(head) \in Int
      BY <1>3, <1>6, StatsAreInt DEF Visits, SInv, EInv
    <3> QED BY <3>1
  <2>6. count' + NotCounted(t)' = count + NotCounted(t) + 0
    BY <2>2, <2>3, <2>4
  <2> QED BY <1>3, <1>5, <1>10, <2>5, <2>6, HeadMoves DEF EInv
<1>13. ASSUME NEW X, << >> \notin X
       PROVE  Pending(t, X)' = Pending(t, X) + (0 - Bit(p \in X)) /\ Asked(t, X)' = Asked(t, X) - 0
  <2>1. Bit(p \in X) \in Int /\ Bit(path'[t] \in X) = 0
    BY <1>4, <1>13 DEF Bit
  <2>2. Bit(pc[t] = "leaf" /\ path[t] \in X) = 0 /\ Bit(pc'[t] = "leaf" /\ path'[t] \in X) = 0
    BY <1>3, <1>4 DEF Bit
  <2>3. PICK c \in Nat, d \in Nat : c = Count(discard[t], X) /\ d = Count(queue[t], X)
    <3>1. /\ Len(queue[t]) \in Nat /\ DOMAIN queue[t] = 1 .. Len(queue[t])
          /\ Len(discard[t]) \in Nat /\ DOMAIN discard[t] = 1 .. Len(discard[t])
      BY <1>4
    <3> QED BY <3>1, CountIs
  <2>4. Pending(t, X) = Bit(p \in X) + c + d /\ Asked(t, X) = 0 + d
    BY <1>0, <1>3, <2>2, <2>3 DEF Pending, Asked
  <2>5. Pending(t, X)' = 0 + c + d /\ Asked(t, X)' = 0 + d
    BY <1>3, <1>4, <2>1, <2>2, <2>3 DEF Pending, Asked
  <2> QED BY <2>1, <2>3, <2>4, <2>5
<1>14. ASSUME NEW n \in created \ {head} PROVE Books(n)'
  <2>1. n \in Nodes \ {head} /\ FlagKept(n)
    BY <1>8 DEF EInv, BatchTypes, FlagsKept
  <2>2. /\ emc'[n] = emc[n] + 0 /\ Visits(n)' = Visits(n) + 0 /\ emc[n] \in Int
        /\ ewin'[n] = ewin[n] + MoveGain(n, p, r) /\ nwin'[n] = nwin[n] + NodeGain(n, p, r)
        /\ ewin[n] \in Int /\ nwin[n] \in Int
    <3>1. Visits(n)' = Visits(n) /\ Visits(n) \in Int /\ emc[n] \in Int /\ ewin[n] \in Int /\ nwin[n] \in Int
      BY <1>3, <2>1, StatsAreInt DEF Visits, SInv, EInv
    <3> QED BY <1>3, <2>1, <3>1
  <2>3. /\ Pending(t, At(n))' = Pending(t, At(n)) + (0 - Bit(n = m))
        /\ Pending(t, Via(n))' = Pending(t, Via(n)) + (0 - Bit(n \in Origins(p)))
        /\ Asked(t, At(n))' = Asked(t, At(n)) - 0
    <3>1. (p \in Via(n) <=> n \in Origins(p)) /\ (p \in At(n) <=> n = m)
      BY <1>6 DEF Via
    <3> QED BY <1>13, <3>1, NotAtNone DEF Bit
  <2>4. m \notin Origins(p) /\ (n \in Origins(p) => ~ Decided(n))
    BY <1>3, <1>6, <2>1, DownOnce
  <2>5. /\ MoveGain(n, p, r) \in Int /\ NodeGain(n, p, r) \in Int
        /\ MoveGain(n, p, r) + NodeGain(n, p, r) = IF n \in Origins(p) THEN One ELSE IF n = m THEN r ELSE 0
        /\ n \notin Origins(p) => NodeGain(n, p, r) = 0
    BY <1>9, <2>1
  <2>6. CASE Decided(n)
    <3> DEFINE dx == MoveGain(n, p, r)
               da == 0 - Bit(n = m)
    <3>1. dx = (IF n = m THEN r ELSE 0) /\ dx \in Int /\ da \in Int /\ da = IF n = m THEN 0 - 1 ELSE 0
      BY <2>4, <2>5, <2>6 DEF Bit
    <3>2. ewin'[n] = ewin[n] + dx /\ Pending(t, At(n))' = Pending(t, At(n)) + da
      BY <2>2, <2>3
    <3>3. Status[n] = "draw" => dx \in 0 .. 0 - da /\ ("W" \notin flag'[n] => dx = 0 - da)
      <4>1. n = m /\ Status[n] = "draw" => r \in 0 .. 1 /\ ("W" \notin flag'[n] => r = 1)
        BY <1>3, <1>7 DEF Settles
      <4> HIDE DEF dx, da
      <4> QED BY <3>1, <4>1
    <3>4. Status[n] # "draw" => dx = (0 - da) * Value(Flag(n))
      <4>1. n = m /\ Status[n] # "draw" => r = Value(Flag(n))
        BY <1>7, <2>6 DEF Settles
      <4>2. Value(Flag(n)) \in Int
        BY DEF Value, One
      <4> HIDE DEF dx, da
      <4> QED BY <3>1, <4>1, <4>2
    <3> HIDE DEF dx, da
    <3> QED BY <1>5, <2>1, <2>2, <2>6, <3>1, <3>2, <3>3, <3>4, DecidedBooks DEF EInv
  <2>7. CASE ~ Decided(n)
    <3> DEFINE dx == MoveGain(n, p, r) + NodeGain(n, p, r)
               da == 0 - Bit(n = m)
               dw == 0 - Bit(n \in Origins(p))
               ds == 0 - 0 - 0 - da
    <3>1. /\ dx = (IF n \in Origins(p) THEN One ELSE IF n = m THEN r ELSE 0) /\ dx \in Int
          /\ da \in Int /\ da = IF n = m THEN 0 - 1 ELSE 0
          /\ dw \in Int /\ dw = IF n \in Origins(p) THEN 0 - 1 ELSE 0
      BY <2>5 DEF Bit
    <3>2. /\ ewin'[n] + nwin'[n] = ewin[n] + nwin[n] + dx /\ Pending(t, At(n))' = Pending(t, At(n)) + da
          /\ Pending(t, Via(n))' = Pending(t, Via(n)) + dw
      BY <2>2, <2>3, <2>5
    <3>3. n = m => r = Fixed(n)' /\ flag'[n] # {}
      BY <1>3, <1>7, <2>7 DEF Settles, Fixed, Decided
    <3>4. Fixed(n)' \in Int /\ One \in Int /\ One - NN[n] \in Int
      <4>1. NN[n] \in 0 .. One
        BY <2>1, TreeAssumption
      <4> QED BY <4>1 DEF Fixed, One
    <3>5. /\ dx = 0 * (One - NN[n]) + One * (0 - dw) + ds * Fixed(n)'
          /\ flag'[n] = {} => ds = 0
      <4>1. dx = 0 + One * (0 - dw) + (0 - da) * Fixed(n)' /\ (flag'[n] = {} => da = 0)
        <5> HIDE DEF dx, da, dw
        <5> QED BY <2>4, <3>1, <3>3, <3>4
      <4>2. ds = 0 - da
        BY <3>1
      <4>3. 0 * (One - NN[n]) = 0 /\ One * (0 - dw) \in Int /\ (0 - da) * Fixed(n)' \in Int
        <5>1. \A x, y \in Int : 0 * x = 0 /\ y * (0 - x) \in Int /\ (0 - x) * y \in Int
          OBVIOUS
        <5> HIDE DEF dx, da, dw
        <5> QED BY <3>1, <3>4, <5>1
      <4>4. dx = 0 * (One - NN[n]) + One * (0 - dw) + (0 - da) * Fixed(n)'
        <5> HIDE DEF dx, da, dw
        <5> QED BY <4>1, <4>3
      <4>5. flag'[n] = {} => ds = 0
        BY <3>1, <4>1, <4>2
      <4> HIDE DEF dx, da, dw, ds
      <4> QED BY <4>2, <4>4, <4>5
    <3> HIDE DEF dx, da, dw
    <3> QED BY <1>5, <2>1, <2>2, <2>3, <2>7, <3>1, <3>2, <3>5, OpenBooks DEF EInv
  <2> QED BY <2>6, <2>7
<1>15. Ledger'
  BY <1>3, <1>14 DEF Ledger
<1>16. Routed(t)'
  BY <1>3, <1>4, DownKept DEF SInv, Routes, Routed
<1>17. Routes' /\ Noted' /\ Results'
  BY <1>3, <1>4, <1>5, <1>8, <1>16, PlacesKept DEF IsEvaled
<1>18. Family'
  <2>1. \A n \in Nodes \ created : n \notin Range(p) /\ n \notin Origins(p)
    <3>1. \A i \in DOMAIN p : p[i] \in created
      BY <1>6 DEF Down
    <3>2. head \in created
      BY DEF EInv, Places
    <3> QED BY <1>6, <3>1, <3>2, DownOnce DEF Range
  <2>2. \A n \in Nodes \ created : MoveGain(n, p, r) = 0 /\ NodeGain(n, p, r) = 0
    BY <1>6, <2>1, GainsAt
  <2>3. \A n \in Nodes \ created : emc'[n] = 0 /\ ewin'[n] = 0 /\ nwin'[n] = 0
    BY <1>3, <2>2 DEF SInv, Family
  <2> QED BY <1>3, <2>3 DEF SInv, Family, IsEvaled
<1> QED BY <1>10, <1>11, <1>12, <1>15, <1>17, <1>18 DEF SInv

LEMMA SubVirtualLossesStats ==
  ASSUME IInv, IInv', EInv, EInv', SInv, NEW t \in Threads, SubVirtualLosses(t) PROVE SInv'
<1>0. PICK s \in Seq(Seq(Nodes)) : s = discard[t]
  BY DEF EInv, BatchTypes
<1>1. /\ Len(s) \in Nat /\ DOMAIN s = 1 .. Len(s)
      /\ \A j \in DOMAIN s : s[j] \in Playouts /\ Down(s[j]) /\ s[j] # << >>
      /\ head \in Nodes
  BY <1>0 DEF Playouts, SInv, Routes, Routed, IInv, FlagTypes
<1>2. \A n : MoveDiscards(t, n) = Count(s, Through(n)) /\ NodeDiscards(t, n) = Count(s, Via(n))
  <2> SUFFICES ASSUME NEW n
               PROVE  MoveDiscards(t, n) = Count(s, Through(n)) /\ NodeDiscards(t, n) = Count(s, Via(n))
    OBVIOUS
  <2>1. \A j \in DOMAIN s : /\ s[j] \in Through(n) <=> n \in Range(s[j])
                            /\ s[j] \in Via(n) <=> n \in Origins(s[j])
    BY <1>1 DEF Through, Via
  <2>2. {j \in DOMAIN s : s[j] \in Through(n)} = {j \in DOMAIN s : n \in Range(s[j])}
    BY <2>1
  <2>3. {j \in DOMAIN s : s[j] \in Via(n)} = {j \in DOMAIN s : n \in Origins(s[j])}
    BY <2>1
  <2> QED BY <1>0, <2>2, <2>3 DEF MoveDiscards, NodeDiscards, Count
<1>3. /\ pc[t] = "unvl" /\ pc' = [pc EXCEPT ![t] = "backup"] /\ pc \in [Threads -> Controls] /\ path[t] = << >>
      /\ emc' = [n \in Nodes |-> emc[n] - Count(s, Through(n))]
      /\ nmc' = [n \in Nodes |-> nmc[n] - Count(s, Via(n))]
      /\ UNCHANGED <<head, created, expanded, flag, nwin, ewin, count, pre, path, result, batch>>
  BY <1>2 DEF SubVirtualLosses, IInv, FlagTypes, PathInv, tree, control
<1>4. Others(t) /\ pc'[t] = "backup"
  BY <1>3 DEF Others, batch
<1>5. \A X : Count(s, X) \in Nat
  BY <1>1, CountIs
<1>6. FlagsKept
  BY <1>3, SameFlags DEF SInv
<1>7. StatTypes'
  <2>1. \A n \in Nodes : emc[n] - Count(s, Through(n)) \in Int
    BY <1>5 DEF SInv, StatTypes
  <2> QED BY <1>3, <2>1 DEF SInv, StatTypes
<1>8. ASSUME NEW n \in Nodes PROVE Visits(n)' = Visits(n) - Count(s, Via(n)) /\ (IsEvaled(n)' <=> IsEvaled(n))
  <2>1. nmc[n] = NotExpanded <=> nmc'[n] = NotExpanded
    BY DiscardsReturned
  <2>2. PICK c \in Nat : c = Count(s, Via(n))
    BY <1>5
  <2>3. nmc'[n] = nmc[n] - c /\ nmc[n] \in Int
    BY <1>3, <2>2 DEF EInv, BatchTypes
  <2> QED BY <2>1, <2>2, <2>3 DEF Visits, IsEvaled, NotExpanded
<1>9. ASSUME NEW X
      PROVE  Pending(t, X)' = Pending(t, X) + (0 - Count(s, X)) /\ Asked(t, X)' = Asked(t, X) - 0
  <2>1. PICK c \in Nat, d \in Nat : c = Count(s, X) /\ d = Count(queue[t], X)
    <3>1. Len(queue[t]) \in Nat /\ DOMAIN queue[t] = 1 .. Len(queue[t])
      BY DEF EInv, BatchTypes
    <3> QED BY <1>5, <3>1, CountIs
  <2>2. PICK b \in Nat : b = Bit(path[t] \in X)
    BY DEF Bit
  <2>3. Pending(t, X) = b + c + d /\ Pending(t, X)' = b + 0 + d
    BY <1>0, <1>3, <1>4, <2>1, <2>2 DEF Pending, batch
  <2>4. Asked(t, X) = 0 + d /\ Asked(t, X)' = 0 + d
    BY <1>3, <1>4, <2>1 DEF Asked, batch, Bit
  <2> QED BY <2>1, <2>2, <2>3, <2>4
<1>10. Tally'
  <2> SUFFICES ASSUME NEW n \in created
               PROVE  Visits(n)' = SumFunctionOnSet(emc', KidSet(n)) /\ nwin'[n] = SumFunctionOnSet(ewin', KidSet(n))
    BY <1>3 DEF Tally
  <2>1. n \in Nodes /\ Visits(n) = SumFunctionOnSet(emc, KidSet(n)) /\ nwin[n] = SumFunctionOnSet(ewin, KidSet(n))
    BY DEF SInv, Tally, EInv, BatchTypes
  <2> DEFINE f == [k \in KidSet(n) |-> Count(s, Through(k))]
  <2>2. \A k \in KidSet(n) : f[k] = Count(s, Through(k))
    OBVIOUS
  <2> HIDE DEF f
  <2>3. SumFunctionOnSet(f, KidSet(n)) = Count(s, Via(n))
    BY <1>1, <2>1, <2>2, CountKids
  <2>4. KidSet(n) \subseteq Nodes /\ IsFiniteSet(KidSet(n))
    BY <2>1, KidSetIs
  <2>5. Adds(KidSet(n), emc', f, emc)
    <3> SUFFICES ASSUME NEW k \in KidSet(n) PROVE emc'[k] \in Int /\ f[k] \in Int /\ emc[k] = emc'[k] + f[k]
      BY DEF Adds
    <3>1. PICK c \in Nat : c = Count(s, Through(k))
      BY <1>5
    <3>2. emc[k] \in Int /\ emc'[k] = emc[k] - c
      BY <1>3, <2>4, <3>1 DEF SInv, StatTypes
    <3> QED BY <2>2, <3>1, <3>2
  <2>6. SumFunctionOnSet(emc, KidSet(n)) = SumFunctionOnSet(emc', KidSet(n)) + SumFunctionOnSet(f, KidSet(n))
    BY <2>4, <2>5, SumPlus
  <2>7. SumFunctionOnSet(emc', KidSet(n)) \in Int
    <3>1. \A k \in KidSet(n) : emc'[k] \in Int
      BY <2>5 DEF Adds
    <3> QED BY <2>4, <3>1, SumInt
  <2>8. Visits(n)' = SumFunctionOnSet(emc', KidSet(n))
    BY <1>5, <1>8, <2>1, <2>3, <2>6, <2>7
  <2> QED BY <1>3, <2>1, <2>8
<1>11. HeadCount'
  <2>1. Count(s, Via(head)) = Len(s)
    <3>1. \A j \in DOMAIN s : s[j] \in Via(head)
      BY <1>1, DownOnce DEF Via, Playouts
    <3> QED BY <1>1, <3>1, CountIs
  <2>2. PICK d \in Nat : d = Len(s)
    BY <1>1
  <2>3. Visits(head)' = Visits(head) + (0 - d)
    <3>1. Visits(head) \in Int
      BY <1>1, StatsAreInt DEF SInv, EInv
    <3>2. Visits(head)' = Visits(head) - d
      BY <1>1, <1>3, <1>8, <2>1, <2>2
    <3> QED BY <3>1, <3>2
  <2>4. NotCounted(t) = 0 + d /\ NotCounted(t)' = 0 + 0
    BY <1>0, <1>3, <1>4, <2>2 DEF NotCounted
  <2>5. count' + NotCounted(t)' = count + NotCounted(t) + (0 - d)
    <3>1. count \in Int /\ count' = count
      BY <1>3 DEF SInv, StatTypes
    <3> QED BY <2>4, <3>1
  <2> QED BY <1>3, <1>4, <1>7, <2>2, <2>3, <2>5, HeadMoves DEF EInv
<1>12. ASSUME NEW n \in created \ {head} PROVE Books(n)'
  <2>1. n \in Nodes \ {head} /\ FlagKept(n)
    BY <1>6 DEF EInv, BatchTypes, FlagsKept
  <2>2. PICK v \in Nat, a \in Nat : v = Count(s, Via(n)) /\ a = Count(s, At(n))
    BY <1>5
  <2>3. Count(s, Through(n)) = v + a /\ (Decided(n) => v = 0)
    BY <1>1, <2>1, <2>2, CountThrough
  <2>4. /\ emc[n] \in Int /\ ewin[n] \in Int /\ nwin[n] \in Int /\ Visits(n) \in Int
    BY <2>1, StatsAreInt DEF SInv, EInv
  <2>5. PICK dm \in Int, dv \in Int, da \in Int : dm = 0 - (v + a) /\ dv = 0 - v /\ da = 0 - a
    OBVIOUS
  <2>6. emc'[n] = emc[n] + dm
    <3>1. emc'[n] = emc[n] - (v + a)
      BY <1>3, <2>1, <2>3
    <3> QED BY <2>4, <2>5, <3>1
  <2>7. Visits(n)' = Visits(n) + dv
    <3>1. Visits(n)' = Visits(n) - v
      BY <1>8, <2>1, <2>2
    <3> QED BY <2>4, <2>5, <3>1
  <2>8. ewin'[n] = ewin[n] + 0 /\ ewin'[n] + nwin'[n] = ewin[n] + nwin[n] + 0
    BY <1>3, <2>4
  <2>9. /\ Pending(t, At(n))' = Pending(t, At(n)) + da /\ Pending(t, Via(n))' = Pending(t, Via(n)) + dv
        /\ Asked(t, At(n))' = Asked(t, At(n)) - 0
    BY <1>9, <2>2, <2>5
  <2>10. CASE Decided(n)
    <3>1. dm - da = 0 /\ 0 \in 0 .. 0 /\ 0 = 0 * Value(Flag(n))
      <4>1. Value(Flag(n)) \in Int
        BY DEF Value, One
      <4> QED BY <2>3, <2>5, <2>10, <4>1
    <3> QED BY <1>4, <2>1, <2>6, <2>8, <2>9, <2>10, <3>1, DecidedBooks DEF EInv
  <2>11. CASE ~ Decided(n)
    <3>1. Fixed(n)' \in Int /\ One \in Int /\ One - NN[n] \in Int
      <4>1. NN[n] \in 0 .. One
        BY <2>1, TreeAssumption
      <4> QED BY <4>1 DEF Fixed, One
    <3>2. dm - dv - 0 - da = 0 /\ dv - dv = 0
      BY <2>5
    <3>3. 0 = 0 * (One - NN[n]) + One * (dv - dv) + (dm - dv - 0 - da) * Fixed(n)'
      BY <3>1, <3>2
    <3>4. PICK z \in Int : z = 0
      OBVIOUS
    <3>5. /\ Asked(t, At(n))' = Asked(t, At(n)) - z /\ ewin'[n] + nwin'[n] = ewin[n] + nwin[n] + z
          /\ LET ds == dm - dv - z - da IN
               /\ z = z * (One - NN[n]) + One * (dv - dv) + ds * Fixed(n)'
               /\ flag'[n] = {} => ds = 0
      BY <2>8, <2>9, <3>2, <3>3, <3>4
    <3>6. /\ Pending(t, At(n))' = Pending(t, At(n)) + da
          /\ Pending(t, Via(n))' = Pending(t, Via(n)) + dv
      BY <2>9
    <3> QED BY <1>4, <2>1, <2>6, <2>7, <2>11, <3>5, <3>6, OpenBooks DEF EInv
  <2> QED BY <2>10, <2>11
<1>13. Ledger'
  BY <1>3, <1>12 DEF Ledger
<1>14. Routed(t)'
  BY <1>3, SameBatch
<1>15. Routes' /\ Noted' /\ Results'
  <2>1. \A n \in created \ {head} : IsEvaled(n)' => IsEvaled(n)
    BY <1>8 DEF EInv, BatchTypes
  <2> QED BY <1>3, <1>4, <1>6, <1>14, <2>1, PlacesKept
<1>16. Family'
  <2>1. \A n \in Nodes \ created : Count(s, Through(n)) = 0
    <3> SUFFICES ASSUME NEW n \in Nodes \ created PROVE Count(s, Through(n)) = 0
      OBVIOUS
    <3>1. \A j \in DOMAIN s : s[j] \notin Through(n)
      BY <1>1 DEF Through, Range, Down
    <3> QED BY <1>1, <3>1, CountIs
  <2>2. \A n \in Nodes \ created : emc'[n] = 0 /\ ewin'[n] = 0 /\ nwin'[n] = 0
    BY <1>3, <2>1 DEF SInv, Family
  <2>3. \A n \in created \ {head} : IsEvaled(n)' => IsEvaled(n)
    BY <1>8 DEF EInv, BatchTypes
  <2> QED BY <1>3, <2>2, <2>3 DEF SInv, Family
<1> QED BY <1>7, <1>10, <1>11, <1>13, <1>15, <1>16 DEF SInv

LEMMA BackupStats ==
  ASSUME IInv, IInv', EInv, EInv', SInv, NEW t \in Threads, Backup(t) PROVE SInv'
<1>0. PICK s \in Seq(Seq(Nodes)) : s = queue[t]
  BY DEF EInv, BatchTypes
<1>1. /\ Len(s) \in Nat /\ DOMAIN s = 1 .. Len(s) /\ Batched(t) /\ BatchTypes
      /\ \A j \in DOMAIN s : s[j] \in Playouts /\ Down(s[j]) /\ s[j] # << >> /\ ~ Decided(End(s[j]))
      /\ head \in Nodes /\ head \in created
  BY <1>0 DEF Playouts, SInv, Routes, Routed, Batched, IInv, FlagTypes, EInv, Places
<1>2. /\ pc[t] = "backup" /\ pc' = [pc EXCEPT ![t] = "check"] /\ pc \in [Threads -> Controls] /\ path[t] = << >>
      /\ ewin' = [n \in Nodes |-> ewin[n] + MoveGains(t, n)]
      /\ nwin' = [n \in Nodes |-> nwin[n] + NodeGains(t, n)]
      /\ UNCHANGED <<head, created, expanded, flag, nmc, emc, count, pre, path, result, batch>>
  BY DEF Backup, IInv, FlagTypes, PathInv, tree, control
<1>3. Others(t) /\ pc'[t] = "check"
  BY <1>2 DEF Others, batch
<1>4. \A X : Count(s, X) \in Nat
  BY <1>1, CountIs
<1>5. FlagsKept
  BY <1>2, SameFlags DEF SInv
<1>6. ASSUME NEW n \in Nodes
      PROVE  /\ MoveGains(t, n) \in Int /\ NodeGains(t, n) \in Int
             /\ (\A j \in DOMAIN s : n \notin Range(s[j])) => MoveGains(t, n) = 0
             /\ (\A j \in DOMAIN s : n \notin Origins(s[j])) => NodeGains(t, n) = 0
  BY <1>0, <1>1, GainsAreInt
<1>7. StatTypes'
  <2>1. \A n \in Nodes : ewin[n] + MoveGains(t, n) \in Int /\ nwin[n] + NodeGains(t, n) \in Int
    BY <1>6 DEF SInv, StatTypes
  <2>2. expanded \in SUBSET Nodes /\ emc \in [Nodes -> Int] /\ pre \in Int /\ result \in [Threads -> Int]
        /\ count \in Int
    BY DEF SInv, StatTypes
  <2> QED BY <1>2, <2>1, <2>2 DEF StatTypes
<1>8. ASSUME NEW n \in Nodes PROVE Visits(n)' = Visits(n) + 0 /\ Visits(n)' = Visits(n)
  <2>1. Visits(n) \in Int /\ Visits(n)' = Visits(n)
    BY <1>2, StatsAreInt DEF Visits, SInv, EInv
  <2> QED BY <2>1
<1>9. ASSUME NEW X
      PROVE  /\ Pending(t, X)' = Pending(t, X) + (0 - Count(s, X))
             /\ Asked(t, X)' = Asked(t, X) - Count(s, X)
  <2>1. PICK d \in Nat : d = Count(s, X)
    BY <1>4
  <2>2. PICK b \in Nat : b = Bit(path[t] \in X)
    BY DEF Bit
  <2>3. Pending(t, X) = b + 0 + d /\ Pending(t, X)' = b + 0 + 0
    BY <1>0, <1>2, <1>3, <2>1, <2>2 DEF Pending, batch
  <2>4. Asked(t, X) = 0 + d /\ Asked(t, X)' = 0 + 0
    BY <1>0, <1>2, <1>3, <2>1 DEF Asked, batch, Bit
  <2> QED BY <2>1, <2>2, <2>3, <2>4
<1>10. Tally'
  <2> SUFFICES ASSUME NEW n \in created
               PROVE  Visits(n)' = SumFunctionOnSet(emc, KidSet(n)) /\ nwin'[n] = SumFunctionOnSet(ewin', KidSet(n))
    BY <1>2 DEF Tally
  <2>1. n \in Nodes /\ Visits(n) = SumFunctionOnSet(emc, KidSet(n)) /\ nwin[n] = SumFunctionOnSet(ewin, KidSet(n))
    BY DEF SInv, Tally, EInv, BatchTypes
  <2> DEFINE f == [k \in KidSet(n) |-> MoveGains(t, k)]
  <2>2. \A k \in KidSet(n) : f[k] = MoveGains(t, k)
    OBVIOUS
  <2> HIDE DEF f
  <2>3. SumFunctionOnSet(f, KidSet(n)) = NodeGains(t, n)
    BY <1>1, <2>1, <2>2, BatchKids
  <2>4. KidSet(n) \subseteq Nodes /\ IsFiniteSet(KidSet(n))
    BY <2>1, KidSetIs
  <2>5. Adds(KidSet(n), ewin, f, ewin')
    BY <1>2, <1>6, <2>2, <2>4 DEF Adds, SInv, StatTypes
  <2>6. SumFunctionOnSet(ewin', KidSet(n)) = SumFunctionOnSet(ewin, KidSet(n)) + SumFunctionOnSet(f, KidSet(n))
    BY <2>4, <2>5, SumPlus
  <2> QED BY <1>2, <1>8, <2>1, <2>3, <2>6
<1>11. HeadCount'
  <2>1. NotCounted(t)' = NotCounted(t)
    BY <1>2, <1>3 DEF NotCounted
  <2>2. count' + NotCounted(t)' = count + NotCounted(t) + 0
    <3>1. NotCounted(t) \in Nat /\ count \in Int /\ count' = count
      BY <1>1, <1>2, PendingForm DEF SInv, StatTypes, PendingsAreNat
    <3> QED BY <2>1, <3>1
  <2> QED BY <1>1, <1>2, <1>3, <1>7, <1>8, <2>2, HeadMoves DEF EInv
<1>12. ASSUME NEW n \in created \ {head} PROVE Books(n)'
  <2>1. n \in Nodes \ {head} /\ FlagKept(n)
    BY <1>5 DEF EInv, BatchTypes, FlagsKept
  <2>2. PICK v \in Nat, a \in Nat : v = Count(s, Via(n)) /\ a = Count(s, At(n))
    BY <1>4
  <2>3. MoveGains(t, n) + NodeGains(t, n) = One * v + (One - NN[n]) * a
    BY <1>0, <1>1, <2>1, <2>2, BatchGains
  <2>4. /\ emc[n] \in Int /\ ewin[n] \in Int /\ nwin[n] \in Int
    BY <2>1, StatsAreInt DEF SInv, EInv
  <2>5. PICK dv \in Int, da \in Int : dv = 0 - v /\ da = 0 - a
    OBVIOUS
  <2>6. PICK g \in Int, h \in Int : g = MoveGains(t, n) /\ h = NodeGains(t, n)
    BY <1>6, <2>1
  <2>7. emc'[n] = emc[n] + 0 /\ Visits(n)' = Visits(n) + 0 /\ ewin'[n] = ewin[n] + g
        /\ ewin'[n] + nwin'[n] = ewin[n] + nwin[n] + (g + h)
    BY <1>2, <1>8, <2>1, <2>4, <2>6
  <2>8. /\ Pending(t, At(n))' = Pending(t, At(n)) + da /\ Pending(t, Via(n))' = Pending(t, Via(n)) + dv
        /\ Asked(t, At(n))' = Asked(t, At(n)) - a
    BY <1>9, <2>2, <2>5
  <2>9. CASE Decided(n)
    <3>1. \A j \in DOMAIN s : n \notin Range(s[j]) /\ s[j] \notin At(n)
      <4> SUFFICES ASSUME NEW j \in DOMAIN s PROVE n \notin Range(s[j]) /\ s[j] \notin At(n)
        OBVIOUS
      <4>1. n \notin Origins(s[j]) /\ n # End(s[j])
        BY <1>1, <2>1, <2>9, DownOnce DEF Playouts
      <4> QED BY <1>1, <2>1, <4>1, DownOnce DEF Playouts, At
    <3>2. g = 0 /\ a = 0
      BY <1>1, <1>6, <2>1, <2>2, <2>6, <3>1, CountIs
    <3>3. 0 - da = 0 /\ 0 \in 0 .. 0 /\ 0 = 0 * Value(Flag(n))
      <4>1. Value(Flag(n)) \in Int
        BY DEF Value, One
      <4> QED BY <2>5, <3>2, <4>1
    <3> QED BY <1>1, <1>3, <2>1, <2>7, <2>8, <2>9, <3>2, <3>3, DecidedBooks DEF EInv
  <2>10. CASE ~ Decided(n)
    <3>1. Fixed(n)' \in Int /\ One \in Int /\ One - NN[n] \in Int
      <4>1. NN[n] \in 0 .. One
        BY <2>1, TreeAssumption
      <4> QED BY <4>1 DEF Fixed, One
    <3>2. 0 - 0 - a - da = 0 /\ 0 - dv = v
      BY <2>5
    <3>3. PICK dx \in Int : dx = g + h
      BY <2>6
    <3>4. dx = a * (One - NN[n]) + One * (0 - dv) + (0 - 0 - a - da) * Fixed(n)'
      <4>1. PICK c \in Int, x \in Int : c = One - NN[n] /\ x = Fixed(n)'
        BY <3>1
      <4>2. dx = One * v + c * a
        BY <2>3, <2>6, <3>3, <4>1
      <4>3. c * a = a * c /\ 0 * x = 0
        BY <4>1
      <4>4. dx = a * c + One * (0 - dv) + 0 * x
        BY <3>1, <3>2, <4>2, <4>3
      <4> QED BY <3>2, <4>1, <4>4
    <3>5. ewin'[n] + nwin'[n] = ewin[n] + nwin[n] + dx
      BY <2>7, <3>3
    <3>6. PICK z \in Int, de \in Int : z = 0 /\ de = a
      OBVIOUS
    <3>7. emc'[n] = emc[n] + z /\ Visits(n)' = Visits(n) + z /\ Asked(t, At(n))' = Asked(t, At(n)) - de
      BY <2>7, <2>8, <3>6
    <3>8. /\ dx = de * (One - NN[n]) + One * (z - dv) + (z - z - de - da) * Fixed(n)'
          /\ flag'[n] = {} => z - z - de - da = 0
      BY <3>2, <3>4, <3>6
    <3>9. Pending(t, At(n))' = Pending(t, At(n)) + da /\ Pending(t, Via(n))' = Pending(t, Via(n)) + dv
      BY <2>8
    <3>10. BatchTypes /\ BatchTypes'
      BY DEF EInv
    <3> QED BY <1>3, <2>1, <2>10, <3>5, <3>7, <3>8, <3>9, <3>10, OpenBooks
  <2> QED BY <2>9, <2>10
<1>13. Ledger'
  BY <1>2, <1>12 DEF Ledger
<1>14. Routed(t)'
  BY <1>2, SameBatch
<1>15. Routes' /\ Noted' /\ Results'
  BY <1>2, <1>3, <1>5, <1>14, PlacesKept DEF IsEvaled
<1>16. Family'
  <2>1. \A n \in Nodes \ created : \A j \in DOMAIN s : n \notin Range(s[j]) /\ n \notin Origins(s[j])
    <3> SUFFICES ASSUME NEW n \in Nodes \ created, NEW j \in DOMAIN s
                 PROVE  n \notin Range(s[j]) /\ n \notin Origins(s[j])
      OBVIOUS
    <3>1. n \notin Range(s[j])
      BY <1>1 DEF Down, Range
    <3> QED BY <1>1, <3>1, DownOnce DEF Playouts
  <2>2. \A n \in Nodes \ created : MoveGains(t, n) = 0 /\ NodeGains(t, n) = 0
    BY <1>6, <2>1
  <2>3. \A n \in Nodes \ created : emc'[n] = 0 /\ ewin'[n] = 0 /\ nwin'[n] = 0
    BY <1>2, <2>2 DEF SInv, Family
  <2> QED BY <1>2, <2>3 DEF SInv, Family, IsEvaled
<1> QED BY <1>7, <1>10, <1>11, <1>13, <1>15, <1>16 DEF SInv

(* Nothing is pending at a node that does not exist.                        *)
LEMMA NothingPending ==
  ASSUME IInv, BatchTypes, SInv, head \in created, NEW n \in Nodes \ created
  PROVE  AllPending(At(n)) = 0 /\ AllPending(Via(n)) = 0 /\ AllAsked(At(n)) = 0
<1>1. ASSUME NEW p \in Seq(Nodes), Down(p) PROVE p \notin At(n) /\ p \notin Via(n)
  <2>1. head \in Nodes
    BY DEF IInv, FlagTypes
  <2>2. p # << >> => End(p) \in created
    BY <1>1, <2>1, DownOnce
  <2>3. \A m \in Origins(p) : m \in created
    BY <1>1, <2>1, DownOnce
  <2> QED BY <2>2, <2>3 DEF At, Via
<1>2. ASSUME NEW t \in Threads
      PROVE  Pending(t, At(n)) = 0 /\ Pending(t, Via(n)) = 0 /\ Asked(t, At(n)) = 0
  <2>1. path[t] \notin At(n) /\ path[t] \notin Via(n)
    BY <1>1 DEF SInv, Routes, Routed, IInv, FlagTypes
  <2>2. queue[t] \in Seq(Seq(Nodes)) /\ discard[t] \in Seq(Seq(Nodes))
    BY DEF BatchTypes
  <2>3. /\ Len(queue[t]) \in Nat /\ DOMAIN queue[t] = 1 .. Len(queue[t])
        /\ Len(discard[t]) \in Nat /\ DOMAIN discard[t] = 1 .. Len(discard[t])
    BY <2>2
  <2>4. /\ \A j \in DOMAIN queue[t] : queue[t][j] \notin At(n) /\ queue[t][j] \notin Via(n)
        /\ \A j \in DOMAIN discard[t] : discard[t][j] \notin At(n) /\ discard[t][j] \notin Via(n)
    BY <1>1, <2>2 DEF SInv, Routes, Routed
  <2>5. /\ Count(queue[t], At(n)) = 0 /\ Count(queue[t], Via(n)) = 0
        /\ Count(discard[t], At(n)) = 0 /\ Count(discard[t], Via(n)) = 0
    BY <2>3, <2>4, CountIs
  <2> QED BY <2>1, <2>5 DEF Pending, Asked, Bit
<1>3. ASSUME NEW f, DOMAIN f = Threads, \A t \in Threads : f[t] = 0 PROVE SumFunction(f) = 0
  <2>1. SumFunctionOnSet(f, Threads) = 0
    BY <1>3, SumZero, ThreadsAssumption
  <2> QED BY <1>3, <2>1 DEF SumFunction
<1>4. AllPending(At(n)) = 0
  <2> DEFINE f == [t \in Threads |-> Pending(t, At(n))]
  <2>1. DOMAIN f = Threads /\ \A t \in Threads : f[t] = 0
    BY <1>2
  <2>2. AllPending(At(n)) = SumFunction(f)
    BY DEF AllPending
  <2> HIDE DEF f
  <2> QED BY <1>3, <2>1, <2>2
<1>5. AllPending(Via(n)) = 0
  <2> DEFINE f == [t \in Threads |-> Pending(t, Via(n))]
  <2>1. DOMAIN f = Threads /\ \A t \in Threads : f[t] = 0
    BY <1>2
  <2>2. AllPending(Via(n)) = SumFunction(f)
    BY DEF AllPending
  <2> HIDE DEF f
  <2> QED BY <1>3, <2>1, <2>2
<1>6. AllAsked(At(n)) = 0
  <2> DEFINE f == [t \in Threads |-> Asked(t, At(n))]
  <2>1. DOMAIN f = Threads /\ \A t \in Threads : f[t] = 0
    BY <1>2
  <2>2. AllAsked(At(n)) = SumFunction(f)
    BY DEF AllAsked
  <2> HIDE DEF f
  <2> QED BY <1>3, <2>1, <2>2
<1> QED BY <1>4, <1>5, <1>6

(* A playout goes one move further.                                         *)
LEMMA DownFurther ==
  ASSUME NEW p \in Seq(Nodes), Down(p), head \in Nodes, NEW c \in Nodes, NEW k \in KidSet(c),
         c = (IF p = << >> THEN head ELSE End(p)), p # << >> => ~ Decided(c),
         head' = head, created \subseteq created', k \in created'
  PROVE  LET q == Append(p, k) IN
         /\ q \in Seq(Nodes) /\ Down(q)' /\ q # << >> /\ End(q) = k
         /\ Origins(q) = Origins(p) \cup {c} /\ c \notin Origins(p)
<1> DEFINE q == Append(p, k)
<1>1. k \in Nodes /\ Len(p) \in Nat /\ DOMAIN p = 1 .. Len(p)
  BY KidSetIs
<1>2. /\ q \in Seq(Nodes) /\ Len(q) = Len(p) + 1 /\ DOMAIN q = 1 .. Len(p) + 1
      /\ \A i \in DOMAIN p : q[i] = p[i]
      /\ q[Len(p) + 1] = k
  BY <1>1
<1>3. q # << >> /\ End(q) = k
  BY <1>1, <1>2 DEF End
<1>4. Down(q)'
  <2> HIDE DEF q
  <2> SUFFICES ASSUME NEW i \in 1 .. Len(p) + 1
               PROVE  /\ q[i] \in created' /\ q[i] \in KidSet(IF i = 1 THEN head ELSE q[i - 1])
                      /\ i < Len(q) => ~ Decided(q[i])
    BY <1>2 DEF Down
  <2>1. CASE i \in DOMAIN p
    <3>1. /\ p[i] \in created /\ p[i] \in KidSet(IF i = 1 THEN head ELSE p[i - 1])
          /\ i < Len(p) => ~ Decided(p[i])
      BY <2>1 DEF Down
    <3>2. i # 1 => i - 1 \in DOMAIN p
      BY <1>1, <2>1
    <3>3. i = Len(p) => p # << >> /\ p[i] = c
      BY <1>1, <2>1 DEF End
    <3>4. ~ Decided(p[i])
      BY <1>1, <2>1, <3>1, <3>3
    <3> QED BY <1>2, <2>1, <3>1, <3>2, <3>4
  <2>2. CASE i = Len(p) + 1
    <3>1. (IF i = 1 THEN head ELSE q[i - 1]) = c
      <4>1. CASE p = << >>
        BY <1>1, <2>2, <4>1
      <4>2. CASE p # << >>
        <5>1. i # 1 /\ i - 1 = Len(p) /\ Len(p) \in DOMAIN p
          BY <1>1, <2>2, <4>2
        <5> QED BY <1>2, <4>2, <5>1 DEF End
      <4> QED BY <4>1, <4>2
    <3> QED BY <1>1, <1>2, <2>2, <3>1
  <2> QED BY <1>1, <2>1, <2>2
<1>5. Origins(q) = Origins(p) \cup {c}
  <2>1. PICK i \in DOMAIN Kids[c] : k = Kids[c][i]
    BY DEF KidSet, Range
  <2> QED BY <2>1, NewOrigin
<1>6. c \notin Origins(p)
  BY DownOnce, NoOrigins
<1> QED BY <1>2, <1>3, <1>4, <1>5, <1>6

(* What Select does, with c the node it is at and k the move it takes.      *)
Selects(t, c, k, p) ==
  /\ c \in Nodes /\ c = Current(t) /\ k \in KidSet(c) /\ p \in Seq(Nodes) /\ p = path[t]
  /\ pc[t] = "select" /\ HasChildren(c) /\ nmc[c] # NotExpanded /\ c \in created
  /\ c # head => Status[c] = "open" /\ ~ Decided(c)
  /\ nmc' = [nmc EXCEPT ![c] = nmc[c] + 1] /\ emc' = [emc EXCEPT ![k] = emc[k] + 1]
  /\ path' = [path EXCEPT ![t] = Append(p, k)]
  /\ created' = created \cup {k}
  /\ pc' = [pc EXCEPT ![t] = IF k \in created THEN "descend" ELSE "leaf"]
  /\ flag' = (IF c = head THEN flag ELSE [flag EXCEPT ![c] = @ \cup Proved(c)])
  /\ UNCHANGED <<head, expanded, nwin, ewin, count, pre, result, queue, evaled, discard>>

LEMMA SelectIs ==
  ASSUME IInv, EInv, SInv, NEW t \in Threads, Select(t)
  PROVE  \E c, k, p : Selects(t, c, k, p)
<1>0. PICK c \in Nodes : c = Current(t)
  BY CurrentIs
<1>1. /\ pc[t] = "select" /\ HasChildren(c) /\ nmc[c] # NotExpanded
  BY <1>0 DEF Select, IInv, PathInv, EInv, Entered, IsEvaled
<1>2. PICK i \in DOMAIN Kids[c] :
        /\ AddVirtualLoss(c, Kids[c][i])
        /\ path' = [path EXCEPT ![t] = Append(@, Kids[c][i])]
        /\ created' = created \cup {Kids[c][i]}
        /\ pc' = [pc EXCEPT ![t] = IF Kids[c][i] \in created THEN "descend" ELSE "leaf"]
  <2>1. 1 \in DOMAIN Kids[c]
    BY <1>1, TreeAssumption DEF HasChildren
  <2>2. Candidates(c) \subseteq DOMAIN Kids[c]
    BY <2>1 DEF Candidates, Wins, Loses
  <2> QED BY <1>0, <2>2 DEF Select
<1>3. PICK k \in KidSet(c) : k = Kids[c][i]
  BY DEF KidSet, Range
<1>4. PICK p \in Seq(Nodes) : p = path[t]
  BY CurrentIs
<1>5. c \in created /\ (c # head => Status[c] = "open" /\ ~ Decided(c))
  BY <1>1 DEF HasChildren, Decided, IInv, OpenInv, SInv, Family
<1>6. /\ nmc' = [nmc EXCEPT ![c] = nmc[c] + 1] /\ emc' = [emc EXCEPT ![k] = emc[k] + 1]
      /\ path' = [path EXCEPT ![t] = Append(p, k)] /\ created' = created \cup {k}
      /\ pc' = [pc EXCEPT ![t] = IF k \in created THEN "descend" ELSE "leaf"]
  BY <1>2, <1>3, <1>4 DEF AddVirtualLoss
<1>7. /\ flag' = (IF c = head THEN flag ELSE [flag EXCEPT ![c] = @ \cup Proved(c)])
      /\ UNCHANGED <<head, expanded, nwin, ewin, count, pre, result, queue, evaled, discard>>
  BY <1>0 DEF Select, control, batch
<1> QED BY <1>0, <1>1, <1>3, <1>4, <1>5, <1>6, <1>7 DEF Selects

(* Its place in the tree.                                                   *)
LEMMA SelectPlace ==
  ASSUME IInv, IInv', EInv, EInv', SInv, NEW t \in Threads, NEW c, NEW k, NEW p, Selects(t, c, k, p)
  PROVE  LET q == Append(p, k) IN
         /\ c \in Nodes /\ k \in Nodes /\ head \in Nodes /\ head \in created /\ k # head /\ k # c
         /\ Ply[k] >= Ply[head] /\ Parent(k) = c
         /\ Others(t) /\ path'[t] = q /\ pc'[t] = IF k \in created THEN "descend" ELSE "leaf"
         /\ q \in Playouts /\ p \in Playouts /\ q # << >> /\ End(q) = k /\ Down(q)'
         /\ Origins(q) = Origins(p) \cup {c} /\ c \notin Origins(p)
         /\ p = << >> <=> c = head
         /\ p # << >> => End(p) = c
<1>1. c \in Nodes /\ k \in KidSet(c) /\ p \in Seq(Nodes) /\ p = path[t] /\ c = Current(t) /\ c \in created
  BY DEF Selects
<1>2. /\ Down(p) /\ (p = << >> <=> c = head) /\ (p # << >> => End(p) = c)
  BY <1>1, CurrentIs
<1>3. head \in Nodes /\ head \in created
  BY DEF IInv, FlagTypes, EInv, Places
<1>4. k \in Nodes /\ Parent(k) = c /\ Ply[k] = Ply[c] + 1 /\ Ply[c] >= Ply[head] /\ Ply[c] \in Nat /\ Ply[head] \in Nat
  BY <1>1, <1>3, KidSetIs, ParentIs, PlyAssumption DEF SInv, Family
<1>5. k # head /\ k # c /\ Ply[k] >= Ply[head]
  BY <1>4
<1>6. c = (IF p = << >> THEN head ELSE End(p)) /\ (p # << >> => ~ Decided(c))
  BY <1>2 DEF Selects
<1>7. head' = head /\ created \subseteq created' /\ k \in created'
  BY DEF Selects
<1>8. LET q == Append(p, k) IN
      /\ q \in Seq(Nodes) /\ Down(q)' /\ q # << >> /\ End(q) = k
      /\ Origins(q) = Origins(p) \cup {c} /\ c \notin Origins(p)
  BY <1>1, <1>2, <1>3, <1>6, <1>7, DownFurther
<1>9. Others(t) /\ path'[t] = Append(p, k) /\ pc'[t] = IF k \in created THEN "descend" ELSE "leaf"
  BY DEF Selects, Others, IInv, FlagTypes
<1> QED BY <1>1, <1>2, <1>3, <1>4, <1>5, <1>8, <1>9 DEF Playouts

LEMMA SelectPending ==
  ASSUME IInv, IInv', EInv, EInv', SInv, NEW t \in Threads, NEW c, NEW k, NEW p, Selects(t, c, k, p)
  PROVE  /\ \A n \in Nodes :
              /\ Pending(t, At(n))' = Pending(t, At(n)) + (Bit(n = k) - Bit(n = c /\ c # head))
              /\ Pending(t, Via(n))' = Pending(t, Via(n)) + Bit(n = c)
              /\ Asked(t, At(n))' = Asked(t, At(n)) + Bit(n = k /\ k \notin created)
         /\ NotCounted(t)' = NotCounted(t) + Bit(c = head)
<1> DEFINE q == Append(p, k)
<1>1. /\ path'[t] = q /\ pc'[t] = (IF k \in created THEN "descend" ELSE "leaf")
      /\ q \in Playouts /\ p \in Playouts /\ q # << >> /\ End(q) = k
      /\ Origins(q) = Origins(p) \cup {c} /\ c \notin Origins(p)
      /\ (p = << >> <=> c = head) /\ (p # << >> => End(p) = c)
  BY SelectPlace
<1>2. pc[t] = "select" /\ path[t] = p /\ queue' = queue /\ discard' = discard
  BY DEF Selects
<1> HIDE DEF q
<1>3. ASSUME NEW n \in Nodes
      PROVE  /\ q \in At(n) <=> n = k
             /\ p \in At(n) <=> (n = c /\ c # head)
             /\ q \in Via(n) <=> (p \in Via(n) \/ n = c)
             /\ ~ (p \in Via(n) /\ n = c)
  BY <1>1 DEF At, Via
<1>4. ASSUME NEW X
      PROVE  \E x \in Nat : /\ Pending(t, X) = Bit(p \in X) + x /\ Pending(t, X)' = Bit(q \in X) + x
  <2>1. PICK x \in Nat, y \in Nat : x = Count(discard[t], X) /\ y = Count(queue[t], X)
    <3>1. /\ Len(queue[t]) \in Nat /\ DOMAIN queue[t] = 1 .. Len(queue[t])
          /\ Len(discard[t]) \in Nat /\ DOMAIN discard[t] = 1 .. Len(discard[t])
      BY DEF EInv, BatchTypes
    <3> QED BY <3>1, CountIs
  <2>2. PICK a \in Nat, b \in Nat : a = Bit(p \in X) /\ b = Bit(q \in X)
    BY DEF Bit
  <2>3. Pending(t, X) = a + x + y /\ Pending(t, X)' = b + x + y
    BY <1>1, <1>2, <2>1, <2>2 DEF Pending
  <2>4. a + x + y = a + (x + y) /\ b + x + y = b + (x + y) /\ x + y \in Nat
    OBVIOUS
  <2> QED BY <2>2, <2>3, <2>4
<1>5. ASSUME NEW n \in Nodes
      PROVE  Pending(t, At(n))' = Pending(t, At(n)) + (Bit(n = k) - Bit(n = c /\ c # head))
  <2>1. PICK x \in Nat : Pending(t, At(n)) = Bit(p \in At(n)) + x /\ Pending(t, At(n))' = Bit(q \in At(n)) + x
    BY <1>4
  <2>2. Bit(p \in At(n)) = Bit(n = c /\ c # head) /\ Bit(q \in At(n)) = Bit(n = k)
    BY <1>3 DEF Bit
  <2>3. Bit(n = c /\ c # head) \in Int /\ Bit(n = k) \in Int
    BY DEF Bit
  <2> QED BY <2>1, <2>2, <2>3
<1>6. ASSUME NEW n \in Nodes
      PROVE  Pending(t, Via(n))' = Pending(t, Via(n)) + Bit(n = c)
  <2>1. PICK x \in Nat : Pending(t, Via(n)) = Bit(p \in Via(n)) + x /\ Pending(t, Via(n))' = Bit(q \in Via(n)) + x
    BY <1>4
  <2>2. Bit(q \in Via(n)) = Bit(p \in Via(n)) + Bit(n = c)
    BY <1>3 DEF Bit
  <2>3. Bit(p \in Via(n)) \in Int /\ Bit(n = c) \in Int
    BY DEF Bit
  <2> QED BY <2>1, <2>2, <2>3
<1>7. ASSUME NEW n \in Nodes
      PROVE  Asked(t, At(n))' = Asked(t, At(n)) + Bit(n = k /\ k \notin created)
  <2>1. PICK y \in Nat : y = Count(queue[t], At(n))
    <3>1. Len(queue[t]) \in Nat /\ DOMAIN queue[t] = 1 .. Len(queue[t])
      BY DEF EInv, BatchTypes
    <3> QED BY <3>1, CountIs
  <2>2. PICK b \in Nat : b = Bit(n = k /\ k \notin created)
    BY DEF Bit
  <2>3. Bit(pc'[t] = "leaf" /\ path'[t] \in At(n)) = b /\ Bit(pc[t] = "leaf" /\ path[t] \in At(n)) = 0
    BY <1>1, <1>2, <1>3, <2>2 DEF Bit
  <2>4. Asked(t, At(n)) = 0 + y /\ Asked(t, At(n))' = b + y
    BY <1>1, <1>2, <2>1, <2>3 DEF Asked
  <2> QED BY <2>2, <2>4
<1>8. NotCounted(t)' = NotCounted(t) + Bit(c = head)
  <2>1. PICK d \in Nat : d = Len(discard[t])
    BY DEF EInv, BatchTypes
  <2>2. NotCounted(t) = (IF p = << >> THEN 0 ELSE 1) + d
    BY <1>2, <2>1 DEF NotCounted
  <2>3. NotCounted(t)' = 1 + d
    BY <1>1, <1>2, <2>1 DEF NotCounted
  <2> QED BY <1>1, <2>2, <2>3 DEF Bit
<1> QED BY <1>5, <1>6, <1>7, <1>8

LEMMA SelectStats ==
  ASSUME IInv, IInv', EInv, EInv', SInv, NEW t \in Threads, Select(t) PROVE SInv'
<1>0. PICK c, k, p : Selects(t, c, k, p)
  BY SelectIs
<1>1. /\ c \in Nodes /\ k \in Nodes /\ head \in Nodes /\ head \in created /\ k # head /\ k # c
      /\ Ply[k] >= Ply[head] /\ Parent(k) = c
      /\ Others(t) /\ path'[t] = Append(p, k) /\ pc'[t] = IF k \in created THEN "descend" ELSE "leaf"
      /\ Append(p, k) # << >> /\ Down(Append(p, k))'
  BY <1>0, SelectPlace
<1>2. /\ k \in KidSet(c) /\ nmc[c] # NotExpanded /\ c \in created
      /\ c # head => Status[c] = "open" /\ ~ Decided(c)
      /\ nmc' = [nmc EXCEPT ![c] = nmc[c] + 1] /\ emc' = [emc EXCEPT ![k] = emc[k] + 1]
      /\ created' = created \cup {k}
      /\ flag' = (IF c = head THEN flag ELSE [flag EXCEPT ![c] = @ \cup Proved(c)])
      /\ UNCHANGED <<head, expanded, nwin, ewin, count, pre, result, queue, evaled, discard>>
  BY <1>0 DEF Selects
<1>3. /\ \A n \in Nodes :
           /\ Pending(t, At(n))' = Pending(t, At(n)) + (Bit(n = k) - Bit(n = c /\ c # head))
           /\ Pending(t, Via(n))' = Pending(t, Via(n)) + Bit(n = c)
           /\ Asked(t, At(n))' = Asked(t, At(n)) + Bit(n = k /\ k \notin created)
      /\ NotCounted(t)' = NotCounted(t) + Bit(c = head)
  BY <1>0, SelectPending
<1>4. /\ BatchTypes /\ BatchTypes' /\ nmc \in [Nodes -> Int] /\ created \in SUBSET Nodes /\ emc \in [Nodes -> Int]
  BY DEF EInv, BatchTypes, SInv, StatTypes
<1>5. nmc[c] \in Nat
  <2>1. IsFiniteSet(Uses(c)) /\ Cardinality(Uses(c)) <= nmc[c]
    BY <1>1, <1>2 DEF EInv, Counted
  <2>2. Cardinality(Uses(c)) \in Nat /\ nmc[c] \in Int
    BY <1>1, <1>4, <2>1, FS_CardinalityType
  <2> QED BY <2>1, <2>2
<1>6. ASSUME NEW n \in Nodes
      PROVE  /\ emc'[n] = emc[n] + Bit(n = k) /\ Visits(n)' = Visits(n) + Bit(n = c)
             /\ IsEvaled(n)' <=> IsEvaled(n)
  <2>1. emc'[n] = emc[n] + Bit(n = k)
    BY <1>1, <1>2, <1>4 DEF Bit
  <2>2. nmc'[n] = (IF n = c THEN nmc[c] + 1 ELSE nmc[n]) /\ nmc[n] \in Int
    BY <1>1, <1>2, <1>4
  <2>3. CASE n = c
    <3>1. nmc'[n] = nmc[n] + 1 /\ nmc[n] # NotExpanded /\ nmc'[n] # NotExpanded
      BY <1>5, <2>2, <2>3 DEF NotExpanded
    <3> QED BY <2>1, <2>3, <3>1 DEF Visits, IsEvaled, Bit
  <2>4. CASE n # c
    <3>1. Visits(n) \in Int
      BY <2>2 DEF Visits, NotExpanded
    <3>2. Visits(n)' = Visits(n) /\ (IsEvaled(n)' <=> IsEvaled(n))
      BY <2>2, <2>4 DEF Visits, IsEvaled
    <3> QED BY <2>1, <2>4, <3>1, <3>2 DEF Bit
  <2> QED BY <2>3, <2>4
<1>7. FlagsKept
  <2>1. CASE c = head
    BY <1>2, <2>1, SameFlags DEF SInv
  <2>2. CASE c # head
    <3>1. Status[c] = "open" /\ ~ Decided(c)
      BY <1>2, <2>2
    <3>2. /\ Proved(c) \in SUBSET {"W", "L"}
          /\ "W" \in Proved(c) => Outcome[c] = "win"
          /\ "L" \in Proved(c) => Outcome[c] = "lose"
      BY <1>1, <3>1, ProvedSound DEF IInv
    <3>3. /\ flag[c] \in SUBSET {"W", "L"}
          /\ "W" \in flag[c] => Outcome[c] = "win"
          /\ "L" \in flag[c] => Outcome[c] = "lose"
      BY <1>1, <3>1 DEF IInv, FlagTypes, FlagsSound
    <3>4. flag[c] # {} => Proved(c) \subseteq flag[c]
      BY <3>2, <3>3
    <3>5. flag' = [flag EXCEPT ![c] = @ \cup Proved(c)] /\ Noted /\ FlagTypes
      BY <1>2, <2>2 DEF SInv, IInv
    <3>6. PICK F \in SUBSET {"W", "L", "D"} : F = Proved(c)
      BY <3>2
    <3> QED BY <1>1, <3>1, <3>4, <3>5, <3>6, FlagsGrow
  <2> QED BY <2>1, <2>2
<1>8. StatTypes'
  <2>1. emc[k] + 1 \in Int
    BY <1>1, <1>4
  <2> QED BY <1>2, <1>4, <2>1 DEF SInv, StatTypes
<1>9. Fresh /\ (k \notin created => ~ IsEvaled(k))
  BY <1>1 DEF EInv, Fresh, IsEvaled
<1>10. ASSUME k \notin created, NEW m \in KidSet(k) PROVE m \in Nodes \ created /\ m # k
  <2>1. m \in Nodes /\ Parent(m) = k /\ Ply[m] = Ply[k] + 1 /\ Ply[k] \in Nat /\ Ply[head] \in Nat
    BY <1>1, KidSetIs, ParentIs, PlyAssumption
  <2>2. m # head /\ m # k
    BY <1>1, <2>1
  <2> QED BY <1>10, <2>1, <2>2 DEF SInv, Family
<1>11. Tally'
  <2> SUFFICES ASSUME NEW n \in created'
               PROVE  Visits(n)' = SumFunctionOnSet(emc', KidSet(n)) /\ nwin'[n] = SumFunctionOnSet(ewin', KidSet(n))
    BY DEF Tally
  <2>1. n \in Nodes /\ KidSet(n) \subseteq Nodes /\ IsFiniteSet(KidSet(n))
    BY <1>1, <1>2, <1>4, KidSetIs
  <2>2. CASE n \in created
    <3>1. Visits(n) = SumFunctionOnSet(emc, KidSet(n)) /\ nwin[n] = SumFunctionOnSet(ewin, KidSet(n))
      BY <2>2 DEF SInv, Tally
    <3>2. CASE n = c
      <4>1. /\ \A x \in KidSet(n) : emc[x] \in Int /\ emc'[x] \in Int
            /\ \A x \in KidSet(n) \ {k} : emc'[x] = emc[x]
            /\ emc'[k] = emc[k] + 1 /\ emc[k] \in Int /\ k \in KidSet(n)
        <5>1. emc' \in [Nodes -> Int]
          BY <1>8 DEF StatTypes
        <5> QED BY <1>1, <1>2, <1>4, <2>1, <3>2, <5>1
      <4>2. /\ SumFunctionOnSet(emc', KidSet(n)) = SumFunctionOnSet(emc, KidSet(n)) + (emc'[k] - emc[k])
            /\ SumFunctionOnSet(emc, KidSet(n)) \in Int
        <5>1. PICK S, f, g : S = KidSet(n) /\ f = emc /\ g = emc'
          OBVIOUS
        <5>2. IsFiniteSet(S) /\ k \in S
          BY <2>1, <4>1, <5>1
        <5>3. \A x \in S : f[x] \in Int /\ g[x] \in Int
          BY <4>1, <5>1
        <5>4. \A x \in S \ {k} : g[x] = f[x]
          BY <4>1, <5>1
        <5>5. SumFunctionOnSet(g, S) = SumFunctionOnSet(f, S) + (g[k] - f[k])
          BY <5>2, <5>3, <5>4, SumDiff
        <5>6. SumFunctionOnSet(f, S) \in Int
          BY <5>2, <5>3, SumInt
        <5> QED BY <5>1, <5>5, <5>6
      <4>3. Visits(n)' = Visits(n) + 1
        BY <1>6, <2>1, <3>2 DEF Bit
      <4> QED BY <1>2, <3>1, <4>1, <4>2, <4>3
    <3>3. CASE n # c
      <4>1. k \notin KidSet(n)
        BY <1>1, <2>1, <3>3, ParentIs
      <4>2. \A x \in KidSet(n) : emc[x] = emc'[x]
        BY <1>2, <1>4, <2>1, <4>1
      <4>3. SumFunctionOnSet(emc', KidSet(n)) = SumFunctionOnSet(emc, KidSet(n))
        BY <2>1, <4>2, SumSame
      <4>4. Visits(n) \in Int /\ Visits(n)' = Visits(n) + 0
        BY <1>4, <1>6, <2>1, <3>3, StatsAreInt DEF Bit, SInv
      <4> QED BY <1>2, <3>1, <4>3, <4>4
    <3> QED BY <3>2, <3>3
  <2>3. CASE n \notin created
    <3>1. n = k /\ k \notin created
      BY <1>2, <2>3
    <3>2. \A m \in KidSet(k) : emc'[m] = 0 /\ ewin'[m] = 0
      <4>1. \A m \in Nodes \ created : emc[m] = 0 /\ ewin[m] = 0
        BY DEF SInv, Family
      <4>2. \A m \in KidSet(k) : m \in Nodes \ created /\ m # k
        BY <1>10, <3>1
      <4>3. emc \in [Nodes -> Int] /\ emc' = [emc EXCEPT ![k] = emc[k] + 1] /\ ewin' = ewin
        BY <1>2, <1>4
      <4> QED BY <4>1, <4>2, <4>3
    <3>3. SumFunctionOnSet(emc', KidSet(k)) = 0 /\ SumFunctionOnSet(ewin', KidSet(k)) = 0
      BY <2>1, <3>1, <3>2, SumZero
    <3>4. Visits(k)' = 0
      <4>1. nmc[k] = NotExpanded /\ nmc'[k] = nmc[k]
        BY <1>1, <1>2, <1>4, <1>9, <3>1 DEF IsEvaled
      <4> QED BY <4>1 DEF Visits
    <3>5. nwin'[k] = 0
      BY <1>1, <1>2, <3>1 DEF SInv, Family
    <3> QED BY <3>1, <3>3, <3>4, <3>5
  <2> QED BY <2>2, <2>3
<1>12. HeadCount'
  <2>1. PICK d \in Int : d = Bit(c = head) /\ d = Bit(head = c)
    BY DEF Bit
  <2>2. Visits(head)' = Visits(head) + d
    <3>1. \A n : n = head => Visits(n)' = Visits(head)'
      BY <1>2 DEF Visits
    <3> QED BY <1>1, <1>2, <1>6, <2>1 DEF Visits
  <2>3. count' + NotCounted(t)' = count + NotCounted(t) + d
    <3>1. NotCounted(t) \in Nat /\ count \in Int /\ count' = count
      BY <1>2, <1>4, PendingForm DEF SInv, StatTypes, PendingsAreNat
    <3>2. NotCounted(t)' = NotCounted(t) + d
      BY <1>3, <2>1
    <3> QED BY <2>1, <3>1, <3>2
  <2> QED BY <1>1, <1>2, <1>4, <1>8, <2>2, <2>3, HeadMoves
<1>13. ASSUME NEW n \in created \ {head} PROVE Books(n)'
  <2>1. n \in Nodes \ {head} /\ FlagKept(n)
    BY <1>4, <1>7 DEF FlagsKept
  <2>2. PICK dm \in Int, dv \in Int, da \in Int : dm = Bit(n = k) /\ dv = Bit(n = c) /\ da = dm - dv
    BY DEF Bit
  <2>3. PICK z \in Int : z = 0
    OBVIOUS
  <2>4. emc[n] \in Int /\ ewin[n] \in Int /\ nwin[n] \in Int
    BY <1>4, <2>1, StatsAreInt DEF SInv
  <2>5. /\ emc'[n] = emc[n] + dm /\ Visits(n)' = Visits(n) + dv /\ ewin'[n] = ewin[n] + z
        /\ ewin'[n] + nwin'[n] = ewin[n] + nwin[n] + z
    BY <1>2, <1>6, <2>1, <2>2, <2>3, <2>4
  <2>6. Pending(t, At(n))' = Pending(t, At(n)) + da /\ Pending(t, Via(n))' = Pending(t, Via(n)) + dv
    <3>1. (n = c /\ c # head) <=> n = c
      BY <2>1
    <3>2. Bit(n = c /\ c # head) = Bit(n = c)
      BY <3>1 DEF Bit
    <3> QED BY <1>3, <2>1, <2>2, <3>2
  <2>7. Asked(t, At(n))' = Asked(t, At(n)) - z
    <3>1. Asked(t, At(n)) \in Nat
      BY <1>4, PendingForm DEF PendingsAreNat
    <3>2. Bit(n = k /\ k \notin created) = 0
      BY DEF Bit
    <3> QED BY <1>3, <2>1, <2>3, <3>1, <3>2
  <2>8. CASE Decided(n)
    <3>1. dv = 0
      BY <1>2, <2>1, <2>2, <2>8 DEF Bit
    <3>2. dm - da = 0 /\ z \in 0 .. dm - da /\ z = (dm - da) * Value(Flag(n))
      <4>1. PICK v \in Int : v = Value(Flag(n))
        BY DEF Value, One
      <4>2. dm - da = 0
        BY <2>2, <3>1
      <4>3. 0 * v = 0 /\ 0 \in 0 .. 0
        BY <4>1
      <4> QED BY <2>3, <4>1, <4>2, <4>3
    <3> QED BY <1>1, <1>4, <2>1, <2>3, <2>5, <2>6, <2>8, <3>2, DecidedBooks
  <2>9. CASE ~ Decided(n)
    <3>1. dm - dv - z - da = 0
      BY <2>2, <2>3
    <3>2. z = z * (One - NN[n]) + One * (dv - dv) + (dm - dv - z - da) * Fixed(n)'
      <4>1. NN[n] \in Int /\ One \in Int /\ Fixed(n)' \in Int
        <5>1. NN[n] \in 0 .. One
          BY <2>1, TreeAssumption
        <5> QED BY <5>1 DEF One, Fixed
      <4>2. PICK a \in Int, b \in Int : a = One - NN[n] /\ b = Fixed(n)'
        BY <4>1
      <4>3. z * a = 0 /\ (dm - dv - z - da) * b = 0 /\ One * (dv - dv) = 0
        BY <2>3, <3>1, <4>1, <4>2
      <4> QED BY <2>3, <4>2, <4>3
    <3> QED BY <1>1, <1>4, <2>1, <2>5, <2>6, <2>7, <2>9, <3>1, <3>2, OpenBooks
  <2> QED BY <2>8, <2>9
<1>14. ASSUME k \notin created PROVE Books(k)'
  <2>1. AllPending(At(k)) = 0 /\ AllPending(Via(k)) = 0 /\ AllAsked(At(k)) = 0
    BY <1>1, <1>4, <1>14, NothingPending
  <2>2. /\ Pending(t, At(k))' = Pending(t, At(k)) + 1 /\ Pending(t, Via(k))' = Pending(t, Via(k)) + 0
        /\ Asked(t, At(k))' = Asked(t, At(k)) + 1
    BY <1>1, <1>3, <1>14 DEF Bit
  <2>3. \A X : /\ AllPending(X)' = AllPending(X) + (Pending(t, X)' - Pending(t, X))
               /\ AllAsked(X)' = AllAsked(X) + (Asked(t, X)' - Asked(t, X))
               /\ Pending(t, X) \in Nat /\ Asked(t, X) \in Nat
    BY <1>1, <1>4, TotalsChange, PendingForm DEF PendingsAreNat
  <2>4. AllPending(At(k))' = 1 /\ AllPending(Via(k))' = 0 /\ AllAsked(At(k))' = 1
    BY <2>1, <2>2, <2>3
  <2>5. emc'[k] = 1 /\ ewin'[k] = 0 /\ nwin'[k] = 0
    BY <1>1, <1>2, <1>4, <1>14 DEF SInv, Family
  <2>6. Visits(k)' = 0
    <3>1. nmc[k] = NotExpanded /\ nmc'[k] = nmc[k]
      BY <1>1, <1>2, <1>4, <1>9, <1>14 DEF IsEvaled
    <3> QED BY <3>1 DEF Visits
  <2>7. PICK a \in Int, b \in Int, v \in Int : a = One - NN[k] /\ b = Fixed(k)' /\ v = Value(Flag(k))
    <3>1. NN[k] \in 0 .. One
      BY <1>1, TreeAssumption
    <3> QED BY <3>1 DEF One, Fixed, Value
  <2>8. Evaluations(k)' = 0 /\ Stopped(k)' = 0
    BY <2>4, <2>5, <2>6 DEF Evaluations, Stopped
  <2>9. OpenLedger(k)'
    <3>1. 0 * a = 0 /\ 0 * b = 0 /\ One * (0 - 0) = 0
      BY <2>7 DEF One
    <3> QED BY <2>4, <2>5, <2>6, <2>7, <2>8, <3>1 DEF OpenLedger
  <2>10. DecidedLedger(k)'
    <3>1. 0 * v = 0 /\ 1 - 1 = 0 /\ 0 \in 0 .. 0
      BY <2>7
    <3> QED BY <2>4, <2>5, <2>7, <3>1 DEF DecidedLedger
  <2> QED BY <2>9, <2>10 DEF Books
<1>15. Ledger'
  BY <1>1, <1>2, <1>13, <1>14 DEF Ledger
<1>16. Routed(t)'
  BY <1>1, <1>2, DownKept DEF SInv, Routes, Routed
<1>17. Routes' /\ Noted' /\ Results'
  <2>1. \A n \in created' \ {head} :
          Decided(n) /\ IsEvaled(n)' => (n \in created /\ IsEvaled(n)) \/ Marked(n)'
    BY <1>1, <1>2, <1>4, <1>6, <1>9
  <2>2. pc'[t] \notin {"flagged", "done"}
    BY <1>1
  <2> QED BY <1>1, <1>2, <1>7, <1>16, <2>1, <2>2, PlacesKept
<1>18. Family'
  <2>1. \A n \in created' : Ply[n] >= Ply[head] /\ (n # head => Parent(n) \in created')
    BY <1>1, <1>2 DEF SInv, Family
  <2>2. \A n \in created' \ {head} : IsEvaled(n)' /\ ~ Decided(n) => n \in expanded
    BY <1>1, <1>2, <1>4, <1>6, <1>9 DEF SInv, Family
  <2>3. \A n \in Nodes \ created' : emc'[n] = 0 /\ ewin'[n] = 0 /\ nwin'[n] = 0
    BY <1>2, <1>4 DEF SInv, Family
  <2>4. expanded \subseteq created'
    BY <1>2 DEF SInv, Family
  <2> QED BY <1>2, <2>1, <2>2, <2>3, <2>4 DEF Family
<1> QED BY <1>8, <1>11, <1>12, <1>15, <1>17, <1>18 DEF SInv

(* What is below a node: its moves, and with a node the one before it.      *)
LEMMA SubtreeIs ==
  ASSUME NEW h \in Nodes
  PROVE  /\ h \in Subtree[h] /\ Subtree[h] \subseteq Nodes
         /\ \A n \in Subtree[h] : /\ KidSet(n) \subseteq Subtree[h] /\ Ply[n] >= Ply[h]
                                  /\ n # h => Parent(n) \in Subtree[h] /\ Ply[n] > Ply[h]
<1>1. \A n : n \in Subtree[h] <=>
        n \in Nodes /\ \A S \in SUBSET Nodes : h \in S /\ (\A m \in S : KidSet(m) \subseteq S) => n \in S
  BY DEF Subtree
<1>2. h \in Subtree[h] /\ Subtree[h] \subseteq Nodes
  BY <1>1
<1>3. \A n \in Subtree[h] : KidSet(n) \subseteq Subtree[h]
  BY <1>1, <1>2, KidSetIs
<1> DEFINE T == {n \in Subtree[h] : n = h \/ (Parent(n) \in Subtree[h] /\ Ply[n] > Ply[h])}
<1>4. ASSUME NEW m \in T, NEW k \in KidSet(m) PROVE k \in T
  <2>1. m \in Subtree[h] /\ m \in Nodes /\ k \in Subtree[h] /\ Parent(k) = m /\ Ply[k] = Ply[m] + 1
    BY <1>2, <1>3, ParentIs, PlyAssumption
  <2>2. Ply[h] \in Nat /\ Ply[m] \in Nat /\ (m = h \/ Ply[m] > Ply[h])
    BY <1>2, <2>1, PlyAssumption
  <2> QED BY <2>1, <2>2
<1>5. h \in T /\ T \in SUBSET Nodes /\ \A m \in T : KidSet(m) \subseteq T
  BY <1>2, <1>4
<1>6. \A n \in Subtree[h] : n \in T
  <2> HIDE DEF T
  <2> QED BY <1>1, <1>5
<1>7. \A n \in Subtree[h] : Ply[n] \in Nat
  BY <1>2, PlyAssumption
<1> QED BY <1>2, <1>3, <1>6, <1>7

(* The threads have nothing between two searches, and nothing at the start. *)
Empty(t) == path[t] = << >> /\ queue[t] = << >> /\ discard[t] = << >> /\ pc[t] \in {"idle", "root"}

LEMMA NoneAtAll ==
  ASSUME \A t \in Threads : Empty(t)
  PROVE  AllNotCounted = 0 /\ \A X : << >> \notin X => AllPending(X) = 0 /\ AllAsked(X) = 0
<1>1. ASSUME NEW f, DOMAIN f = Threads, \A t \in Threads : f[t] = 0 PROVE SumFunction(f) = 0
  <2>1. SumFunctionOnSet(f, Threads) = 0
    BY <1>1, SumZero, ThreadsAssumption
  <2> QED BY <1>1, <2>1 DEF SumFunction
<1>2. \A X : Count(<< >>, X) = 0
  <2>1. Len(<< >>) \in Nat /\ DOMAIN << >> = 1 .. Len(<< >>)
    OBVIOUS
  <2> QED BY <2>1, CountIs
<1>3. AllNotCounted = 0
  <2> DEFINE f == [t \in Threads |-> NotCounted(t)]
  <2>1. DOMAIN f = Threads /\ \A t \in Threads : f[t] = 0
    <3>1. ASSUME NEW t \in Threads PROVE NotCounted(t) = 0
      <4>1. path[t] = << >> /\ Len(discard[t]) = 0
        BY DEF Empty
      <4> QED BY <4>1 DEF NotCounted
    <3> QED BY <3>1
  <2>2. AllNotCounted = SumFunction(f)
    BY DEF AllNotCounted
  <2> HIDE DEF f
  <2> QED BY <1>1, <2>1, <2>2
<1>4. ASSUME NEW X, << >> \notin X PROVE AllPending(X) = 0
  <2> DEFINE f == [t \in Threads |-> Pending(t, X)]
  <2>1. DOMAIN f = Threads /\ \A t \in Threads : f[t] = 0
    <3>1. ASSUME NEW t \in Threads PROVE Pending(t, X) = 0
      <4>1. Bit(path[t] \in X) = 0 /\ Count(discard[t], X) = 0 /\ Count(queue[t], X) = 0
        BY <1>2, <1>4 DEF Empty, Bit
      <4> QED BY <4>1 DEF Pending
    <3> QED BY <3>1
  <2>2. AllPending(X) = SumFunction(f)
    BY DEF AllPending
  <2> HIDE DEF f
  <2> QED BY <1>1, <2>1, <2>2
<1>5. ASSUME NEW X, << >> \notin X PROVE AllAsked(X) = 0
  <2> DEFINE f == [t \in Threads |-> Asked(t, X)]
  <2>1. DOMAIN f = Threads /\ \A t \in Threads : f[t] = 0
    BY <1>2, <1>5 DEF Empty, Asked, Bit
  <2>2. AllAsked(X) = SumFunction(f)
    BY DEF AllAsked
  <2> HIDE DEF f
  <2> QED BY <1>1, <2>1, <2>2
<1> QED BY <1>3, <1>4, <1>5

LEMMA NoneAtAllNext ==
  (\A t \in Threads : Empty(t))' =>
     AllNotCounted' = 0 /\ \A X : << >> \notin X => AllPending(X)' = 0 /\ AllAsked(X)' = 0
<1> DEFINE A == \A t \in Threads : Empty(t)
           B == AllNotCounted = 0 /\ \A X : << >> \notin X => AllPending(X) = 0 /\ AllAsked(X) = 0
<1>1. A => B
  BY NoneAtAll
<1> HIDE DEF A, B
<1>2. A' => B'
  BY <1>1, PTL
<1> QED BY <1>2 DEF A, B

LEMMA GenmoveStats ==
  ASSUME IInv, IInv', EInv, EInv', SInv, NEW h \in Nodes, NEW found \in BOOLEAN, Genmove(h, found)
  PROVE  SInv'
<1> DEFINE kept == IF found THEN Subtree[h] \ ({head} \ {h}) ELSE {}
<1>k. PICK K : K = kept
  OBVIOUS
<1>1. /\ head' = h /\ created' = (created \cap K) \cup {h} /\ expanded' = (expanded \cap K) \cup {h}
      /\ nmc'  = [n \in Nodes |-> IF n \in K THEN nmc[n] ELSE NotExpanded]
      /\ nwin' = [n \in Nodes |-> IF n \in K THEN nwin[n] ELSE 0]
      /\ emc'  = [n \in Nodes |-> IF n \in K THEN emc[n] ELSE 0]
      /\ ewin' = [n \in Nodes |-> IF n \in K THEN ewin[n] ELSE 0]
      /\ pre' = (IF nmc'[h] = NotExpanded THEN 0 ELSE nmc'[h]) /\ count' = 0
      /\ flag' = [n \in Nodes |-> IF found /\ n \in Subtree[h] \cup Line(h) THEN flag[n] ELSE {}]
      /\ pc' = [t \in Threads |-> "root"] /\ UNCHANGED <<path, result, queue, discard>>
      /\ h \in Subtree[head] /\ \A t \in Threads : pc[t] = "idle"
  BY <1>k DEF Genmove, Idle, ExpandRoot, batch
<1>2. /\ created \in SUBSET Nodes /\ nmc \in [Nodes -> Int] /\ head \in Nodes /\ head \in created
      /\ expanded \in SUBSET Nodes /\ emc \in [Nodes -> Int] /\ nwin \in [Nodes -> Int] /\ ewin \in [Nodes -> Int]
      /\ result \in [Threads -> Int] /\ flag \in [Nodes -> SUBSET {"W", "L", "D"}]
  BY DEF EInv, BatchTypes, SInv, StatTypes, IInv, FlagTypes, Places
<1>3. ASSUME NEW t \in Threads PROVE Empty(t) /\ Empty(t)'
  BY <1>1 DEF IInv, PathInv, EInv, Places, Waits, Empty
<1>4. /\ \A n : << >> \notin At(n) /\ << >> \notin Via(n)
      /\ AllNotCounted' = 0
      /\ \A n : /\ AllPending(At(n)) = 0 /\ AllPending(Via(n)) = 0 /\ AllAsked(At(n)) = 0
                /\ AllPending(At(n))' = 0 /\ AllPending(Via(n))' = 0 /\ AllAsked(At(n))' = 0
  <2>1. \A X : << >> \notin X => /\ AllPending(X) = 0 /\ AllAsked(X) = 0
                                /\ AllPending(X)' = 0 /\ AllAsked(X)' = 0
    BY <1>3, NoneAtAll, NoneAtAllNext
  <2>2. AllNotCounted' = 0
    BY <1>3, NoneAtAllNext
  <2>3. \A n : << >> \notin At(n)' /\ << >> \notin Via(n)' /\ At(n)' = At(n) /\ Via(n)' = Via(n)
    BY NotAtNone DEF At, Via, End, Origins, Parent, Playouts
  <2> QED BY <2>1, <2>2, <2>3, NotAtNone
<1>5. /\ K \subseteq Subtree[h] /\ (head \in K => head = h)
      /\ K # {} => found /\ h \in K /\ Ply[h] >= Ply[head]
      /\ \A n \in K : n \in Nodes /\ KidSet(n) \subseteq K /\ Ply[n] >= Ply[h] /\ (n # h => Parent(n) \in K)
  <2>1. Ply[h] >= Ply[head] /\ \A n \in Nodes : Ply[n] \in Nat
    BY <1>1, <1>2, SubtreeIs, PlyAssumption
  <2>2. \A n \in Subtree[h] : n = head => n = h
    BY <1>2, <2>1, SubtreeIs
  <2>3. ASSUME K # {} PROVE found /\ K = Subtree[h]
    BY <1>k, <2>2, <2>3
  <2>4. CASE K = {}
    BY <2>4
  <2>5. CASE K # {}
    <3>1. found /\ K = Subtree[h] /\ h \in K
      BY <2>3, <2>5, SubtreeIs
    <3>2. head \in K => head = h
      BY <1>2, <2>2, <3>1
    <3> QED BY <2>1, <3>1, <3>2, SubtreeIs
  <2> QED BY <2>4, <2>5
<1>6. /\ \A n \in K : /\ n \in Nodes /\ nmc'[n] = nmc[n] /\ emc'[n] = emc[n] /\ ewin'[n] = ewin[n]
                      /\ nwin'[n] = nwin[n] /\ flag'[n] = flag[n]
      /\ \A n \in Nodes \ K : nmc'[n] = NotExpanded /\ emc'[n] = 0 /\ ewin'[n] = 0 /\ nwin'[n] = 0
      /\ \A n \in Nodes : flag'[n] \subseteq flag[n]
  <2>1. K \subseteq Nodes /\ (K # {} => found) /\ \A n \in K : n \in Subtree[h]
    BY <1>5
  <2>2. \A n \in K : flag'[n] = flag[n]
    BY <1>1, <1>2, <2>1
  <2>3. \A n \in Nodes : flag'[n] \subseteq flag[n]
    BY <1>1, <1>2
  <2> QED BY <1>1, <1>2, <2>1, <2>2, <2>3
<1>7. \A n \in Nodes \ created : nmc[n] = NotExpanded /\ emc[n] = 0 /\ ewin[n] = 0 /\ nwin[n] = 0
  BY DEF SInv, Family, EInv, Fresh
<1>8. ASSUME NEW n \in K \ created, NEW k \in KidSet(n) PROVE k \notin created
  <2>1. n \in Nodes /\ k \in Nodes /\ k \in K /\ Parent(k) = n /\ Ply[k] = Ply[n] + 1 /\ Ply[n] >= Ply[h]
        /\ Ply[n] \in Nat /\ Ply[h] \in Nat
    BY <1>5, KidSetIs, ParentIs, PlyAssumption
  <2>2. k # h
    BY <2>1
  <2>3. k # head
    BY <1>5, <2>1, <2>2
  <2> QED BY <2>1, <2>3, <1>8 DEF SInv, Family
<1>9. StatTypes'
  <2>1. emc' \in [Nodes -> Int] /\ nwin' \in [Nodes -> Int] /\ ewin' \in [Nodes -> Int]
    BY <1>1, <1>2
  <2>2. nmc'[h] \in Int
    BY <1>1, <1>2 DEF NotExpanded
  <2>3. pre' \in Int /\ count' \in Int /\ expanded' \in SUBSET Nodes /\ result' \in [Threads -> Int]
    BY <1>1, <1>2, <2>2
  <2> QED BY <2>1, <2>3 DEF StatTypes
<1>10. Tally'
  <2> SUFFICES ASSUME NEW n \in created'
               PROVE  Visits(n)' = SumFunctionOnSet(emc', KidSet(n)) /\ nwin'[n] = SumFunctionOnSet(ewin', KidSet(n))
    BY DEF Tally
  <2>1. n \in Nodes /\ KidSet(n) \subseteq Nodes /\ IsFiniteSet(KidSet(n)) /\ (n # h => n \in created \cap K)
    BY <1>1, <1>2, KidSetIs
  <2>2. CASE n \in created \cap K
    <3>1. Visits(n) = SumFunctionOnSet(emc, KidSet(n)) /\ nwin[n] = SumFunctionOnSet(ewin, KidSet(n))
      BY <2>2 DEF SInv, Tally
    <3>2. Visits(n)' = Visits(n) /\ nwin'[n] = nwin[n]
      BY <1>6, <2>2 DEF Visits
    <3>3. \A k \in KidSet(n) : emc[k] = emc'[k] /\ ewin[k] = ewin'[k]
      BY <1>5, <1>6, <2>2
    <3>4. /\ SumFunctionOnSet(emc, KidSet(n)) = SumFunctionOnSet(emc', KidSet(n))
          /\ SumFunctionOnSet(ewin, KidSet(n)) = SumFunctionOnSet(ewin', KidSet(n))
      BY <2>1, <3>3, SumSame
    <3> QED BY <3>1, <3>2, <3>4
  <2>3. CASE n \notin created \cap K
    <3>1. nmc'[n] = NotExpanded /\ nwin'[n] = 0
      BY <1>6, <1>7, <2>1, <2>3
    <3>2. \A k \in KidSet(n) : emc'[k] = 0 /\ ewin'[k] = 0
      <4> SUFFICES ASSUME NEW k \in KidSet(n) PROVE emc'[k] = 0 /\ ewin'[k] = 0
        OBVIOUS
      <4>1. k \in Nodes /\ (k \in K => k \notin created)
        <5>1. CASE n \in K
          BY <1>8, <2>1, <2>3, <5>1
        <5>2. CASE n \notin K
          BY <1>5, <2>1, <2>3, <5>2
        <5> QED BY <5>1, <5>2
      <4> QED BY <1>6, <1>7, <4>1
    <3>3. SumFunctionOnSet(emc', KidSet(n)) = 0 /\ SumFunctionOnSet(ewin', KidSet(n)) = 0
      BY <2>1, <3>2, SumZero
    <3>4. Visits(n)' = 0
      BY <3>1 DEF Visits
    <3> QED BY <3>1, <3>3, <3>4
  <2> QED BY <2>2, <2>3
<1>11. HeadCount'
  <2>1. Visits(head)' = pre' + 0
    <3>1. Visits(head)' = pre' /\ pre' \in Int
      BY <1>1, <1>9 DEF Visits, StatTypes
    <3>2. PICK x \in Int : x = pre' /\ x = Visits(head)'
      BY <3>1
    <3>3. x = x + 0
      OBVIOUS
    <3> QED BY <3>2, <3>3
  <2> QED BY <1>1, <1>4, <1>9, <2>1 DEF HeadCount, AllNotCounted, StatTypes
<1>12. Ledger'
  <2> SUFFICES ASSUME NEW n \in created' \ {h} PROVE Books(n)'
    BY <1>1 DEF Ledger
  <2>1. n \in created \ {head} /\ n \in K
    BY <1>1, <1>5
  <2>2. Books(n)
    BY <2>1 DEF SInv, Ledger
  <2>3. Visits(n)' = Visits(n) /\ Evaluations(n)' = Evaluations(n) /\ Fixed(n)' = Fixed(n)
    BY <1>4, <1>6, <2>1 DEF Visits, Evaluations, Fixed
  <2>4. Stopped(n)' = Stopped(n)
    BY <1>4, <1>6, <2>1, <2>3 DEF Stopped
  <2>5. OpenLedger(n) => OpenLedger(n)'
    BY <1>4, <1>6, <2>1, <2>3, <2>4 DEF OpenLedger
  <2>6. DecidedLedger(n) => DecidedLedger(n)'
    BY <1>4, <1>6, <2>1 DEF DecidedLedger
  <2> QED BY <2>2, <2>5, <2>6 DEF Books, Decided
<1>13. Routes'
  <2>1. \A t \in Threads : path'[t] = << >> /\ queue'[t] = << >> /\ discard'[t] = << >>
    BY <1>3 DEF Empty
  <2> QED BY <2>1 DEF Routes, Routed, Down
<1>14. Noted' /\ Results'
  <2>1. \A t \in Threads : pc'[t] = "root"
    BY <1>1
  <2>2. \A n \in Nodes : "L" \in flag'[n] => Status[n] # "draw"
    BY <1>6 DEF SInv, Noted
  <2>3. ASSUME NEW n \in created' \ {h}, Decided(n), IsEvaled(n)' PROVE Marked(n)'
    <3>1. n \in created \ {head} /\ n \in K
      BY <1>1, <1>5, <2>3
    <3>2. IsEvaled(n) /\ flag'[n] = flag[n]
      BY <1>6, <2>3, <3>1 DEF IsEvaled
    <3>3. Marked(n)
      BY <2>3, <3>1, <3>2 DEF SInv, Noted
    <3> QED BY <3>2, <3>3 DEF Marked
  <2> QED BY <1>1, <2>1, <2>2, <2>3 DEF Noted, Results, Decided
<1>15. Family'
  <2>1. ASSUME NEW n \in created'
        PROVE  Ply[n] >= Ply[h] /\ (n # h => Parent(n) \in created')
    <3>1. CASE n = h
      BY <1>2, <3>1, PlyAssumption
    <3>2. CASE n # h
      <4>1. n \in created \ {head} /\ n \in K
        BY <1>1, <1>5, <2>1, <3>2
      <4>2. Parent(n) \in created /\ Parent(n) \in K /\ Ply[n] >= Ply[h]
        BY <1>5, <3>2, <4>1 DEF SInv, Family
      <4> QED BY <1>1, <4>2
    <3> QED BY <3>1, <3>2
  <2>2. ASSUME NEW n \in created' \ {h}, IsEvaled(n)', ~ Decided(n) PROVE n \in expanded'
    <3>1. n \in created \ {head} /\ n \in K
      BY <1>1, <1>5, <2>2
    <3>2. IsEvaled(n)
      BY <1>6, <2>2, <3>1 DEF IsEvaled
    <3> QED BY <1>1, <2>2, <3>1, <3>2 DEF SInv, Family
  <2>3. \A n \in Nodes \ created' : emc'[n] = 0 /\ ewin'[n] = 0 /\ nwin'[n] = 0
    BY <1>1, <1>6, <1>7
  <2>4. expanded' \subseteq created'
    BY <1>1 DEF SInv, Family
  <2> QED BY <1>1, <2>1, <2>2, <2>3, <2>4 DEF Family, Decided
<1> QED BY <1>9, <1>10, <1>11, <1>12, <1>13, <1>14, <1>15 DEF SInv

LEMMA ThreadStats ==
  ASSUME IInv, IInv', EInv, EInv', SInv, NEW t \in Threads, Thread(t) PROVE SInv'
<1>1. CASE EvalRoot(t)
  BY <1>1, EvalRootStats
<1>2. CASE Select(t)
  BY <1>2, SelectStats
<1>3. CASE LeafDecided(t)
  BY <1>3, LeafDecidedStats
<1>4. CASE LeafQueued(t)
  BY <1>4, LeafQueuedStats
<1>5. CASE SetLeafEvaled(t)
  BY <1>5, SetLeafEvaledStats
<1>6. CASE Discard(t)
  BY <1>6, DiscardStats
<1>7. CASE Descend(t)
  BY <1>7, DescendStats
<1>8. CASE UpdateResults(t)
  BY <1>8, UpdateResultsStats
<1>9. CASE EvalNode(t)
  BY <1>9, EvalNodeStats
<1>10. CASE EvalDone(t)
  BY <1>10, EvalDoneStats
<1>11. CASE SubVirtualLosses(t)
  BY <1>11, SubVirtualLossesStats
<1>12. CASE Backup(t)
  BY <1>12, BackupStats
<1>13. CASE Check(t)
  BY <1>13, CheckStats
<1> QED BY <1>1, <1>2, <1>3, <1>4, <1>5, <1>6, <1>7, <1>8, <1>9, <1>10, <1>11, <1>12, <1>13 DEF Thread

LEMMA InitSInv == Init => SInv
<1> SUFFICES ASSUME Init PROVE SInv
  OBVIOUS
<1> USE DEF Init
<1>1. Root \in Nodes /\ Kids \in [Nodes -> Seq(Nodes \ {Root})]
  BY TreeAssumption
<1>2. StatTypes
  BY DEF StatTypes
<1>3. \A t \in Threads : Empty(t)
  BY DEF Empty
<1>4. Routes
  BY DEF Routes, Routed, Down
<1>5. Noted /\ Results
  BY DEF Noted, Results
<1>6. Family
  BY <1>1, PlyAssumption DEF Family
<1>7. Tally
  <2> SUFFICES ASSUME NEW n \in created
               PROVE  Visits(n) = SumFunctionOnSet(emc, KidSet(n)) /\ nwin[n] = SumFunctionOnSet(ewin, KidSet(n))
    BY DEF Tally
  <2>1. n = Root /\ n \in Nodes /\ KidSet(n) \subseteq Nodes /\ IsFiniteSet(KidSet(n))
    BY <1>1, KidSetIs
  <2>2. \A k \in KidSet(n) : emc[k] = 0 /\ ewin[k] = 0
    BY <2>1
  <2>3. SumFunctionOnSet(emc, KidSet(n)) = 0 /\ SumFunctionOnSet(ewin, KidSet(n)) = 0
    BY <2>1, <2>2, SumZero
  <2> QED BY <2>1, <2>3 DEF Visits
<1>8. HeadCount
  <2>1. AllNotCounted = 0
    BY <1>3, NoneAtAll
  <2>2. Visits(head) = 0 /\ pre = 0 /\ count = 0
    BY <1>1 DEF Visits
  <2> QED BY <2>1, <2>2 DEF HeadCount, AllNotCounted
<1>9. Ledger
  BY DEF Ledger
<1> QED BY <1>2, <1>4, <1>5, <1>6, <1>7, <1>8, <1>9 DEF SInv

(* SInv is an invariant of the search, next to IInv and EInv.               *)
THEOREM Bookkeeping == Spec => []SInv
<1>1. IInv /\ IInv' /\ EInv /\ EInv' /\ SInv /\ [Next]_vars => SInv'
  <2> SUFFICES ASSUME IInv, IInv', EInv, EInv', SInv, [Next]_vars PROVE SInv'
    OBVIOUS
  <2>1. CASE UNCHANGED vars \/ Ended
    BY <2>1, SignalStats DEF vars, tree, stats, control, batch, Ended
  <2>2. ASSUME NEW h \in Nodes, Go(h) \/ GoOn(h) PROVE SInv'
    <3>1. PICK found \in BOOLEAN : Genmove(h, found)
      BY <2>2 DEF Go, GoOn
    <3> QED BY <3>1, GenmoveStats
  <2>3. ASSUME NEW t \in Threads, Thread(t) PROVE SInv'
    BY <2>3, ThreadStats
  <2>4. CASE StopUctSearch \/ PonderHit
    BY <2>4, SignalStats DEF StopUctSearch, PonderHit, tree, stats, batch
  <2>5. ASSUME NEW n \in Nodes \ {Root}, PvMateFound(n) PROVE SInv'
    BY <2>5, PvMateStats
  <2> QED BY <2>1, <2>2, <2>3, <2>4, <2>5 DEF Next
<1> QED BY InitSInv, Inductive, Evaluation, <1>1, PTL DEF Spec

(* Between searches nothing is pending and every node below the head is     *)
(* evaluated, so the books are what WinsConserved says.                     *)
LEMMA BooksClosed ==
  ASSUME IInv, EInv, SInv, Idle, NEW n \in created \ {head}
  PROVE  /\ nmc[n] # NotExpanded /\ Evaluations(n) = 1
         /\ AllPending(At(n)) = 0 /\ AllPending(Via(n)) = 0
<1>1. ASSUME NEW t \in Threads PROVE Empty(t) /\ pc[t] = "idle" /\ evaled[t] = 0
  BY DEF Idle, IInv, PathInv, EInv, Places, Waits, Empty
<1>2. AllPending(At(n)) = 0 /\ AllPending(Via(n)) = 0 /\ AllAsked(At(n)) = 0
  BY <1>1, NoneAtAll, NotAtNone
<1>3. Waiting(n) = {}
  <2>1. \A t \in Threads : HeldAt(t, n) = {}
    BY <1>1 DEF HeldAt, Empty
  <2> QED BY <2>1 DEF Waiting
<1>4. nmc[n] # NotExpanded
  BY <1>3 DEF EInv, EvaluatedOnce
<1> QED BY <1>2, <1>4 DEF Evaluations

(* Virtual losses are taken back, and no result is lost or counted twice:   *)
(* at every moment the visits of a node are those of its moves, and when a  *)
(* search has ended its wins are those of its moves, and a move's wins are  *)
(* what its visits brought, whatever the tree, the number of threads, the   *)
(* size of the batches, and the order in which playouts crossed, were       *)
(* discarded and met decided moves.                                         *)
THEOREM StatisticsAreConserved == Spec => []StatisticsConserved
<1>1. ASSUME IInv, EInv, SInv PROVE VisitsConserved
  <2>1. \A n \in expanded : nmc[n] # NotExpanded => nmc[n] = SumFunctionOnSet(emc, KidSet(n))
    BY <1>1 DEF SInv, Family, Tally, Visits
  <2>2. nmc[head] # NotExpanded => nmc[head] = pre + count + SumFunction([t \in Threads |-> NotCounted(t)])
    BY <1>1 DEF SInv, HeadCount, Visits
  <2> QED BY <2>1, <2>2 DEF VisitsConserved
<1>2. ASSUME IInv, EInv, SInv PROVE WinsConserved
  <2> SUFFICES ASSUME Idle, NEW n \in created
               PROVE  /\ n \in expanded => nwin[n] = SumFunctionOnSet(ewin, KidSet(n))
                      /\ n # head =>
                           IF Status[n] = "draw" THEN ewin[n] <= emc[n] /\ ("W" \notin flag[n] => ewin[n] = emc[n])
                           ELSE IF Decided(n) THEN ewin[n] = emc[n] * Fixed(n)
                           ELSE ewin[n] = (One - NN[n]) + (One * nmc[n] - nwin[n])
                                          + (emc[n] - 1 - nmc[n]) * Fixed(n)
    BY DEF WinsConserved
  <2>1. nwin[n] = SumFunctionOnSet(ewin, KidSet(n))
    BY <1>2 DEF SInv, Tally
  <2>2. /\ n \in Nodes /\ emc[n] \in Int /\ ewin[n] \in Int /\ nwin[n] \in Int /\ nmc[n] \in Int
        /\ flag[n] \in SUBSET {"W", "L", "D"}
    BY <1>2 DEF EInv, BatchTypes, SInv, StatTypes, IInv, FlagTypes
  <2>3. ASSUME n # head
        PROVE  /\ nmc[n] # NotExpanded /\ Evaluations(n) = 1 /\ Books(n)
               /\ AllPending(At(n)) = 0 /\ AllPending(Via(n)) = 0
    BY <1>2, <2>3, BooksClosed DEF SInv, Ledger
  <2>4. ASSUME n # head, Status[n] = "draw"
        PROVE  ewin[n] <= emc[n] /\ ("W" \notin flag[n] => ewin[n] = emc[n])
    <3>1. DecidedLedger(n) /\ AllPending(At(n)) = 0
      BY <2>3, <2>4 DEF Books, Decided
    <3> QED BY <2>2, <2>4, <3>1 DEF DecidedLedger
  <2>5. ASSUME n # head, Decided(n), Status[n] # "draw" PROVE ewin[n] = emc[n] * Fixed(n)
    <3>1. DecidedLedger(n) /\ AllPending(At(n)) = 0 /\ IsEvaled(n)
      BY <2>3, <2>5 DEF Books, IsEvaled
    <3>2. Flag(n) \in flag[n]
      BY <1>2, <2>5, <3>1 DEF SInv, Noted, Marked
    <3>3. ~ ("W" \in flag[n] /\ "L" \in flag[n]) /\ "D" \notin flag[n]
      BY <1>2, <2>2, <2>5 DEF IInv, FlagsSound
    <3>4. Fixed(n) = Value(Flag(n))
      BY <2>5, <3>2, <3>3 DEF Flag, Fixed, Value
    <3>5. ewin[n] = (emc[n] - 0) * Value(Flag(n))
      BY <2>5, <3>1 DEF DecidedLedger
    <3>6. emc[n] - 0 = emc[n]
      BY <2>2
    <3> QED BY <3>4, <3>5, <3>6
  <2>6. ASSUME n # head, ~ Decided(n)
        PROVE  ewin[n] = (One - NN[n]) + (One * nmc[n] - nwin[n]) + (emc[n] - 1 - nmc[n]) * Fixed(n)
    <3>1. OpenLedger(n) /\ Visits(n) = nmc[n] /\ Evaluations(n) = 1
          /\ AllPending(At(n)) = 0 /\ AllPending(Via(n)) = 0
      BY <2>3, <2>6 DEF Books, Visits
    <3>2. PICK s \in Int, a \in Int, x \in Int : s = emc[n] - 1 - nmc[n] /\ a = One - NN[n] /\ x = s * Fixed(n)
      <4>1. NN[n] \in 0 .. One
        BY <2>2, TreeAssumption
      <4>2. One - NN[n] \in Int /\ Fixed(n) \in Int /\ emc[n] - 1 - nmc[n] \in Int
        BY <2>2, <4>1 DEF One, Fixed
      <4>3. \A u, v \in Int : u * v \in Int
        OBVIOUS
      <4> QED BY <4>2, <4>3
    <3>3. Stopped(n) = s
      BY <2>2, <3>1, <3>2 DEF Stopped
    <3>4. ewin[n] + nwin[n] = 1 * a + One * (nmc[n] - 0) + x
      BY <3>1, <3>2, <3>3 DEF OpenLedger
    <3>5. ewin[n] = a + (One * nmc[n] - nwin[n]) + x
      <4>1. PICK e \in Int, w \in Int, m \in Int : e = ewin[n] /\ w = nwin[n] /\ m = nmc[n]
        BY <2>2
      <4>2. e + w = 1 * a + 2 * (m - 0) + x
        BY <3>4, <4>1 DEF One
      <4>3. e = a + (2 * m - w) + x
        BY <4>2
      <4> QED BY <4>1, <4>3 DEF One
    <3> QED BY <3>2, <3>5
  <2> QED BY <2>1, <2>4, <2>5, <2>6
<1>3. IInv /\ EInv /\ SInv => StatisticsConserved
  BY <1>1, <1>2 DEF StatisticsConserved
<1> QED BY Inductive, Evaluation, Bookkeeping, <1>3, PTL

-----------------------------------------------------------------------------
(* What is made of a search that has ended (BestMove.tla).                  *)
(* select_max_child_node, as one pass over the moves.                       *)
Taken(s, k, taken) == IF taken THEN [s EXCEPT !.best = k, !.max = emc[k]] ELSE s
Passed(s, k) ==
  IF "W" \in flag[k] THEN Taken(s, k, s.won /\ emc[k] > s.max)
  ELSE IF "L" \in flag[k]
       THEN [Taken(s, k, ~ s.lost \/ emc[k] > s.max) EXCEPT !.won = FALSE, !.lost = TRUE]
       ELSE [Taken(s, k, ~ s.lost /\ emc[k] > s.max) EXCEPT !.won = FALSE]
Begun(c) == [best |-> Kids[c][1], max |-> 0, won |-> TRUE, lost |-> FALSE]
PassTable(c, it) ==
  it = [s \in SUBSET DOMAIN Kids[c] |->
          IF s = {} THEN Begun(c) ELSE Passed(it[s \ {Max(s)}], Kids[c][Max(s)])]

LEMMA MaxChildForm ==
  ASSUME NEW c
  PROVE  MaxChild(c) = (CHOOSE it : PassTable(c, it))[DOMAIN Kids[c]].best
BY DEF MaxChild, FoldLeft, MapThenFoldSet, PassTable, Passed, Taken, Begun

LEMMA MaxIs ==
  ASSUME NEW l \in Nat, NEW s \in SUBSET (1 .. l), s # {}
  PROVE  Max(s) \in s /\ \A y \in s : Max(s) >= y
<1> DEFINE D == {l - x : x \in s}
<1>1. D \in SUBSET Nat /\ D # {}
  <2>1. \A x \in s : x \in Int /\ x <= l /\ l - x \in Nat
    OBVIOUS
  <2>2. D \in SUBSET Nat
    BY <2>1
  <2>3. PICK x : x \in s
    OBVIOUS
  <2>4. l - x \in D
    BY <2>3
  <2> QED BY <2>2, <2>4
<1>2. PICK d \in D : \A m \in D : d <= m
  <2> HIDE DEF D
  <2> QED BY <1>1, Least
<1>3. PICK x \in s : d = l - x
  OBVIOUS
<1>4. \A y \in s : x >= y
  <2> SUFFICES ASSUME NEW y \in s PROVE x >= y
    OBVIOUS
  <2>1. d <= l - y
    BY <1>2
  <2> QED BY <1>3, <2>1
<1> QED BY <1>4 DEF Max

Passes == [best : Nodes, max : Int, won : BOOLEAN, lost : BOOLEAN]

LEMMA PassedIs ==
  ASSUME emc \in [Nodes -> Int], NEW s \in Passes, NEW k \in Nodes
  PROVE  /\ Passed(s, k) \in Passes /\ Passed(s, k).best \in {s.best, k}
         /\ "W" \in flag[k] => Passed(s, k).lost = s.lost /\ (~ s.won => Passed(s, k) = s)
         /\ "W" \notin flag[k] => Passed(s, k).won = FALSE
         /\ "W" \notin flag[k] /\ "L" \in flag[k] => Passed(s, k).lost = TRUE /\ (~ s.lost => Passed(s, k).best = k)
         /\ "W" \notin flag[k] /\ "L" \notin flag[k] =>
              Passed(s, k).lost = s.lost /\ (s.lost => Passed(s, k).best = s.best)
<1>1. \A b \in BOOLEAN : /\ Taken(s, k, b) \in Passes /\ Taken(s, k, b).won = s.won /\ Taken(s, k, b).lost = s.lost
                        /\ Taken(s, k, b).best = (IF b THEN k ELSE s.best)
                        /\ (~ b => Taken(s, k, b) = s)
  BY DEF Taken, Passes
<1>2. PICK a \in BOOLEAN, b \in BOOLEAN, d \in BOOLEAN :
        /\ a = (s.won /\ emc[k] > s.max) /\ b = (~ s.lost \/ emc[k] > s.max) /\ d = (~ s.lost /\ emc[k] > s.max)
  OBVIOUS
<1>3. CASE "W" \in flag[k]
  <2>1. Passed(s, k) = Taken(s, k, a)
    BY <1>2, <1>3 DEF Passed
  <2> QED BY <1>1, <1>2, <1>3, <2>1
<1>4. CASE "W" \notin flag[k] /\ "L" \in flag[k]
  <2>1. Passed(s, k) = [Taken(s, k, b) EXCEPT !.won = FALSE, !.lost = TRUE]
    BY <1>2, <1>4 DEF Passed
  <2>2. PICK u \in Passes : u = Taken(s, k, b)
    BY <1>1
  <2>3. /\ Passed(s, k) \in Passes /\ Passed(s, k).won = FALSE /\ Passed(s, k).lost = TRUE
        /\ Passed(s, k).best = u.best
    BY <2>1, <2>2 DEF Passes
  <2> QED BY <1>1, <1>2, <1>4, <2>2, <2>3
<1>5. CASE "W" \notin flag[k] /\ "L" \notin flag[k]
  <2>1. Passed(s, k) = [Taken(s, k, d) EXCEPT !.won = FALSE]
    BY <1>2, <1>5 DEF Passed
  <2>2. PICK u \in Passes : u = Taken(s, k, d)
    BY <1>1
  <2>3. /\ Passed(s, k) \in Passes /\ Passed(s, k).won = FALSE /\ Passed(s, k).lost = u.lost
        /\ Passed(s, k).best = u.best
    BY <2>1, <2>2 DEF Passes
  <2> QED BY <1>1, <1>2, <1>5, <2>2, <2>3
<1> QED BY <1>3, <1>4, <1>5

(* The table of its passes exists: by induction on the size of the sets.    *)
LEMMA PassExists ==
  ASSUME emc \in [Nodes -> Int], NEW c \in Nodes, Kids[c] # << >>
  PROVE  \E it : PassTable(c, it)
<1> DEFINE D == DOMAIN Kids[c]
           Is(h, s) == h[s] = IF s = {} THEN Begun(c) ELSE Passed(h[s \ {Max(s)}], Kids[c][Max(s)])
           Small(k) == {s \in SUBSET D : Cardinality(s) <= k}
           Has(k) == \E h \in [SUBSET D -> Passes] : \A s \in Small(k) : Is(h, s)
           Bad == {k \in Nat : ~ Has(k)}
<1>1. D = 1 .. Len(Kids[c]) /\ Len(Kids[c]) \in Nat /\ \A i \in D : Kids[c][i] \in Nodes
  BY TreeAssumption
<1>2. IsFiniteSet(D)
  BY <1>1, FS_Interval
<1>3. \A s \in SUBSET D : IsFiniteSet(s) /\ Cardinality(s) \in Nat /\ (Cardinality(s) = 0 <=> s = {})
  BY <1>2, FS_Subset, FS_CardinalityType, FS_EmptySet
<1>4. \A s \in SUBSET D : s # {} => Max(s) \in s
  BY <1>1, MaxIs
<1>5. \A s \in SUBSET D : s # {} => s \ {Max(s)} \in SUBSET D /\ Cardinality(s \ {Max(s)}) = Cardinality(s) - 1
  BY <1>3, <1>4, FS_RemoveElement
<1>6. Begun(c) \in Passes
  <2>1. Kids[c][1] \in Nodes
    BY <1>1
  <2> QED BY <2>1 DEF Begun, Passes
<1>7. \A u \in Passes, i \in D : Passed(u, Kids[c][i]) \in Passes
  BY <1>1, PassedIs
<1> HIDE DEF D
<1>8. Has(0)
  <2> DEFINE h == [s \in SUBSET D |-> Begun(c)]
  <2>1. \A s \in Small(0) : s = {}
    BY <1>3
  <2>2. h \in [SUBSET D -> Passes] /\ \A s \in Small(0) : Is(h, s)
    BY <1>6, <2>1
  <2> QED BY <2>2
<1>9. ASSUME NEW k \in Nat, k # 0, Has(k - 1) PROVE Has(k)
  <2>1. PICK h \in [SUBSET D -> Passes] : \A s \in Small(k - 1) : Is(h, s)
    BY <1>9
  <2> DEFINE g == [s \in SUBSET D |-> IF s \in Small(k - 1) THEN h[s]
                                       ELSE Passed(h[s \ {Max(s)}], Kids[c][Max(s)])]
  <2>2. g \in [SUBSET D -> Passes]
    <3> SUFFICES ASSUME NEW s \in SUBSET D, s \notin Small(k - 1)
                 PROVE  Passed(h[s \ {Max(s)}], Kids[c][Max(s)]) \in Passes
      BY <2>1
    <3>1. s # {}
      BY <1>3, <1>9
    <3>2. Max(s) \in D /\ h[s \ {Max(s)}] \in Passes
      BY <1>4, <3>1
    <3> QED BY <1>7, <3>2
  <2>3. ASSUME NEW s \in Small(k) PROVE Is(g, s)
    <3>1. s \in SUBSET D /\ Cardinality(s) \in Nat /\ Cardinality(s) <= k
      BY <1>3
    <3>2. CASE s = {}
      <4>1. s \in Small(k - 1)
        BY <1>3, <1>9, <3>1, <3>2
      <4> HIDE DEF Small
      <4> QED BY <2>1, <3>1, <3>2, <4>1
    <3>3. CASE s # {}
      <4>1. s \ {Max(s)} \in Small(k - 1)
        BY <1>3, <1>5, <1>9, <3>1, <3>3
      <4>2. g[s \ {Max(s)}] = h[s \ {Max(s)}]
        BY <4>1
      <4>3. g[s] = Passed(h[s \ {Max(s)}], Kids[c][Max(s)])
        <5> HIDE DEF Small
        <5> QED BY <2>1, <3>1, <3>3
      <4> HIDE DEF g, Small
      <4> QED BY <3>3, <4>2, <4>3
    <3> QED BY <3>2, <3>3
  <2> HIDE DEF g
  <2> QED BY <2>2, <2>3
<1> HIDE DEF Has
<1>10. Bad = {}
  <2> SUFFICES ASSUME Bad # {} PROVE FALSE
    OBVIOUS
  <2>1. Bad \in SUBSET Nat
    OBVIOUS
  <2> HIDE DEF Bad
  <2>2. PICK k \in Bad : \A m \in Bad : k <= m
    BY <2>1, Least
  <2>3. k \in Nat /\ ~ Has(k) /\ k # 0
    BY <1>8, <2>2 DEF Bad
  <2>4. k - 1 \in Nat /\ ~ (k <= k - 1)
    BY <2>3
  <2>5. Has(k - 1)
    BY <2>2, <2>4 DEF Bad
  <2> QED BY <1>9, <2>3, <2>5
<1>11. Cardinality(D) \in Nat /\ Has(Cardinality(D))
  BY <1>3, <1>10
<1>12. PICK h \in [SUBSET D -> Passes] : \A s \in Small(Cardinality(D)) : Is(h, s)
  BY <1>11 DEF Has
<1>13. \A s \in SUBSET D : s \in Small(Cardinality(D))
  BY <1>2, FS_Subset
<1>14. \A s \in SUBSET D : Is(h, s)
  <2> HIDE DEF Small
  <2> QED BY <1>12, <1>13
<1>15. PassTable(c, h)
  BY <1>12, <1>14 DEF PassTable, D
<1> QED BY <1>15

(* The move it takes is one of the node's, and one to a lost position if    *)
(* there is one.                                                            *)
LEMMA MaxChildIs ==
  ASSUME emc \in [Nodes -> Int], NEW c \in Nodes, Kids[c] # << >>
  PROVE  /\ MaxChild(c) \in KidSet(c)
         /\ (\E k \in KidSet(c) : "L" \in flag[k] /\ "W" \notin flag[k])
              => "L" \in flag[MaxChild(c)] /\ "W" \notin flag[MaxChild(c)]
<1>1. PICK l \in Nat \ {0} : l = Len(Kids[c]) /\ DOMAIN Kids[c] = 1 .. l
  BY TreeAssumption
<1>2. KidSet(c) = {Kids[c][i] : i \in 1 .. l} /\ \A i \in 1 .. l : Kids[c][i] \in Nodes
  BY <1>1, TreeAssumption DEF KidSet, Range
<1>3. PICK it : PassTable(c, it) /\ it = (CHOOSE h : PassTable(c, h))
  BY PassExists
<1>4. MaxChild(c) = it[1 .. l].best
  BY <1>1, <1>3, MaxChildForm
<1> DEFINE Won(k) == "L" \in flag[k] /\ "W" \notin flag[k]
           Good(n) == /\ it[1 .. n] \in Passes
                      /\ it[1 .. n].best \in KidSet(c)
                      /\ (\E i \in 1 .. n : Won(Kids[c][i])) =>
                           it[1 .. n].lost /\ ~ it[1 .. n].won /\ Won(it[1 .. n].best)
                      /\ it[1 .. n].lost => \E i \in 1 .. n : Won(Kids[c][i])
           Bad == {n \in 0 .. l : ~ Good(n)}
<1>5. Good(0)
  <2>1. 1 .. 0 = {} /\ 1 \in 1 .. l
    BY <1>1
  <2>2. it[{}] = Begun(c)
    BY <1>3 DEF PassTable
  <2>3. Begun(c) \in Passes /\ Begun(c).best \in KidSet(c) /\ ~ Begun(c).lost
    BY <1>2, <2>1 DEF Begun, Passes
  <2> QED BY <2>1, <2>2, <2>3
<1>6. ASSUME NEW n \in 1 .. l, Good(n - 1) PROVE Good(n)
  <2>1. n \in Nat /\ n - 1 \in 0 .. l /\ 1 .. n \in SUBSET (1 .. l) /\ n \in 1 .. n
    OBVIOUS
  <2>2. Max(1 .. n) = n /\ 1 .. n # {}
    <3>1. 1 .. n # {} /\ Max(1 .. n) \in 1 .. n /\ Max(1 .. n) >= n
      BY <2>1, MaxIs
    <3>2. PICK m \in 1 .. n : m = Max(1 .. n)
      BY <3>1
    <3>3. m = n
      BY <2>1, <3>1, <3>2
    <3> QED BY <3>1, <3>2, <3>3
  <2>3. (1 .. n) \ {n} = 1 .. (n - 1)
    BY <2>1
  <2>4. it[1 .. n] = Passed(it[1 .. (n - 1)], Kids[c][n])
    <3>1. 1 .. n \in SUBSET DOMAIN Kids[c]
      BY <1>1, <2>1
    <3>2. it[1 .. n] = Passed(it[(1 .. n) \ {Max(1 .. n)}], Kids[c][Max(1 .. n)])
      BY <1>3, <2>2, <3>1 DEF PassTable
    <3> QED BY <2>2, <2>3, <3>2
  <2>5. PICK s \in Passes, k \in Nodes : s = it[1 .. (n - 1)] /\ k = Kids[c][n] /\ k \in KidSet(c)
    BY <1>2, <1>6
  <2>6. /\ s.best \in KidSet(c) /\ s.won \in BOOLEAN /\ s.lost \in BOOLEAN
        /\ (\E i \in 1 .. n - 1 : Won(Kids[c][i])) => s.lost /\ ~ s.won /\ Won(s.best)
        /\ s.lost => \E i \in 1 .. n - 1 : Won(Kids[c][i])
    BY <1>6, <2>5 DEF Passes
  <2>7. (\E i \in 1 .. n : Won(Kids[c][i])) <=> (\E i \in 1 .. n - 1 : Won(Kids[c][i])) \/ Won(k)
    <3>1. 1 .. n = (1 .. n - 1) \cup {n}
      BY <2>1
    <3> QED BY <2>5, <3>1
  <2>8. PICK u : u = Passed(s, k) /\ u = it[1 .. n]
    BY <2>4, <2>5
  <2>9. /\ u \in Passes /\ u.best \in {s.best, k}
        /\ "W" \in flag[k] => u.lost = s.lost /\ (~ s.won => u = s)
        /\ "W" \notin flag[k] => u.won = FALSE
        /\ Won(k) => u.lost = TRUE /\ (~ s.lost => u.best = k)
        /\ "W" \notin flag[k] /\ "L" \notin flag[k] => u.lost = s.lost /\ (s.lost => u.best = s.best)
    <3>1. /\ Passed(s, k) \in Passes /\ Passed(s, k).best \in {s.best, k}
          /\ "W" \in flag[k] => Passed(s, k).lost = s.lost /\ (~ s.won => Passed(s, k) = s)
          /\ "W" \notin flag[k] => Passed(s, k).won = FALSE
          /\ "W" \notin flag[k] /\ "L" \in flag[k] =>
               Passed(s, k).lost = TRUE /\ (~ s.lost => Passed(s, k).best = k)
          /\ "W" \notin flag[k] /\ "L" \notin flag[k] =>
               Passed(s, k).lost = s.lost /\ (s.lost => Passed(s, k).best = s.best)
      BY PassedIs
    <3> QED BY <2>8, <3>1
  <2>10. u.best \in KidSet(c)
    BY <2>5, <2>6, <2>9
  <2>11. u.lost => s.lost \/ Won(k)
    BY <2>9
  <2>12. ASSUME s.lost \/ Won(k) PROVE u.lost /\ ~ u.won /\ Won(u.best)
    <3>1. s.lost => ~ s.won /\ Won(s.best)
      BY <2>6
    <3>2. CASE "W" \in flag[k]
      BY <2>9, <2>12, <3>1, <3>2
    <3>3. CASE Won(k)
      BY <2>9, <3>1, <3>3
    <3>4. CASE "W" \notin flag[k] /\ "L" \notin flag[k]
      BY <2>9, <2>12, <3>1, <3>4
    <3> QED BY <3>2, <3>3, <3>4
  <2>13. s.lost <=> \E i \in 1 .. n - 1 : Won(Kids[c][i])
    BY <2>6
  <2> HIDE DEF Won
  <2> QED BY <2>7, <2>8, <2>9, <2>10, <2>11, <2>12, <2>13
<1> HIDE DEF Good
<1>7. Bad = {}
  <2> SUFFICES ASSUME Bad # {} PROVE FALSE
    OBVIOUS
  <2>1. Bad \in SUBSET Nat
    OBVIOUS
  <2>2. PICK n \in Bad : \A m \in Bad : n <= m
    <3> HIDE DEF Bad
    <3> QED BY <2>1, Least
  <2>3. n # 0 /\ n \in 0 .. l
    BY <1>5, <2>2
  <2>4. n \in 1 .. l /\ n - 1 \in 0 .. l /\ ~ (n <= n - 1)
    BY <2>3
  <2> QED BY <1>6, <2>2, <2>4
<1>8. Good(l)
  BY <1>1, <1>7
<1>9. ASSUME NEW k \in KidSet(c), Won(k) PROVE \E i \in 1 .. l : Won(Kids[c][i])
  BY <1>2, <1>9
<1> QED BY <1>4, <1>8, <1>9 DEF Good

(* get_pv: the function Pv chooses.                                         *)
Step(it, n)  == IF n \in created /\ HasChildren(n) THEN <<n>> \o it[MaxChild(n)] ELSE <<n>>
PvTable(it)  == it = [n \in Nodes |-> Step(it, n)]
Kept(n, l)   == /\ l \in Seq(Nodes) /\ l # << >> /\ l[1] = n
                /\ \A i \in 1 .. Len(l) - 1 : l[i + 1] \in KidSet(l[i])

LEMMA PvForm == ASSUME NEW k PROVE Pv(k) = (CHOOSE it : PvTable(it))[k]
BY DEF Pv, PvTable, Step

LEMMA PlyBound ==
  ASSUME IsFiniteSet(created), created \in SUBSET Nodes
  PROVE  \E b \in Nat : \A n \in created : Ply[n] < b
<1> DEFINE X == {s \in SUBSET created : \E b \in Nat : \A n \in s : Ply[n] < b}
<1>1. {} \in X
  OBVIOUS
<1>2. ASSUME NEW s \in SUBSET created, s # {}, s \ {OneOf(s)} \in X PROVE s \in X
  <2>1. PICK b \in Nat : \A n \in s \ {OneOf(s)} : Ply[n] < b
    BY <1>2
  <2>2. PICK a \in s : a = OneOf(s)
    BY <1>2 DEF OneOf
  <2>3. Ply[a] \in Nat /\ \A n \in s : Ply[n] \in Nat
    BY PlyAssumption
  <2>4. PICK d \in Nat : d > Ply[a] /\ d >= b
    <3>1. b + Ply[a] + 1 \in Nat /\ b + Ply[a] + 1 > Ply[a] /\ b + Ply[a] + 1 >= b
      BY <2>3
    <3> QED BY <3>1
  <2>5. \A n \in s : Ply[n] < d
    BY <2>1, <2>2, <2>3, <2>4
  <2> QED BY <2>5
<1>3. created \in X
  <2> HIDE DEF X
  <2> QED BY <1>1, <1>2, SetInduction
<1> QED BY <1>3

LEMMA MaxChildBelow ==
  ASSUME emc \in [Nodes -> Int], NEW n \in Nodes, HasChildren(n)
  PROVE  MaxChild(n) \in KidSet(n) /\ MaxChild(n) \in Nodes /\ Ply[MaxChild(n)] = Ply[n] + 1
BY MaxChildIs, KidSetIs, PlyAssumption DEF HasChildren

(* The table of the lines exists: from the deepest nodes up.                *)
LEMMA PvExists ==
  ASSUME IsFiniteSet(created), created \in SUBSET Nodes, emc \in [Nodes -> Int]
  PROVE  \E it : PvTable(it)
<1>1. PICK b \in Nat : \A n \in created : Ply[n] < b
  BY PlyBound
<1> DEFINE Has(k) == \E h : \A n \in Nodes : Ply[n] + k >= b => h[n] = Step(h, n)
           Bad == {k \in Nat : ~ Has(k)}
<1>2. \A n \in Nodes : Ply[n] \in Nat
  BY PlyAssumption
<1>3. Has(0)
  <2> DEFINE h == [n \in Nodes |-> <<n>>]
  <2>1. \A n \in Nodes : Ply[n] + 0 >= b => n \notin created
    BY <1>1, <1>2
  <2>2. \A n \in Nodes : Ply[n] + 0 >= b => h[n] = Step(h, n)
    BY <2>1 DEF Step
  <2> QED BY <2>2
<1>4. ASSUME NEW k \in Nat, Has(k) PROVE Has(k + 1)
  <2>1. PICK h : \A n \in Nodes : Ply[n] + k >= b => h[n] = Step(h, n)
    BY <1>4
  <2> DEFINE g == [n \in Nodes |-> Step(h, n)]
  <2>2. ASSUME NEW n \in Nodes, Ply[n] + (k + 1) >= b PROVE g[n] = Step(g, n)
    <3>1. CASE n \in created /\ HasChildren(n)
      <4>1. PICK m \in Nodes : m = MaxChild(n) /\ Ply[m] = Ply[n] + 1
        BY <3>1, MaxChildBelow
      <4>2. Ply[m] + k >= b
        BY <1>2, <2>2, <4>1
      <4>3. g[m] = h[m]
        BY <2>1, <4>2
      <4> QED BY <3>1, <4>1, <4>3 DEF Step
    <3>2. CASE ~ (n \in created /\ HasChildren(n))
      BY <3>2 DEF Step
    <3> QED BY <3>1, <3>2
  <2> HIDE DEF g
  <2> QED BY <2>2
<1> HIDE DEF Has
<1>5. Bad = {}
  <2> SUFFICES ASSUME Bad # {} PROVE FALSE
    OBVIOUS
  <2>1. Bad \in SUBSET Nat
    OBVIOUS
  <2>2. PICK k \in Bad : \A m \in Bad : k <= m
    <3> HIDE DEF Bad
    <3> QED BY <2>1, Least
  <2>3. k # 0 /\ k \in Nat
    BY <1>3, <2>2
  <2>4. k - 1 \in Nat /\ ~ (k <= k - 1) /\ (k - 1) + 1 = k
    BY <2>3
  <2>5. Has(k - 1)
    BY <2>2, <2>4
  <2>6. Has((k - 1) + 1)
    BY <1>4, <2>4, <2>5
  <2> QED BY <2>2, <2>4, <2>6
<1>6. PICK h : \A n \in Nodes : Ply[n] + b >= b => h[n] = Step(h, n)
  <2>1. Has(b)
    BY <1>5
  <2> QED BY <2>1 DEF Has
<1>7. \A n \in Nodes : h[n] = Step(h, n)
  BY <1>2, <1>6
<1> DEFINE g == [n \in Nodes |-> h[n]]
<1>8. ASSUME NEW n \in Nodes PROVE g[n] = Step(g, n)
  <2>1. CASE n \in created /\ HasChildren(n)
    <3>1. g[MaxChild(n)] = h[MaxChild(n)]
      BY <2>1, MaxChildBelow
    <3> QED BY <1>7, <2>1, <3>1 DEF Step
  <2>2. CASE ~ (n \in created /\ HasChildren(n))
    BY <1>7, <2>2 DEF Step
  <2> QED BY <2>1, <2>2
<1>9. g = [n \in Nodes |-> g[n]]
  OBVIOUS
<1> HIDE DEF g
<1>10. PvTable(g)
  BY <1>8, <1>9 DEF PvTable
<1> QED BY <1>10

(* The line it prints starts with its move and goes on by moves.            *)
LEMMA PvIs ==
  ASSUME IsFiniteSet(created), created \in SUBSET Nodes, emc \in [Nodes -> Int], NEW k \in Nodes
  PROVE  Kept(k, Pv(k))
<1>1. PICK b \in Nat : \A n \in created : Ply[n] < b
  BY PlyBound
<1>2. PICK it : PvTable(it) /\ it = (CHOOSE h : PvTable(h))
  BY PvExists
<1>3. \A n \in Nodes : it[n] = Step(it, n)
  <2>1. it = [n \in Nodes |-> Step(it, n)]
    BY <1>2 DEF PvTable
  <2> QED BY <2>1
<1> DEFINE Good(j) == \A n \in Nodes : Ply[n] + j >= b => Kept(n, it[n])
           Bad == {j \in Nat : ~ Good(j)}
<1>4. \A n \in Nodes : Ply[n] \in Nat
  BY PlyAssumption
<1>5. ASSUME NEW n \in Nodes, ~ (n \in created /\ HasChildren(n)) PROVE Kept(n, it[n])
  <2>1. it[n] = <<n>>
    BY <1>3, <1>5 DEF Step
  <2> QED BY <2>1 DEF Kept
<1>6. Good(0)
  BY <1>1, <1>4, <1>5
<1>7. ASSUME NEW j \in Nat, Good(j) PROVE Good(j + 1)
  <2> SUFFICES ASSUME NEW n \in Nodes, Ply[n] + (j + 1) >= b, n \in created, HasChildren(n) PROVE Kept(n, it[n])
    BY <1>5
  <2>1. PICK m \in KidSet(n) : m \in Nodes /\ m = MaxChild(n) /\ Ply[m] = Ply[n] + 1
    BY MaxChildBelow
  <2>2. Kept(m, it[m])
    BY <1>4, <1>7, <2>1
  <2>3. PICK l \in Seq(Nodes) : l = it[m] /\ it[n] = <<n>> \o l
    BY <1>3, <2>1, <2>2 DEF Step, Kept
  <2>4. /\ l # << >> /\ l[1] = m /\ Len(l) \in Nat /\ Len(l) > 0
        /\ \A i \in 1 .. Len(l) - 1 : l[i + 1] \in KidSet(l[i])
    <3>1. Kept(m, l)
      BY <2>2, <2>3
    <3>2. l # << >> /\ l[1] = m /\ \A i \in 1 .. Len(l) - 1 : l[i + 1] \in KidSet(l[i])
      BY <3>1 DEF Kept
    <3>3. Len(l) \in Nat /\ Len(l) # 0
      BY <3>2
    <3>4. Len(l) > 0
      BY <3>3
    <3> QED BY <3>2, <3>3, <3>4
  <2>5. PICK q \in Seq(Nodes) : q = <<n>> \o l
    <3>1. <<n>> \in Seq(Nodes)
      OBVIOUS
    <3>2. <<n>> \o l \in Seq(Nodes)
      BY <3>1
    <3> QED BY <3>2
  <2>6. Len(q) = Len(l) + 1 /\ q[1] = n /\ \A i \in 1 .. Len(l) : q[i + 1] = l[i]
    BY <2>4, <2>5
  <2>7. ASSUME NEW i \in 1 .. Len(q) - 1 PROVE q[i + 1] \in KidSet(q[i])
    <3>1. i \in 1 .. Len(l) /\ q[i + 1] = l[i]
      BY <2>4, <2>6
    <3>2. CASE i = 1
      BY <2>1, <2>4, <2>6, <3>1, <3>2
    <3>3. CASE i # 1
      <4>1. i - 1 \in 1 .. Len(l) - 1 /\ i - 1 \in 1 .. Len(l) /\ (i - 1) + 1 = i
        BY <2>4, <3>1, <3>3
      <4>2. l[i] \in KidSet(l[i - 1]) /\ q[i] = l[i - 1]
        BY <2>4, <2>6, <4>1
      <4> QED BY <3>1, <4>2
    <3> QED BY <3>2, <3>3
  <2> QED BY <2>3, <2>4, <2>5, <2>6, <2>7 DEF Kept
<1> HIDE DEF Good
<1>8. Bad = {}
  <2> SUFFICES ASSUME Bad # {} PROVE FALSE
    OBVIOUS
  <2>1. Bad \in SUBSET Nat
    OBVIOUS
  <2>2. PICK j \in Bad : \A m \in Bad : j <= m
    <3> HIDE DEF Bad
    <3> QED BY <2>1, Least
  <2>3. j # 0 /\ j \in Nat
    BY <1>6, <2>2
  <2>4. j - 1 \in Nat /\ ~ (j <= j - 1) /\ (j - 1) + 1 = j
    BY <2>3
  <2>5. Good((j - 1) + 1)
    BY <1>7, <2>2, <2>4
  <2> QED BY <2>2, <2>4, <2>5
<1>9. Good(b)
  BY <1>8
<1>10. Kept(k, it[k])
  <2>1. Ply[k] + b >= b
    BY <1>4
  <2> QED BY <1>9, <2>1 DEF Good
<1> QED BY <1>2, <1>10, PvForm

-----------------------------------------------------------------------------
(* What stochastic pondering goes on to.                                    *)
LEMMA RatedGoOn ==
  ASSUME IInv, EInv, Rated, emc \in [Nodes -> Int], NEW h \in Nodes, GoOn(h)
  PROVE  Rated'
<1>1. Genmove(h, TRUE) /\ onward' /\ h = MaxChild(head) /\ searches > 0 /\ Kids[h] # << >>
  BY DEF GoOn, Genmove
<1>2. h \in KidSet(head) /\ head \in Nodes
  BY <1>1, MaxChildIs DEF IInv, FlagTypes, PathInv, HasChildren
<1>3. h # head /\ h # Root
  <2>1. h # Root
    BY <1>2, TreeAssumption DEF KidSet, Range
  <2>2. Ply[h] = Ply[head] + 1 /\ Ply[head] \in Nat
    BY <1>2, PlyAssumption
  <2> QED BY <2>1, <2>2
<1>4. IsEvaled(h)' => h \in rated' \/ (Skipped(h)' /\ h # Root /\ flag'[h] # {})
  <2> SUFFICES ASSUME IsEvaled(h)', h \notin rated'
               PROVE  Skipped(h)' /\ flag'[h] # {}
    BY <1>3
  <2>1. /\ h \in created /\ IsEvaled(h) /\ h \notin rated /\ flag'[h] = flag[h]
    BY <1>1, KeptHead
  <2>2. flag[h] # {} /\ Decided(h)
    BY <1>3, <2>1 DEF Rated
  <2>3. head' = h
    BY <1>1 DEF Genmove
  <2> QED BY <1>1, <2>1, <2>2, <2>3 DEF Skipped, Decided
<1> QED BY <1>1, <1>4, RatedGenmove

(* A playout selects only in a node that has children, is evaluated and     *)
(* whose children the network has rated, but for a head that stochastic     *)
(* pondering went on to through a move a repetition or a mate has decided.  *)
THEOREM PlayoutsAreReady == Spec => []SelectsReady
<1>1. Init => Rated
  BY TreeAssumption DEF Init, Rated, IsEvaled
<1>2. IInv /\ IInv' /\ EInv /\ SInv /\ Rated /\ [Next]_vars => Rated'
  <2> SUFFICES ASSUME IInv, IInv', EInv, SInv, Rated, [Next]_vars PROVE Rated'
    OBVIOUS
  <2>1. ASSUME UNCHANGED <<head, created, rated, nmc, flag, onward, pc, path>> PROVE Rated'
    <3>1. \A t \in Threads : Current(t)' = Current(t)
      BY <2>1 DEF Current, End
    <3> QED BY <2>1, <3>1 DEF Rated, HeadReady, IsEvaled, Skipped, Decided
  <2>2. CASE UNCHANGED vars \/ Ended
    BY <2>1, <2>2 DEF vars, tree, stats, control, Ended
  <2>3. ASSUME NEW h \in Nodes, Go(h) \/ GoOn(h) PROVE Rated'
    BY <2>3, RatedGo, RatedGoOn DEF SInv, StatTypes
  <2>4. ASSUME NEW t \in Threads, Thread(t) PROVE Rated'
    BY <2>4, RatedThread
  <2>5. CASE StopUctSearch \/ PonderHit
    BY <2>1, <2>5 DEF StopUctSearch, PonderHit, tree, stats
  <2>6. ASSUME NEW n \in Nodes \ {Root}, PvMateFound(n) PROVE Rated'
    <3>1. /\ UNCHANGED <<head, created, rated, nmc, onward, pc, path>>
          /\ \E lost \in {{}, {"D"}} : flag' = [flag EXCEPT ![n] = (@ \ lost) \cup {"W"}]
      BY <2>6 DEF PvMateFound, stats, control
    <3>2. \A m \in Nodes : flag[m] # {} => flag'[m] # {}
      BY <3>1 DEF IInv, FlagTypes
    <3>3. \A t \in Threads : Current(t)' = Current(t) /\ Current(t) \in Nodes
      BY <3>1, CurrentInNodes DEF Current, End, IInv
    <3>4. created \in SUBSET Nodes /\ head \in Nodes
      BY DEF EInv, BatchTypes, IInv, FlagTypes
    <3>5. \A n2 \in Nodes : Skipped(n2)' = Skipped(n2) /\ IsEvaled(n2)' = IsEvaled(n2)
      BY <3>1 DEF Skipped, IsEvaled
    <3> QED BY <3>1, <3>2, <3>3, <3>4, <3>5 DEF Rated, HeadReady, Decided
  <2> QED BY <2>2, <2>3, <2>4, <2>5, <2>6 DEF Next
<1>3. IInv /\ EInv /\ Rated => SelectsReady
  BY DEF IInv, PathInv, EInv, Entered, Rated, SelectsReady
<1> QED BY <1>1, <1>2, <1>3, Inductive, Evaluation, Bookkeeping, PTL DEF Spec

-----------------------------------------------------------------------------
(* The inductive invariant behind WinIsPlayed, next to IInv, EInv and SInv. *)
(* A move that loses for the opponent was made, or is above the head; and   *)
(* every move made below the head keeps one visit more than the playouts    *)
(* that go through it and may still be discarded, so that the return of     *)
(* virtual losses never takes it back to none.                              *)
Drops(t, n) ==
  Bit(pc[t] \in {"select", "descend"} /\ path[t] \in Through(n))
  + (IF pc[t] \in {"backup", "check"} THEN 0 ELSE Count(discard[t], Through(n)))
AllDrops(n) == SumFunction([t \in Threads |-> Drops(t, n)])
Visited     == \A n \in created \ {head} : emc[n] >= 1 + AllDrops(n)
LostMade    == \A n \in Nodes : "L" \in flag[n] => n \in created \/ Ply[n] <= Ply[head]
KInv        == IsFiniteSet(created) /\ LostMade /\ Visited

DropsAreNat == /\ \A t \in Threads : \A n : Drops(t, n) \in Nat
               /\ \A n : AllDrops(n) \in Nat

LEMMA DropsForm == BatchTypes => DropsAreNat
<1> SUFFICES ASSUME BatchTypes PROVE DropsAreNat
  OBVIOUS
<1>1. ASSUME NEW t \in Threads, NEW n PROVE Drops(t, n) \in Nat
  <2>1. discard[t] \in Seq(Seq(Nodes))
    BY DEF BatchTypes
  <2>2. Len(discard[t]) \in Nat /\ DOMAIN discard[t] = 1 .. Len(discard[t])
    BY <2>1
  <2>3. PICK a \in Nat, b \in Nat : a = Bit(pc[t] \in {"select", "descend"} /\ path[t] \in Through(n))
                                    /\ b = Count(discard[t], Through(n))
    BY <2>2, CountIs DEF Bit
  <2> QED BY <2>3 DEF Drops
<1>2. ASSUME NEW n PROVE AllDrops(n) \in Nat
  <2> DEFINE f == [t \in Threads |-> Drops(t, n)]
  <2>1. DOMAIN f = Threads /\ \A t \in Threads : f[t] \in Nat
    BY <1>1
  <2>2. AllDrops(n) = SumFunction(f)
    BY DEF AllDrops
  <2> HIDE DEF f
  <2>3. SumFunctionOnSet(f, Threads) \in Nat
    BY <2>1, SumNat, ThreadsAssumption
  <2> QED BY <2>1, <2>2, <2>3 DEF SumFunction
<1> QED BY <1>1, <1>2 DEF DropsAreNat

LEMMA DropsFormNext == BatchTypes' => DropsAreNat'
BY DropsForm, PTL

LEMMA DropsChange ==
  ASSUME BatchTypes, BatchTypes', NEW t \in Threads, Others(t), NEW n
  PROVE  AllDrops(n)' = AllDrops(n) + (Drops(t, n)' - Drops(t, n))
<1>1. DropsAreNat /\ DropsAreNat'
  BY DropsForm, DropsFormNext
<1>2. \A s \in Threads \ {t} : Drops(s, n)' = Drops(s, n)
  BY DEF Others, Drops
<1> DEFINE f == [s \in Threads |-> Drops(s, n)]
           g == [s \in Threads |-> Drops(s, n)']
<1>3. /\ DOMAIN f = Threads /\ DOMAIN g = Threads
      /\ \A s \in Threads : f[s] = Drops(s, n) /\ g[s] = Drops(s, n)'
  OBVIOUS
<1>4. AllDrops(n) = SumFunctionOnSet(f, Threads) /\ AllDrops(n)' = SumFunctionOnSet(g, Threads)
  BY <1>3 DEF AllDrops, SumFunction
<1> HIDE DEF f, g
<1>5. \A s \in Threads : f[s] \in Int /\ g[s] \in Int
  BY <1>1, <1>3 DEF DropsAreNat
<1> QED BY <1>2, <1>3, <1>4, <1>5, SumDiff, ThreadsAssumption

(* A step that changes no visit keeps Visited if its thread may discard no  *)
(* more than before.                                                        *)
LEMMA VisitedKept ==
  ASSUME EInv, EInv', SInv, Visited, NEW t \in Threads, Others(t), UNCHANGED <<head, created, emc>>,
         \A n \in created \ {head} : Drops(t, n)' <= Drops(t, n)
  PROVE  Visited'
<1> SUFFICES ASSUME NEW n \in created \ {head} PROVE emc'[n] >= 1 + AllDrops(n)'
  BY DEF Visited
<1>0. BatchTypes /\ BatchTypes'
  BY DEF EInv
<1>1. PICK a \in Nat, b \in Nat, d \in Nat, e \in Nat :
        a = AllDrops(n) /\ b = AllDrops(n)' /\ d = Drops(t, n) /\ e = Drops(t, n)'
  BY <1>0, DropsForm, DropsFormNext DEF DropsAreNat
<1>2. b = a + (e - d) /\ e <= d
  BY <1>0, <1>1, DropsChange
<1>3. PICK x \in Int : x = emc[n] /\ x = emc'[n]
  BY DEF SInv, StatTypes, EInv, BatchTypes
<1>4. x >= 1 + a
  BY <1>1, <1>3 DEF Visited
<1>5. x >= 1 + b
  BY <1>2, <1>4
<1> QED BY <1>1, <1>3, <1>5

(* Threads that neither move on nor discard.                                *)
LEMMA DropsSame ==
  ASSUME NEW t \in Threads, UNCHANGED <<path, discard>>,
         pc[t] \in {"backup", "check"} <=> pc'[t] \in {"backup", "check"},
         pc'[t] \in {"select", "descend"} => pc[t] \in {"select", "descend"} \/ path[t] = << >>,
         BatchTypes, NEW n
  PROVE  Drops(t, n)' <= Drops(t, n)
<1>1. path' = path /\ discard' = discard
  OBVIOUS
<1>2. discard[t] \in Seq(Seq(Nodes))
  BY DEF BatchTypes
<1>3. Len(discard[t]) \in Nat /\ DOMAIN discard[t] = 1 .. Len(discard[t])
  BY <1>2
<1>4. PICK c \in Nat : c = (IF pc[t] \in {"backup", "check"} THEN 0 ELSE Count(discard[t], Through(n)))
  BY <1>3, CountIs
<1>5. << >> \notin Through(n)
  BY DEF Through, Range
<1>6. PICK a \in {0, 1}, b \in {0, 1} :
        /\ a = Bit(pc[t] \in {"select", "descend"} /\ path[t] \in Through(n))
        /\ b = Bit(pc'[t] \in {"select", "descend"} /\ path[t] \in Through(n))
  BY DEF Bit
<1>7. b <= a
  BY <1>5, <1>6 DEF Bit
<1>8. Drops(t, n) = a + c
  BY <1>4, <1>6 DEF Drops
<1>9. Drops(t, n)' = b + c
  BY <1>1, <1>4, <1>6 DEF Drops
<1> QED BY <1>7, <1>8, <1>9

LEMMA PlainVisited ==
  ASSUME IInv, EInv, EInv', SInv, Visited, NEW t \in Threads,
         EvalRoot(t) \/ LeafDecided(t) \/ SetLeafEvaled(t) \/ Descend(t) \/ EvalNode(t) \/ EvalDone(t) \/ Backup(t)
  PROVE  Visited'
<1>1. UNCHANGED <<head, created, emc, path, discard>>
  BY DEF EvalRoot, LeafDecided, SetLeafEvaled, Descend, EvalNode, EvalDone, Backup, tree, stats, control, batch
<1>2. \E q \in Controls :
        /\ pc' = [pc EXCEPT ![t] = q]
        /\ pc[t] \in {"backup", "check"} <=> q \in {"backup", "check"}
        /\ q \in {"select", "descend"} => pc[t] \in {"select", "descend"} \/ path[t] = << >>
  <2>1. pc \in [Threads -> Controls] /\ (pc[t] = "root" => path[t] = << >>)
    BY DEF IInv, FlagTypes, PathInv
  <2>2. CASE EvalRoot(t)
    BY <2>1, <2>2 DEF EvalRoot, Controls
  <2>3. CASE LeafDecided(t) \/ SetLeafEvaled(t)
    BY <2>1, <2>3 DEF LeafDecided, SetLeafEvaled, Controls
  <2>4. CASE Descend(t)
    BY <2>1, <2>4 DEF Descend, Controls
  <2>5. CASE EvalNode(t)
    <3>1. pc' = [pc EXCEPT ![t] = pc[t]] /\ pc[t] = "eval"
      BY <2>1, <2>5 DEF EvalNode
    <3> QED BY <3>1 DEF Controls
  <2>6. CASE EvalDone(t) \/ Backup(t)
    BY <2>1, <2>6 DEF EvalDone, Backup, Controls
  <2> QED BY <2>2, <2>3, <2>4, <2>5, <2>6
<1>3. PICK q \in Controls :
        /\ pc' = [pc EXCEPT ![t] = q]
        /\ pc[t] \in {"backup", "check"} <=> q \in {"backup", "check"}
        /\ q \in {"select", "descend"} => pc[t] \in {"select", "descend"} \/ path[t] = << >>
  BY <1>2
<1>4. pc'[t] = q /\ \A s \in Threads \ {t} : pc'[s] = pc[s]
  BY <1>3 DEF IInv, FlagTypes
<1>5. Others(t)
  <2>1. \A s \in Threads \ {t} : queue'[s] = queue[s] /\ evaled'[s] = evaled[s]
    BY DEF EvalRoot, LeafDecided, SetLeafEvaled, Descend, EvalNode, EvalDone, Backup, batch, EInv, BatchTypes
  <2> QED BY <1>1, <1>4, <2>1 DEF Others
<1>6. \A n : Drops(t, n)' <= Drops(t, n)
  <2>1. BatchTypes
    BY DEF EInv
  <2> QED BY <1>1, <1>3, <1>4, <2>1, DropsSame
<1> QED BY <1>1, <1>5, <1>6, VisitedKept

(* A playout that ends has nothing more to lose.                            *)
LEMMA EndedVisited ==
  ASSUME IInv, EInv, EInv', SInv, Visited, NEW t \in Threads,
         LeafQueued(t) \/ UpdateResults(t) \/ Discard(t) \/ Check(t)
  PROVE  Visited'
<1>0. /\ pc \in [Threads -> Controls] /\ path \in [Threads -> Seq(Nodes)]
      /\ queue \in [Threads -> Seq(Seq(Nodes))] /\ discard \in [Threads -> Seq(Seq(Nodes))]
      /\ evaled \in [Threads -> Nat]
  BY DEF IInv, FlagTypes, EInv, BatchTypes
<1>1. UNCHANGED <<head, created, emc>> /\ path'[t] = << >>
  <2>1. ASSUME NextPlayout(t) PROVE path'[t] = << >>
    BY <1>0, <2>1 DEF NextPlayout
  <2>2. Check(t) => path'[t] = << >>
    BY DEF Check, IInv, PathInv
  <2> QED BY <2>1, <2>2 DEF LeafQueued, UpdateResults, Discard, Check, tree, stats
<1>2. Others(t)
  <2>1. CASE LeafQueued(t)
    BY <1>0, <2>1 DEF LeafQueued, NextPlayout, Others
  <2>2. CASE UpdateResults(t)
    BY <1>0, <2>2 DEF UpdateResults, NextPlayout, Others
  <2>3. CASE Discard(t)
    BY <1>0, <2>3 DEF Discard, NextPlayout, Others
  <2>4. CASE Check(t)
    BY <1>0, <2>4 DEF Check, Others
  <2> QED BY <2>1, <2>2, <2>3, <2>4
<1>3. \A n : << >> \notin Through(n)
  BY DEF Through, Range
<1>4. ASSUME NEW n PROVE Drops(t, n)' <= Drops(t, n)
  <2>0. \A s \in Seq(Seq(Nodes)) : Count(s, Through(n)) \in Nat
    <3>1. \A s \in Seq(Seq(Nodes)) : Len(s) \in Nat /\ DOMAIN s = 1 .. Len(s)
      OBVIOUS
    <3> QED BY <3>1, CountIs
  <2>1. PICK a \in {0, 1} : a = Bit(pc[t] \in {"select", "descend"} /\ path[t] \in Through(n))
    BY DEF Bit
  <2>2. Bit(pc'[t] \in {"select", "descend"} /\ path'[t] \in Through(n)) = 0
    BY <1>1, <1>3 DEF Bit
  <2>3. CASE LeafQueued(t) \/ UpdateResults(t)
    <3>1. /\ pc[t] \notin {"backup", "check"} /\ pc'[t] \notin {"backup", "check"} /\ discard' = discard
      <4>1. NextPlayout(t) /\ pc[t] \in {"leaf", "done"} /\ discard' = discard
        BY <2>3 DEF LeafQueued, UpdateResults
      <4> QED BY <1>0, <4>1 DEF NextPlayout
    <3>2. PICK c \in Nat : c = Count(discard[t], Through(n))
      BY <1>0, <2>0
    <3>3. Drops(t, n) = a + c
      BY <2>1, <3>1, <3>2 DEF Drops
    <3>4. Drops(t, n)' = 0 + c
      BY <2>2, <3>1, <3>2 DEF Drops
    <3> QED BY <3>3, <3>4
  <2>4. CASE Discard(t)
    <3>1. /\ pc[t] = "descend" /\ pc'[t] \notin {"backup", "check"}
          /\ discard'[t] = Append(discard[t], path[t])
      <4>1. NextPlayout(t) /\ pc[t] = "descend" /\ discard' = [discard EXCEPT ![t] = Append(@, path[t])]
        BY <2>4 DEF Discard
      <4> QED BY <1>0, <4>1 DEF NextPlayout
    <3>2. PICK s \in Seq(Seq(Nodes)), p \in Seq(Nodes) : s = discard[t] /\ p = path[t]
      BY <1>0
    <3>3. PICK c \in Nat : c = Count(s, Through(n))
      BY <2>0
    <3>4. PICK b \in {0, 1} : b = Bit(p \in Through(n))
      BY DEF Bit
    <3>5. Count(Append(s, p), Through(n)) = c + b
      BY <3>3, <3>4, CountAppend
    <3>6. Drops(t, n) = b + c
      BY <3>1, <3>2, <3>3, <3>4 DEF Drops, Bit
    <3>7. Drops(t, n)' = 0 + (c + b)
      BY <2>2, <3>1, <3>2, <3>5 DEF Drops
    <3> QED BY <3>6, <3>7
  <2>5. CASE Check(t)
    <3>1. pc[t] = "check" /\ discard'[t] = << >>
      BY <1>0, <2>5 DEF Check
    <3>2. Count(<< >>, Through(n)) = 0
      <4>1. Len(<< >>) \in Nat /\ DOMAIN << >> = 1 .. Len(<< >>)
        OBVIOUS
      <4> QED BY <4>1, CountIs
    <3>3. Drops(t, n) = a + 0
      BY <2>1, <3>1 DEF Drops
    <3>4. Drops(t, n)' = 0 + 0
      BY <2>2, <3>1, <3>2 DEF Drops
    <3> QED BY <3>3, <3>4
  <2> QED BY <2>3, <2>4, <2>5
<1> QED BY <1>1, <1>2, <1>4, VisitedKept

(* The return of virtual losses takes as many visits as it drops.           *)
LEMMA ReturnVisited ==
  ASSUME IInv, EInv, EInv', SInv, Visited, NEW t \in Threads, SubVirtualLosses(t)
  PROVE  Visited'
<1>0. PICK s \in Seq(Seq(Nodes)) : s = discard[t]
  BY DEF EInv, BatchTypes
<1>1. /\ Len(s) \in Nat /\ DOMAIN s = 1 .. Len(s) /\ \A j \in DOMAIN s : s[j] \in Playouts
  BY <1>0 DEF Playouts
<1>2. ASSUME NEW n PROVE MoveDiscards(t, n) = Count(s, Through(n))
  <2>1. \A j \in DOMAIN s : s[j] \in Through(n) <=> n \in Range(s[j])
    BY <1>1 DEF Through
  <2>2. {j \in DOMAIN s : s[j] \in Through(n)} = {j \in DOMAIN s : n \in Range(s[j])}
    BY <2>1
  <2> QED BY <1>0, <2>2 DEF MoveDiscards, Count
<1>3. /\ pc[t] = "unvl" /\ pc' = [pc EXCEPT ![t] = "backup"] /\ pc \in [Threads -> Controls] /\ path[t] = << >>
      /\ emc' = [n \in Nodes |-> emc[n] - Count(s, Through(n))]
      /\ UNCHANGED <<head, created, path, batch>>
  BY <1>2 DEF SubVirtualLosses, IInv, FlagTypes, PathInv, tree, control
<1>4. Others(t) /\ pc'[t] = "backup"
  BY <1>3 DEF Others, batch
<1> SUFFICES ASSUME NEW n \in created \ {head} PROVE emc'[n] >= 1 + AllDrops(n)'
  BY <1>3 DEF Visited
<1>5. BatchTypes /\ BatchTypes' /\ n \in Nodes
  BY DEF EInv, BatchTypes
<1>6. PICK a \in Nat, b \in Nat, c \in Nat :
        a = AllDrops(n) /\ b = AllDrops(n)' /\ c = Count(s, Through(n))
  BY <1>1, <1>5, DropsForm, DropsFormNext, CountIs DEF DropsAreNat
<1>7. Drops(t, n) = 0 + c
  BY <1>0, <1>3, <1>6 DEF Drops, Bit
<1>8. Drops(t, n)' = 0 + 0
  BY <1>4 DEF Drops, Bit
<1>9. b = a - c
  <2>1. AllDrops(n)' = AllDrops(n) + (Drops(t, n)' - Drops(t, n))
    BY <1>4, <1>5, DropsChange
  <2> QED BY <1>6, <1>7, <1>8, <2>1
<1>10. PICK x \in Int : x = emc[n] /\ emc'[n] = x - c
  BY <1>3, <1>5, <1>6 DEF SInv, StatTypes
<1>11. x >= 1 + a
  BY <1>6, <1>10 DEF Visited
<1> QED BY <1>6, <1>9, <1>10, <1>11

LEMMA NoDrops ==
  ASSUME IInv, EInv, SInv, NEW n \in Nodes \ created
  PROVE  AllDrops(n) = 0 /\ \A t \in Threads : Drops(t, n) = 0
<1>1. ASSUME NEW t \in Threads PROVE Drops(t, n) = 0
  <2>1. /\ Down(path[t]) /\ path[t] \in Seq(Nodes) /\ discard[t] \in Seq(Seq(Nodes))
        /\ \A j \in DOMAIN discard[t] : Down(discard[t][j])
    BY DEF SInv, Routes, Routed, IInv, FlagTypes, EInv, BatchTypes
  <2>2. \A p : Down(p) => p \notin Through(n)
    BY DEF Down, Through, Range
  <2>3. Len(discard[t]) \in Nat /\ DOMAIN discard[t] = 1 .. Len(discard[t])
    BY <2>1
  <2>4. Count(discard[t], Through(n)) = 0
    BY <2>1, <2>2, <2>3, CountIs
  <2>5. Bit(pc[t] \in {"select", "descend"} /\ path[t] \in Through(n)) = 0
    BY <2>1, <2>2 DEF Bit
  <2> QED BY <2>4, <2>5 DEF Drops
<1> DEFINE f == [t \in Threads |-> Drops(t, n)]
<1>2. DOMAIN f = Threads /\ \A t \in Threads : f[t] = 0
  BY <1>1
<1>3. AllDrops(n) = SumFunction(f)
  BY DEF AllDrops
<1> HIDE DEF f
<1>4. SumFunctionOnSet(f, Threads) = 0
  BY <1>2, SumZero, ThreadsAssumption
<1> QED BY <1>1, <1>2, <1>3, <1>4 DEF SumFunction

(* Each selection is one visit more, and one more that may be dropped.      *)
LEMMA SelectVisited ==
  ASSUME IInv, IInv', EInv, EInv', SInv, Visited, NEW t \in Threads, Select(t)
  PROVE  Visited'
<1>0. PICK c, k, p : Selects(t, c, k, p)
  BY SelectIs
<1>1. /\ pc[t] = "select" /\ path[t] = p /\ p \in Seq(Nodes) /\ emc' = [emc EXCEPT ![k] = emc[k] + 1]
      /\ head' = head /\ discard' = discard /\ created' = created \cup {k}
      /\ emc \in [Nodes -> Int]
  BY <1>0 DEF Selects, SInv, StatTypes
<1>2. PICK q \in Seq(Nodes) : q = Append(p, k) /\ path'[t] = q
  BY <1>0, SelectPlace DEF Playouts
<1>3. /\ Others(t) /\ k \in Nodes /\ k # head
      /\ pc'[t] = IF k \in created THEN "descend" ELSE "leaf"
  BY <1>0, SelectPlace
<1>4. Range(q) = Range(p) \cup {k}
  <2>1. /\ DOMAIN q = 1 .. Len(p) + 1 /\ DOMAIN p = 1 .. Len(p)
        /\ \A j \in 1 .. Len(p) : q[j] = p[j]
        /\ q[Len(p) + 1] = k /\ Len(p) \in Nat
    BY <1>1, <1>2, <1>3
  <2> QED BY <2>1 DEF Range
<1>5. ASSUME NEW n PROVE q \in Through(n) <=> p \in Through(n) \/ n = k
  BY <1>1, <1>2, <1>4 DEF Through, Playouts
<1>6. BatchTypes /\ BatchTypes' /\ created \in SUBSET Nodes
  BY DEF EInv, BatchTypes
<1>7. ASSUME NEW n
      PROVE  \E e \in {0, 1} : /\ n # k \/ k \notin created => e = 0
                               /\ AllDrops(n)' <= AllDrops(n) + e
  <2>1. PICK d \in Nat : d = Count(discard[t], Through(n))
    <3>1. discard[t] \in Seq(Seq(Nodes))
      BY <1>6 DEF BatchTypes
    <3>2. Len(discard[t]) \in Nat /\ DOMAIN discard[t] = 1 .. Len(discard[t])
      BY <3>1
    <3> QED BY <3>2, CountIs
  <2>2. PICK a \in {0, 1} : a = Bit(p \in Through(n))
    BY DEF Bit
  <2>3. PICK b \in {0, 1} : b = Bit(k \in created /\ q \in Through(n))
    BY DEF Bit
  <2>4. Drops(t, n) = a + d
    BY <1>1, <2>1, <2>2 DEF Drops, Bit
  <2>5. Drops(t, n)' = b + d
    BY <1>1, <1>2, <1>3, <2>1, <2>3 DEF Drops, Bit
  <2>6. PICK e \in {0, 1} : e = IF n = k /\ k \in created THEN 1 ELSE 0
    OBVIOUS
  <2>7. b <= a + e
    BY <1>5, <2>2, <2>3, <2>6 DEF Bit
  <2>8. PICK x \in Nat, y \in Nat : x = AllDrops(n) /\ y = AllDrops(n)'
    BY <1>6, DropsForm, DropsFormNext DEF DropsAreNat
  <2>9. y = x + ((b + d) - (a + d))
    BY <1>3, <1>6, <2>4, <2>5, <2>8, DropsChange
  <2>10. y <= x + e
    BY <2>7, <2>9
  <2> QED BY <2>6, <2>8, <2>10
<1> SUFFICES ASSUME NEW n \in created', n # head PROVE emc'[n] >= 1 + AllDrops(n)'
  BY <1>1 DEF Visited
<1>8. PICK e \in {0, 1} : /\ n # k \/ k \notin created => e = 0
                          /\ AllDrops(n)' <= AllDrops(n) + e
  BY <1>7
<1>9. PICK x \in Nat, y \in Nat : x = AllDrops(n) /\ y = AllDrops(n)'
  BY <1>6, DropsForm, DropsFormNext DEF DropsAreNat
<1>10. n \in Nodes
  BY <1>1, <1>3, <1>6
<1>11. PICK z \in Int : z = emc[n]
  BY <1>1, <1>10
<1>12. CASE n \in created
  <2>1. z >= 1 + x
    BY <1>9, <1>11, <1>12 DEF Visited
  <2>2. emc'[n] = IF n = k THEN z + 1 ELSE z
    BY <1>1, <1>10, <1>11
  <2> QED BY <1>8, <1>9, <2>1, <2>2
<1>13. CASE n \notin created
  <2>1. n = k /\ x = 0 /\ z = 0 /\ e = 0
    BY <1>1, <1>8, <1>9, <1>10, <1>11, <1>13, NoDrops DEF SInv, Family
  <2>2. emc'[n] = 1
    BY <1>1, <1>10, <1>11, <2>1
  <2>3. y <= 0
    BY <1>8, <1>9, <2>1
  <2> QED BY <1>9, <2>2, <2>3
<1> QED BY <1>12, <1>13

(* A new search keeps the visits of the nodes it keeps.                     *)
LEMMA GenmoveVisited ==
  ASSUME IInv, IInv', EInv, EInv', SInv, Visited, NEW h \in Nodes, NEW found \in BOOLEAN, Genmove(h, found)
  PROVE  Visited'
<1> DEFINE kept == IF found THEN Subtree[h] \ ({head} \ {h}) ELSE {}
<1>k. PICK K : K = kept
  OBVIOUS
<1>1. /\ head' = h /\ created' = (created \cap K) \cup {h}
      /\ emc'  = [n \in Nodes |-> IF n \in K THEN emc[n] ELSE 0]
      /\ pc' = [t \in Threads |-> "root"] /\ UNCHANGED <<path, result, queue, discard>>
      /\ \A t \in Threads : pc[t] = "idle"
  BY <1>k DEF Genmove, Idle, batch
<1>2. \A t \in Threads : path[t] = << >> /\ discard[t] = << >>
  BY <1>1 DEF IInv, PathInv, EInv, Places, Waits
<1> SUFFICES ASSUME NEW n \in created', n # h PROVE emc'[n] >= 1 + AllDrops(n)'
  BY <1>1 DEF Visited
<1>3. ASSUME NEW t \in Threads PROVE Drops(t, n)' = 0
  <2>1. pc'[t] = "root" /\ discard'[t] = << >>
    BY <1>1, <1>2
  <2>2. Count(<< >>, Through(n)) = 0
    <3>1. Len(<< >>) \in Nat /\ DOMAIN << >> = 1 .. Len(<< >>)
      OBVIOUS
    <3> QED BY <3>1, CountIs
  <2>3. Drops(t, n)' = 0 + 0
    BY <2>1, <2>2 DEF Drops, Bit
  <2> QED BY <2>3
<1>4. AllDrops(n)' = 0
  <2> DEFINE g == [t \in Threads |-> Drops(t, n)']
  <2>1. DOMAIN g = Threads /\ \A t \in Threads : g[t] = 0
    BY <1>3
  <2>2. AllDrops(n)' = SumFunction(g)
    BY DEF AllDrops
  <2> HIDE DEF g
  <2>3. SumFunctionOnSet(g, Threads) = 0
    BY <2>1, SumZero, ThreadsAssumption
  <2> QED BY <2>1, <2>2, <2>3 DEF SumFunction
<1>5. n \in created /\ n \in K /\ n # head /\ n \in Nodes
  BY <1>k, <1>1 DEF EInv, BatchTypes
<1>6. PICK z \in Int, x \in Nat : z = emc[n] /\ emc'[n] = z /\ x = AllDrops(n)
  BY <1>1, <1>5, DropsForm DEF SInv, StatTypes, EInv, DropsAreNat
<1>7. z >= 1 + x
  BY <1>5, <1>6 DEF Visited
<1>8. z >= 1
  BY <1>7
<1> QED BY <1>4, <1>6, <1>8

(* L is set only on a move that was made.                                   *)
LEMMA LostNext ==
  ASSUME IInv, IInv', EInv, EInv', SInv, LostMade, NEW t \in Threads, Thread(t) PROVE LostMade'
<1>1. head' = head /\ created \subseteq created'
  BY DEF Thread, EvalRoot, Select, LeafDecided, LeafQueued, SetLeafEvaled, Discard, Descend, UpdateResults,
         EvalNode, EvalDone, SubVirtualLosses, Backup, Check, tree
<1>2. \A n \in Nodes : "L" \in flag'[n] => "L" \in flag[n] \/ n \in created
  <2>1. flag \in [Nodes -> SUBSET {"W", "L", "D"}] /\ Current(t) \in Nodes
    BY CurrentIs DEF IInv, FlagTypes
  <2>2. CASE Select(t)
    <3>1. PICK c \in Nodes : c \in created /\ (flag' = flag \/ flag' = [flag EXCEPT ![c] = @ \cup Proved(c)])
      <4>1. PICK c, k, p : Selects(t, c, k, p)
        BY <2>2, SelectIs
      <4> QED BY <4>1 DEF Selects
    <3> QED BY <2>1, <3>1
  <2>3. CASE LeafDecided(t)
    <3>1. path[t] # << >>
      BY <2>3 DEF LeafDecided, IInv, PathInv
    <3>2. Current(t) \in created
      BY <3>1, CurrentIs
    <3> QED BY <2>1, <2>3, <3>2 DEF LeafDecided
  <2>4. CASE ~ Select(t) /\ ~ LeafDecided(t)
    <3>1. flag' = flag
      BY <2>4 DEF Thread, EvalRoot, LeafQueued, SetLeafEvaled, Discard, Descend, UpdateResults,
           EvalNode, EvalDone, SubVirtualLosses, Backup, Check, tree
    <3> QED BY <3>1
  <2> QED BY <2>2, <2>3, <2>4
<1> QED BY <1>1, <1>2 DEF LostMade

LEMMA LostGenmove ==
  ASSUME IInv, IInv', EInv, LostMade, NEW h \in Nodes, NEW found \in BOOLEAN, Genmove(h, found)
  PROVE  LostMade'
<1>1. /\ head' = h /\ h \in Subtree[head] /\ head \in Nodes
      /\ created' = (created \cap (IF found THEN Subtree[h] \ ({head} \ {h}) ELSE {})) \cup {h}
      /\ flag' = [n \in Nodes |-> IF found /\ n \in Subtree[h] \cup Line(h) THEN flag[n] ELSE {}]
  BY DEF Genmove, IInv, FlagTypes
<1>2. \A n \in Nodes : Ply[n] \in Nat
  BY PlyAssumption
<1>3. Ply[h] >= Ply[head]
  BY <1>1, <1>2, SubtreeIs
<1>4. \A n \in Line(h) : n \in Nodes /\ Ply[n] <= Ply[h]
  BY <1>2, SubtreeIs DEF Line
<1> SUFFICES ASSUME NEW n \in Nodes, "L" \in flag'[n] PROVE n \in created' \/ Ply[n] <= Ply[h]
  BY <1>1 DEF LostMade
<1>5. found /\ n \in Subtree[h] \cup Line(h) /\ "L" \in flag[n]
  BY <1>1
<1>6. CASE Ply[n] <= Ply[h]
  BY <1>6
<1>7. CASE ~ (Ply[n] <= Ply[h])
  <2>1. n \in Subtree[h]
    BY <1>4, <1>5, <1>7
  <2>2. n \in created
    BY <1>1, <1>2, <1>3, <1>5, <1>7 DEF LostMade
  <2>3. n # head
    BY <1>1, <1>2, <1>3, <1>7
  <2> QED BY <1>1, <1>5, <2>1, <2>2, <2>3
<1> QED BY <1>6, <1>7

LEMMA InitKInv == Init => KInv
<1> SUFFICES ASSUME Init PROVE KInv
  OBVIOUS
<1>1. IsFiniteSet(created)
  BY FS_Singleton DEF Init
<1>2. LostMade /\ Visited
  BY DEF Init, LostMade, Visited
<1> QED BY <1>1, <1>2 DEF KInv

LEMMA QuietKInv ==
  ASSUME IInv, KInv, UNCHANGED <<head, created, emc, pc, path, discard>>,
         \A n \in Nodes : "L" \in flag'[n] => "L" \in flag[n]
  PROVE  KInv'
<1>1. \A t \in Threads : \A n : Drops(t, n)' = Drops(t, n)
  BY DEF Drops
<1>2. ASSUME NEW n PROVE AllDrops(n)' = AllDrops(n)
  <2>1. [t \in Threads |-> Drops(t, n)'] = [t \in Threads |-> Drops(t, n)]
    BY <1>1
  <2>2. AllDrops(n) = SumFunction([t \in Threads |-> Drops(t, n)])
    BY DEF AllDrops
  <2>3. AllDrops(n)' = SumFunction([t \in Threads |-> Drops(t, n)'])
    BY DEF AllDrops
  <2> QED BY <2>1, <2>2, <2>3
<1>3. Visited'
  BY <1>2 DEF KInv, Visited
<1>4. LostMade'
  BY DEF KInv, LostMade
<1> QED BY <1>3, <1>4 DEF KInv

LEMMA ThreadKInv ==
  ASSUME IInv, IInv', EInv, EInv', SInv, KInv, NEW t \in Threads, Thread(t) PROVE KInv'
<1>1. IsFiniteSet(created')
  <2>1. CASE Select(t)
    <3>1. PICK c, k, p : Selects(t, c, k, p)
      BY <2>1, SelectIs
    <3>2. created' = created \cup {k}
      BY <3>1 DEF Selects
    <3> QED BY <3>2, FS_AddElement DEF KInv
  <2>2. CASE ~ Select(t)
    <3>1. created' = created
      BY <2>2 DEF Thread, EvalRoot, LeafDecided, LeafQueued, SetLeafEvaled, Discard, Descend, UpdateResults,
           EvalNode, EvalDone, SubVirtualLosses, Backup, Check, tree
    <3> QED BY <3>1 DEF KInv
  <2> QED BY <2>1, <2>2
<1>2. LostMade'
  BY LostNext DEF KInv
<1>3. Visited'
  <2>1. Visited
    BY DEF KInv
  <2>2. CASE Select(t)
    BY <2>1, <2>2, SelectVisited
  <2>3. CASE SubVirtualLosses(t)
    BY <2>1, <2>3, ReturnVisited
  <2>4. CASE LeafQueued(t) \/ UpdateResults(t) \/ Discard(t) \/ Check(t)
    BY <2>1, <2>4, EndedVisited
  <2>5. CASE EvalRoot(t) \/ LeafDecided(t) \/ SetLeafEvaled(t) \/ Descend(t) \/ EvalNode(t) \/ EvalDone(t) \/ Backup(t)
    BY <2>1, <2>5, PlainVisited
  <2> QED BY <2>2, <2>3, <2>4, <2>5 DEF Thread
<1> QED BY <1>1, <1>2, <1>3 DEF KInv

(* KInv is an invariant of the search, next to IInv, EInv and SInv: a move  *)
(* made keeps a visit (UctSearch.cpp takes virtual losses back), and one    *)
(* flagged as lost for the opponent was made.                               *)
THEOREM Visiting == Spec => []KInv
<1>1. IInv /\ IInv' /\ EInv /\ EInv' /\ SInv /\ KInv /\ [Next]_vars => KInv'
  <2> SUFFICES ASSUME IInv, IInv', EInv, EInv', SInv, KInv, [Next]_vars PROVE KInv'
    OBVIOUS
  <2>1. CASE UNCHANGED vars \/ Ended \/ StopUctSearch \/ PonderHit
    <3>1. UNCHANGED <<head, created, emc, pc, path, discard, flag>>
      BY <2>1 DEF vars, tree, stats, control, batch, Ended, StopUctSearch, PonderHit
    <3> QED BY <3>1, QuietKInv
  <2>2. ASSUME NEW h \in Nodes, Go(h) \/ GoOn(h) PROVE KInv'
    <3>1. PICK found \in BOOLEAN : Genmove(h, found)
      BY <2>2 DEF Go, GoOn
    <3>2. created' \subseteq created \cup {h}
      BY <3>1 DEF Genmove
    <3>3. IsFiniteSet(created')
      BY <3>2, FS_AddElement, FS_Subset DEF KInv
    <3> QED BY <3>1, <3>3, GenmoveVisited, LostGenmove DEF KInv
  <2>3. ASSUME NEW t \in Threads, Thread(t) PROVE KInv'
    BY <2>3, ThreadKInv
  <2>4. ASSUME NEW n \in Nodes \ {Root}, PvMateFound(n) PROVE KInv'
    <3>1. UNCHANGED <<head, created, emc, pc, path, discard>>
      BY <2>4 DEF PvMateFound, stats, batch
    <3>2. PICK lost \in {{}, {"D"}} : flag' = [flag EXCEPT ![n] = (@ \ lost) \cup {"W"}]
      BY <2>4 DEF PvMateFound
    <3>3. \A m \in Nodes : "L" \in flag'[m] => "L" \in flag[m]
      BY <3>2 DEF IInv, FlagTypes
    <3> QED BY <3>1, <3>3, QuietKInv
  <2> QED BY <2>1, <2>2, <2>3, <2>4 DEF Next
<1> QED BY InitKInv, Inductive, Evaluation, Bookkeeping, <1>1, PTL DEF Spec

(* The wins stand first in the order of the moves.                          *)
LEMMA WinsFirst ==
  ASSUME FlagsSound, NEW c \in Nodes, NEW num, NEW i \in 1 .. num, i \in Nat,
         i <= Cardinality({k \in KidSet(c) : "L" \in flag[k]})
  PROVE  Sorted(c, num)[i] \subseteq {k \in KidSet(c) : "L" \in flag[k]}
<1> DEFINE wins == {k \in KidSet(c) : "L" \in flag[k]}
<1> SUFFICES ASSUME NEW k \in Sorted(c, num)[i], k \notin wins PROVE FALSE
  OBVIOUS
<1> DEFINE above == {j \in KidSet(c) : Precedes(j, k)}
<1>1. k \in KidSet(c) /\ Cardinality(above) < i
  BY DEF Sorted
<1>2. KidSet(c) \subseteq Nodes /\ IsFiniteSet(KidSet(c))
  BY KidSetIs
<1>3. Class(k) \in {0, 1}
  BY <1>1 DEF Class
<1>4. \A j \in wins : Class(j) = 2
  BY <1>2 DEF FlagsSound, Class
<1>5. wins \subseteq above
  BY <1>3, <1>4 DEF Precedes
<1>6. IsFiniteSet(above)
  BY <1>2, FS_Subset
<1> HIDE DEF wins, above
<1>7. Cardinality(wins) \in Nat /\ Cardinality(above) \in Nat /\ Cardinality(wins) <= Cardinality(above)
  BY <1>5, <1>6, FS_Subset, FS_CardinalityType
<1>8. i <= Cardinality(wins)
  BY DEF wins
<1> QED BY <1>1, <1>7, <1>8

LEMMA MinBelow == ASSUME NEW a \in Nat, NEW b \in Nat PROVE Min({a, b}) \in Nat /\ Min({a, b}) <= a
<1>1. \E x \in {a, b} : \A y \in {a, b} : x <= y
  OBVIOUS
<1> QED BY <1>1 DEF Min

(* At the end of a search the parts of the invariants give WinIsPlayed.     *)
LEMMA WinPlayed ==
  ASSUME IInv, EInv, SInv, KInv PROVE WinIsPlayed
<1> DEFINE wins == {k \in KidSet(head) : "L" \in flag[k]}
<1> SUFFICES ASSUME Answered, wins # {}
             PROVE  /\ \A multi_pv \in 1 .. 2 : \A k \in Answers(head, multi_pv) :
                         /\ Outcome[k] = "lose"
                         /\ PonderMove(k) \subseteq KidSet(k)
                         /\ \A i \in 1 .. Len(Pv(k)) - 1 : Pv(k)[i + 1] \in KidSet(Pv(k)[i])
                         /\ \A threshold \in 0 .. One : ~ Resigns(k, threshold)
                    /\ LET lines == GetMultiPonderMove(head, Cardinality(wins))
                       IN  \A i \in DOMAIN lines : lines[i] \subseteq wins
                    /\ \A cutoff \in 0 .. One : \A k \in RandomChildren(head, cutoff) : emc[k] > 0
  BY DEF WinIsPlayed
<1>1. /\ FlagsSound /\ head \in Nodes /\ Kids[head] # << >> /\ created \in SUBSET Nodes
      /\ emc \in [Nodes -> Int] /\ IsFiniteSet(created)
  BY DEF Answered, IInv, FlagTypes, PathInv, HasChildren, EInv, BatchTypes, SInv, StatTypes, KInv
<1>2. KidSet(head) \subseteq Nodes /\ IsFiniteSet(KidSet(head))
  BY <1>1, KidSetIs
<1>3. \A k \in wins : k \in Nodes /\ "W" \notin flag[k] /\ Outcome[k] = "lose" /\ Ply[k] = Ply[head] + 1
  BY <1>1, <1>2, PlyAssumption DEF FlagsSound
<1>4. Cardinality(wins) \in Nat /\ Cardinality(wins) # 0 /\ 1 <= Cardinality(wins) /\ Cardinality(KidSet(head)) \in Nat
  <2>1. IsFiniteSet(wins)
    BY <1>2, FS_Subset
  <2> HIDE DEF wins
  <2>2. Cardinality(wins) \in Nat /\ Cardinality(wins) # 0 /\ Cardinality(KidSet(head)) \in Nat
    BY <1>2, <2>1, FS_CardinalityType, FS_EmptySet
  <2> QED BY <2>2
<1>5. Sorted(head, 1)[1] \subseteq wins
  <2>1. 1 \in 1 .. 1 /\ 1 \in Nat
    OBVIOUS
  <2>2. 1 <= Cardinality({k \in KidSet(head) : "L" \in flag[k]})
    BY <1>4
  <2>3. \A i \in 1 .. 1 : i \in Nat /\ i <= Cardinality({k \in KidSet(head) : "L" \in flag[k]})
                => Sorted(head, 1)[i] \subseteq {k \in KidSet(head) : "L" \in flag[k]}
    BY <1>1, WinsFirst
  <2> QED BY <2>1, <2>2, <2>3
<1>6. MaxChild(head) \in wins
  BY <1>1, <1>3, MaxChildIs
<1>7. ASSUME NEW multi_pv \in 1 .. 2, NEW k \in Answers(head, multi_pv)
      PROVE  /\ Outcome[k] = "lose"
             /\ PonderMove(k) \subseteq KidSet(k)
             /\ \A i \in 1 .. Len(Pv(k)) - 1 : Pv(k)[i + 1] \in KidSet(Pv(k)[i])
             /\ \A threshold \in 0 .. One : ~ Resigns(k, threshold)
  <2>1. k \in wins
    BY <1>5, <1>6 DEF Answers
  <2>2. k \in Nodes /\ Outcome[k] = "lose" /\ "L" \in flag[k]
    BY <1>3, <2>1
  <2>3. PICK l \in Seq(Nodes) : l = Pv(k) /\ l # << >> /\ l[1] = k
                                /\ \A i \in 1 .. Len(l) - 1 : l[i + 1] \in KidSet(l[i])
    <3>1. Kept(k, Pv(k))
      BY <1>1, <2>2, PvIs
    <3> QED BY <3>1 DEF Kept
  <2>4. PonderMove(k) \subseteq KidSet(k)
    <3>1. CASE Len(l) > 1
      <4>1. Len(l) \in Nat /\ 1 \in 1 .. Len(l) - 1 /\ 1 + 1 = 2
        BY <3>1
      <4>2. l[2] \in KidSet(l[1])
        BY <2>3, <4>1
      <4> QED BY <2>3, <4>2 DEF PonderMove
    <3>2. CASE ~ (Len(l) > 1)
      BY <2>3, <3>2 DEF PonderMove
    <3> QED BY <3>1, <3>2
  <2>5. ASSUME NEW threshold \in 0 .. One PROVE ~ Resigns(k, threshold)
    <3>1. BestWp(k) = <<2, 1>> /\ threshold \in 0 .. 2
      BY <2>2 DEF BestWp, One
    <3>2. ~ (2 < threshold * 1)
      BY <3>1
    <3> QED BY <3>1, <3>2 DEF Resigns
  <2> QED BY <2>2, <2>3, <2>4, <2>5
<1>8. LET lines == GetMultiPonderMove(head, Cardinality(wins))
      IN  \A i \in DOMAIN lines : lines[i] \subseteq wins
  <2> DEFINE lines == GetMultiPonderMove(head, Cardinality(wins))
             num == Min({Cardinality(wins), Cardinality(KidSet(head))})
  <2> SUFFICES ASSUME NEW i \in DOMAIN lines PROVE lines[i] \subseteq wins
    OBVIOUS
  <2>1. num \in Nat /\ num <= Cardinality(wins)
    <3> HIDE DEF wins
    <3> QED BY <1>4, MinBelow
  <2>2. lines = Sorted(head, num)
    BY DEF GetMultiPonderMove
  <2>3. i \in 1 .. num
    BY <2>2 DEF Sorted
  <2>4. i \in Nat /\ i <= Cardinality(wins)
    <3> HIDE DEF wins
    <3> QED BY <1>4, <2>1, <2>3
  <2>5. Sorted(head, num)[i] \subseteq wins
    <3> HIDE DEF num
    <3> QED BY <1>1, <2>3, <2>4, WinsFirst
  <2> QED BY <2>2, <2>5
<1>9. ASSUME NEW cutoff \in 0 .. One, NEW k \in RandomChildren(head, cutoff) PROVE emc[k] > 0
  <2>1. PICK first \in Sorted(head, 1)[1] :
          k \in IF emc[first] = 0 THEN {first}
                ELSE {j \in KidSet(head) : /\ Eligible(first, j, cutoff)
                                           /\ \A i \in KidSet(head) : Precedes(i, j) => Eligible(first, i, cutoff)}
    BY DEF RandomChildren
  <2>2. first \in wins /\ first \in Nodes
    BY <1>3, <1>5
  <2>3. first # head /\ first \in created
    <3>1. Ply[first] = Ply[head] + 1 /\ Ply[head] \in Nat
      BY <1>1, <1>3, <2>2, PlyAssumption
    <3>2. ~ (Ply[first] <= Ply[head])
      BY <3>1
    <3>3. first \in created
      BY <2>2, <3>2 DEF KInv, LostMade
    <3> QED BY <3>1, <3>3
  <2>4. emc[first] # 0
    <3>1. PICK x \in Nat, z \in Int : x = AllDrops(first) /\ z = emc[first]
      BY <1>1, <2>2, DropsForm DEF EInv, DropsAreNat
    <3>2. z >= 1 + x
      BY <2>3, <3>1 DEF KInv, Visited
    <3>3. z # 0
      BY <3>2
    <3> QED BY <3>1, <3>3
  <2> QED BY <2>1, <2>4 DEF Eligible
<1> QED BY <1>7, <1>8, <1>9

(* The move that is played wins if the search found one that does           *)
(* (select_max_child_node, get_and_print_pv), it is never resigned, the     *)
(* lines shown begin with the wins, a random move is one that was visited,  *)
(* and every line is one of the game.                                       *)
THEOREM WinsArePlayed == Spec => []WinIsPlayed
<1>1. IInv /\ EInv /\ SInv /\ KInv => WinIsPlayed
  BY WinPlayed
<1> QED BY Inductive, Evaluation, Bookkeeping, Visiting, <1>1, PTL
=============================================================================
