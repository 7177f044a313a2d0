---------------------------- MODULE TrainingData ----------------------------
(***************************************************************************)
(* The training data of the networks: the files of games and positions     *)
(* that python_module.cpp reads into memory or turns into a cache, the     *)
(* tools that merge, re-evaluate and convert them, and the loaders of      *)
(* dlshogi/data_loader.py that hand batches to the trainer while a thread  *)
(* prepares the next one.                                                  *)
(*                                                                         *)
(* A huffman coded position is a member of a small set.  Probabilities,    *)
(* values and results are whole numbers of shares, Unit of them to one;    *)
(* the instances are chosen so that the divisions come out even.           *)
(***************************************************************************)
EXTENDS Integers, Sequences, SequencesExt, FiniteSetsExt, Functions

CONSTANTS
  Turn,        \* the color to move of each position
  After,       \* After[hcp][move], the position a legal move leads to
  Files,       \* the files there are, by name
  Value,       \* Value[a][eval]: score_to_value of the evaluation, scaled by a
  Fit,         \* the scale curve_fit finds, 0 being the built in one
  Unit,        \* shares to one
  Mate,        \* the evaluation from which evalfix takes it for a mate
  Jobs,        \* what load_files may be asked for
  Caches,      \* names of cache files
  Policy,      \* what the network says: Policy[hcp][legal move], in shares
  Worth,       \* and Worth[hcp], in shares
  Mixes,       \* alpha_p, alpha_v and alpha_r in quarters, limit_candidates, dropoff
  Least,       \* 1.0f / MaxLegalMoves, in shares
  MaxStarts    \* how many tools and trainings are started

\* A file is [hcpe, records].  The records of a file of positions (hcpe) are
\* [hcp, move, eval, result], those of a file of games [hcp, result, infos, whole];
\* the infos are [move, eval, candidates, draw], the candidates [move, visits], draw
\* is what moveIsDraw says of the move, and a game is not whole if the file ends in it.
\* A job is [files, average, evalfix, power, patch, cache]: power is 1 / temperature,
\* or 0 for temperature 0, and patch the records of a file of positions.

\* Only hcpe3_clean looks for the end of the file within a game: the readers go on with
\* what the reads before left in memory, so what they are given must be whole.
Whole(file) == file.hcpe \/ \A k \in 1 .. Len(file.records) : file.records[k].whole
ASSUME JobsAssumption ==
   \A j \in Jobs : \A n \in 1 .. Len(j.files) :
      j.files[n] \in DOMAIN Files => Whole(Files[j.files[n]])

None == "none"
Unknown == -1   \* sum_len before it is assigned

VARIABLES
  pc,          \* "off", or what load_files is about to do, or "loaded", or "failed"
  job,         \* what it was asked for
  todo,        \* the files left
  sumLen,      \* the number of positions it returns
  held,        \* trainingData
  index,       \* duplicates
  cache,       \* the cache that is read from, or None
  disk,        \* the cache files
  starts,      \* tools and trainings started
  read,        \* the samples behind held, and
  from         \* those behind each cache, kept for the properties

files == <<pc, job, todo, sumLen, held, index, cache, disk, starts, read, from>>

(***************************************************************************)
(* Results, values and policies.                                           *)
(***************************************************************************)
\* result & 3 is 0 for a draw; a result also carries the bits of sennichite and so on.
MakeResult(result, color) ==
   CASE result % 4 = 0 -> Unit \div 2
     [] result % 4 = 1 /\ color = "Black" -> Unit
     [] result % 4 = 2 /\ color = "White" -> Unit
     [] OTHER -> 0

OneHot(move) == [m \in {move} |-> Unit]
Weight(c, power) == IF power = 1 THEN c.visits ELSE c.visits ^ power
Busiest(cands) ==
   CHOOSE i \in 1 .. Len(cands) : \A j \in 1 .. Len(cands) :
      cands[j].visits < cands[i].visits \/ (cands[j].visits = cands[i].visits /\ i <= j)

VisitsToProbability(cands, power) ==
   IF Len(cands) = 1 \/ power = 0 THEN OneHot(cands[Busiest(cands)].move)
   ELSE LET sum == FoldLeft(LAMBDA n, c : n + Weight(c, power), 0, cands)
        IN  [m \in {cands[i].move : i \in 1 .. Len(cands)} |->
               (Unit * Weight(cands[CHOOSE i \in 1 .. Len(cands) : cands[i].move = m], power)) \div sum]

At(fn, m) == IF m \in DOMAIN fn THEN fn[m] ELSE 0
Plus(fn, gn) == [m \in DOMAIN fn \cup DOMAIN gn |-> At(fn, m) + At(gn, m)]

(***************************************************************************)
(* Reading: the samples of a file.                                         *)
(***************************************************************************)
OfHcpe(r, a) ==
   [hcp |-> r.hcp, value |-> Value[a][r.eval], result |-> MakeResult(r.result, Turn[r.hcp]),
    candidates |-> OneHot(r.move), count |-> 1]

\* The positions of a whole game, and the moves of it that are kept: those that were
\* searched and do not repeat a position or lead to a better or worse one.
Reached(g) ==
   LET at[i \in 1 .. Len(g.infos)] ==
          IF i = 1 THEN g.hcp ELSE After[at[i - 1]][g.infos[i - 1].move]
   IN  at
Kept(g) == SelectSeq([i \in 1 .. Len(g.infos) |-> i],
              LAMBDA i : /\ g.infos[i].candidates # <<>>
                         /\ g.infos[i].draw \notin {"Draw", "Superior", "Inferior"})
OfGame(g, a, power) ==
   [k \in 1 .. Len(Kept(g)) |->
      LET info == g.infos[Kept(g)[k]]
          hcp == Reached(g)[Kept(g)[k]]
      IN  [hcp |-> hcp, value |-> Value[a][info.eval], result |-> MakeResult(g.result, Turn[hcp]),
           candidates |-> VisitsToProbability(info.candidates, power), count |-> 1]]

SamplesOf(file, a, power) ==
   FlattenSeq([k \in 1 .. Len(file.records) |->
      IF file.hcpe THEN <<OfHcpe(file.records[k], a)>> ELSE OfGame(file.records[k], a, power)])

Sum(d, s) ==
   [d EXCEPT !.value = @ + s.value, !.result = @ + s.result, !.count = @ + s.count,
             !.candidates = Plus(@, s.candidates)]

(* Fault: a position read again is counted, its policy is not added.        *)
LoadUnadded(m, s, average) ==
   IF average /\ s.hcp \in DOMAIN m.index
     THEN [m EXCEPT !.held[m.index[s.hcp]] = [Sum(@, s) EXCEPT !.candidates = s.candidates @@ @]]
     ELSE [held |-> Append(m.held, s),
           index |-> IF average THEN (s.hcp :> Len(m.held) + 1) @@ m.index ELSE m.index]

\* A position read again is added to the first one; duplicates says where that is.
Load(m, s, average) ==
   IF average /\ s.hcp \in DOMAIN m.index
     THEN [m EXCEPT !.held[m.index[s.hcp]] = Sum(@, s)]
     ELSE [held |-> Append(m.held, s),
           index |-> IF average THEN (s.hcp :> Len(m.held) + 1) @@ m.index ELSE m.index]

\* The evaluations and results evalfix fits a to, mates left out.
EvalfixPairs(file) ==
   FlattenSeq([k \in 1 .. Len(file.records) |->
      LET r == file.records[k] IN
      IF file.hcpe
        THEN IF r.eval \in (-Mate + 1) .. (Mate - 1)
               THEN <<[eval |-> r.eval, result |-> MakeResult(r.result, Turn[r.hcp])]>> ELSE <<>>
        ELSE LET fit == SelectSeq(Kept(r), LAMBDA i : r.infos[i].eval \in (-Mate + 1) .. (Mate - 1))
             IN  [n \in 1 .. Len(fit) |-> [eval |-> r.infos[fit[n]].eval,
                                           result |-> MakeResult(r.result, Turn[Reached(r)[fit[n]]])]]])
\* A file without evaluations keeps the scale it has, 0.
Scale(file) ==
   IF \A n \in 1 .. Len(EvalfixPairs(file)) : EvalfixPairs(file)[n].eval = 0
     THEN 0 ELSE Fit

(***************************************************************************)
(* load_files, with the calls of the module it makes.                      *)
(***************************************************************************)
LoadCache(c) == cache' = c

\* What is written clears the memory: the data has to be read from the cache.
CreateCache(c) ==
   /\ disk' = (c :> held) @@ disk
   /\ from' = (c :> read) @@ from
   /\ held' = <<>> /\ index' = <<>>

StartLoad(j) ==
   /\ pc = "off" /\ starts < MaxStarts
   /\ job' = j /\ starts' = starts + 1
   /\ IF j.cache \in DOMAIN disk
        THEN /\ LoadCache(j.cache)
             /\ sumLen' = Len(disk[j.cache]) /\ pc' = "loaded" /\ UNCHANGED todo
        ELSE /\ todo' = j.files /\ sumLen' = Unknown /\ pc' = "files" /\ UNCHANGED cache
   /\ read' = [samples |-> <<>>, average |-> j.average, mixed |-> {}]
   /\ UNCHANGED <<held, index, disk, from>>

\* A file that is not there is skipped, one without positions is an error.
LoadHcpe3 ==
   /\ pc = "files" /\ todo # <<>>
   /\ todo' = Tail(todo)
   /\ IF Head(todo) \in DOMAIN Files
        THEN \E file \in {Files[Head(todo)]} :
             \E samples \in {SamplesOf(file, IF job.evalfix THEN Scale(file) ELSE 0, job.power)} :
             \E m \in {FoldLeft(LAMBDA x, s : Load(x, s, job.average),
                                [held |-> held, index |-> index], samples)} :
                /\ held' = m.held /\ index' = m.index
                /\ sumLen' = Len(m.held)
                /\ pc' = IF samples = <<>> THEN "failed" ELSE pc
                /\ read' = [read EXCEPT !.samples = @ \o samples]
        ELSE UNCHANGED <<held, index, sumLen, pc, read>>
   /\ UNCHANGED <<job, cache, disk, starts, from>>

\* Every equal position is replaced; one that is not there is added.
Patch(data, s) ==
   IF \E i \in 1 .. Len(data) : data[i].hcp = s.hcp
     THEN [i \in 1 .. Len(data) |-> IF data[i].hcp = s.hcp THEN s ELSE data[i]]
     ELSE Append(data, s)

\* Kept for the properties: what the patch makes of the samples read.
Overruled(samples) ==
   LET said == {r.hcp : r \in ToSet(job.patch)}
       Word(h) == OfHcpe(job.patch[Max({n \in 1 .. Len(job.patch) : job.patch[n].hcp = h})], 0)
       Words(hs) == SetToSeq({Word(h) : h \in hs})
   IN  IF job.average THEN SelectSeq(samples, LAMBDA s : s.hcp \notin said) \o Words(said)
       ELSE [n \in 1 .. Len(samples) |->
               IF samples[n].hcp \in said THEN Word(samples[n].hcp) ELSE samples[n]]
            \o Words(said \ {s.hcp : s \in ToSet(samples)})

PatchWithHcpe ==
   /\ pc = "files" /\ todo = <<>>
   /\ held' = FoldLeft(LAMBDA d, r : Patch(d, OfHcpe(r, 0)), held, job.patch)
   /\ read' = [read EXCEPT !.samples = Overruled(@)]
   /\ pc' = "patched"
   /\ UNCHANGED <<job, todo, sumLen, index, cache, disk, starts, from>>

\* The length is that before the patch: a patch that adds positions fails the
\* assertion, and no file at all leaves no length to compare or to return.
ReturnLoaded ==
   /\ pc = "patched"
   /\ IF job.cache = None
        THEN /\ pc' = IF sumLen = Unknown THEN "failed" ELSE "loaded"
             /\ UNCHANGED <<held, index, disk, from, cache>>
        ELSE /\ CreateCache(job.cache)
             /\ LoadCache(job.cache)
             /\ pc' = IF sumLen = Len(held) THEN "loaded" ELSE "failed"
   /\ UNCHANGED <<job, todo, sumLen, starts, read>>

\* The process ends; what is not in a cache is gone.
Exit ==
   /\ pc \in {"loaded", "failed"}
   /\ pc' = "off" /\ held' = <<>> /\ index' = <<>> /\ cache' = None
   /\ read' = [samples |-> <<>>, average |-> FALSE, mixed |-> {}]
   /\ UNCHANGED <<job, todo, sumLen, disk, starts, from>>

(***************************************************************************)
(* The tools on caches, each a process of its own.                         *)
(***************************************************************************)
Start(out) ==
   /\ pc = "off" /\ starts < MaxStarts
   /\ out \in Caches \ DOMAIN disk
   /\ starts' = starts + 1
   /\ UNCHANGED <<pc, job, todo, sumLen, held, index, cache, read>>

Of(data, h) == data[CHOOSE i \in 1 .. Len(data) : data[i].hcp = h]

\* The first file with what the second says of its positions, then the others of the
\* second, in an order of their own.
Merged(one, two) ==
   [i \in 1 .. Len(one) |->
      IF \E j \in 1 .. Len(two) : two[j].hcp = one[i].hcp THEN Sum(one[i], Of(two, one[i].hcp)) ELSE one[i]]
   \o SelectSeq(two, LAMBDA d : \A i \in 1 .. Len(one) : one[i].hcp # d.hcp)

MergeCache(c1, c2, out) ==
   /\ Start(out)
   /\ {c1, c2} \subseteq DOMAIN disk
   /\ from[c1].average /\ from[c2].average
   /\ disk' = (out :> Merged(disk[c1], disk[c2])) @@ disk
   /\ from' = (out :> [samples |-> from[c1].samples \o from[c2].samples,
                       average |-> TRUE, mixed |-> {}]) @@ from

Mean(d) ==
   [hcp |-> d.hcp, value |-> d.value \div d.count, result |-> d.result \div d.count, count |-> 1,
    candidates |-> [m \in DOMAIN d.candidates |-> d.candidates[m] \div d.count]]

\* The moves a network's policy is cut down to: none below the limit-th best, none
\* more than dropoff below the best, none of less than an even share of all moves.
Threshold(net, mix) ==
   LET n == Cardinality(DOMAIN net)
       sorted == SetToSortSeq(DOMAIN net, LAMBDA x, y : net[x] > net[y])
   IN  Max({Least, net[sorted[1]] - mix.dropoff}
           \cup (IF n > mix.limit THEN {net[sorted[mix.limit]]} ELSE {}))

Filtered(net, mix) ==
   LET left == {m \in DOMAIN net : net[m] >= Threshold(net, mix)}
   IN  [m \in left |-> (Unit * net[m]) \div SumFunctionOnSet(net, left)]

Blend(alpha, mine, nets) == ((4 - alpha) * mine + alpha * nets) \div 4

ReEval(d, mix) ==
   LET mean == Mean(d)
       net == Filtered(Policy[d.hcp], mix)
   IN  [mean EXCEPT
          !.candidates = IF mix.p = 0 THEN @ ELSE IF mix.p = 4 THEN net
                         ELSE [m \in DOMAIN @ \cup DOMAIN net |-> Blend(mix.p, At(@, m), At(net, m))],
          !.value = Blend(mix.v, @, Worth[d.hcp]),
          !.result = Blend(mix.r, @, Worth[d.hcp])]

\* The cache is loaded, re-evaluated position by position and written as another.
CacheReEval(c, out, mix) ==
   /\ Start(out)
   /\ c \in DOMAIN disk /\ c # out
   /\ \E data \in {[i \in 1 .. Len(disk[c]) |-> ReEval(disk[c][i], mix)]} :
         /\ disk' = (out :> data) @@ disk
         /\ from' = (out :> [samples |-> data, average |-> from[c].average,
                             mixed |-> {[of |-> disk[c], mix |-> mix]}]) @@ from

(***************************************************************************)
(* The other tools: what they make of a file or of a position.             *)
(***************************************************************************)
ToHcpe(file) ==
   [hcpe |-> TRUE,
    records |-> FlattenSeq([k \in 1 .. Len(file.records) |->
                   LET g == file.records[k] IN
                   [n \in 1 .. Len(Kept(g)) |->
                      [hcp |-> Reached(g)[Kept(g)[n]], move |-> g.infos[Kept(g)[n]].move,
                       eval |-> g.infos[Kept(g)[n]].eval, result |-> g.result]]])]

\* The labels of a record, and those of the two more outputs of a network that has them.
DecodeHcpe(r) ==
   [hcp |-> r.hcp, move |-> r.move, result |-> MakeResult(r.result, Turn[r.hcp]),
    value |-> Value[0][r.eval]]
DecodeHcpe2(r) ==
   DecodeHcpe(r) @@ [sennichite |-> (r.result \div 4) % 2, nyugyoku |-> (r.result \div 8) % 2]

\* The games up to one the file ends in.
Clean(file) ==
   LET cut == {k \in 1 .. Len(file.records) : ~file.records[k].whole}
   IN  [file EXCEPT !.records = IF cut = {} THEN @ ELSE SubSeq(@, 1, Min(cut) - 1)]

(* Fault: the winner is the side to move whoever it is.                     *)
HcpeOfBlack(d) ==
   {[hcp |-> d.hcp, move |-> m, value |-> d.value \div d.count,
     result |-> IF 2 * (d.result \div d.count) < Unit THEN 2
                ELSE IF 2 * (d.result \div d.count) > Unit THEN 1 ELSE 0] :
      m \in {x \in DOMAIN d.candidates : \A y \in DOMAIN d.candidates : d.candidates[y] <= d.candidates[x]}}

\* A position as a record of one move, any of the best; its evaluation is the one of
\* the value.
HcpeOf(d) ==
   {[hcp |-> d.hcp, move |-> m, value |-> d.value \div d.count,
     result |-> IF 2 * (d.result \div d.count) < Unit THEN IF Turn[d.hcp] = "Black" THEN 2 ELSE 1
                ELSE IF 2 * (d.result \div d.count) > Unit THEN IF Turn[d.hcp] = "Black" THEN 1 ELSE 2
                ELSE 0] :
      m \in {x \in DOMAIN d.candidates : \A y \in DOMAIN d.candidates : d.candidates[y] <= d.candidates[x]}}

InitFiles ==
   /\ pc = "off" /\ job \in Jobs /\ todo = <<>> /\ sumLen = Unknown
   /\ held = <<>> /\ index = <<>> /\ cache = None
   /\ disk = <<>> /\ from = <<>> /\ starts = 0
   /\ read = [samples |-> <<>>, average |-> FALSE, mixed |-> {}]

NextFiles ==
   \/ \E j \in Jobs : StartLoad(j)
   \/ LoadHcpe3
   \/ PatchWithHcpe
   \/ ReturnLoaded
   \/ \E c1, c2, out \in Caches : MergeCache(c1, c2, out)
   \/ \E c, out \in Caches, mix \in Mixes : CacheReEval(c, out, mix)

(***************************************************************************)
(* Properties.                                                             *)
(***************************************************************************)
\* All the samples of a position, added up.
Total(samples, h) ==
   LET those == {n \in 1 .. Len(samples) : samples[n].hcp = h}
       SumOf(f) == SumFunctionOnSet(f, those)
       moves == UNION {DOMAIN samples[n].candidates : n \in those}
   IN  [hcp |-> h, count |-> SumOf([n \in those |-> samples[n].count]),
        value |-> SumOf([n \in those |-> samples[n].value]),
        result |-> SumOf([n \in those |-> samples[n].result]),
        candidates |-> [m \in moves |-> SumOf([n \in those |-> At(samples[n].candidates, m)])]]

Represents(data, r) ==
   LET hcps == {r.samples[n].hcp : n \in 1 .. Len(r.samples)} IN
   /\ IF r.average
        THEN /\ Len(data) = Cardinality(hcps)
             /\ ToSet(data) = {Total(r.samples, h) : h \in hcps}
        ELSE Len(data) = Len(r.samples) /\ ToSet(data) = ToSet(r.samples)
   /\ \A i \in 1 .. Len(data) :
         SumFunction(data[i].candidates) = data[i].count * Unit

\* The moves that are among the best limit_candidates, close to the best and not rare.
Worthy(net, mix) ==
   {m \in DOMAIN net :
      /\ Cardinality({x \in DOMAIN net : net[x] > net[m]}) < mix.limit
      /\ \A x \in DOMAIN net : net[m] >= net[x] - mix.dropoff
      /\ net[m] >= Least}

\* A re-evaluated position keeps what alpha leaves it of its averages and takes the rest
\* from the network, of whose policy only worthy moves count, in proportion: nothing of
\* the averages is lost, and a move that neither knew or kept does not appear.
ReEvalIsBlend ==
   \A c \in DOMAIN disk : \A mixed \in from[c].mixed :
      \A i \in 1 .. Len(disk[c]) :
         LET old == mixed.of[i]
             mix == mixed.mix
             new == disk[c][i]
             worthy == Worthy(Policy[old.hcp], mix)
             sum == SumFunctionOnSet(Policy[old.hcp], worthy)
             Share(m) == IF m \in worthy THEN (Policy[old.hcp][m] * Unit) \div sum ELSE 0
         IN  /\ new.hcp = old.hcp /\ new.count = 1
             /\ 4 * old.count * new.value
                   = (4 - mix.v) * old.value + mix.v * old.count * Worth[old.hcp]
             /\ \A m \in DOMAIN old.candidates \cup DOMAIN Policy[old.hcp] :
                   4 * old.count * At(new.candidates, m)
                      = (4 - mix.p) * At(old.candidates, m) + mix.p * old.count * Share(m)
             /\ \A m \in DOMAIN new.candidates : new.candidates[m] > 0

\* What is held in memory and in every cache, merged ones too, stands for the samples
\* that were read into it and for no others, each once and with the policies adding up:
\* duplicates finds every position again, and a patch replaces it wherever it stands;
\* and what is re-evaluated is the blend of the averages and the network.
DataAreSamples ==
   /\ cache = None => Represents(held, read)
   /\ \A c \in DOMAIN disk : Represents(disk[c], from[c])
   /\ ReEvalIsBlend

\* The readers of a whole file agree: converted to positions it gives the same positions,
\* values and results in the same order, evalfix fits the evaluations that are loaded,
\* the labels of a record are those it is loaded with, and a position taken out again is
\* the one put in.  Cleaned, any file of games is whole and is read as its games were, up
\* to the one the file ends in.
FilesAgree ==
   pc = "loaded" =>
      \A name \in DOMAIN Files :
         LET file == Files[name]
             samples == SamplesOf(file, 0, job.power)
             Plain(x) == [n \in 1 .. Len(x) |-> [x[n] EXCEPT !.candidates = <<>>]]
         IN  /\ ~file.hcpe =>
                   /\ Whole(Clean(file)) /\ (Whole(file) => Clean(file) = file)
                   /\ IsPrefix(SamplesOf(Clean(file), 0, job.power), samples)
             /\ ~file.hcpe /\ Whole(file) =>
                   /\ Plain(SamplesOf(ToHcpe(file), 0, job.power)) = Plain(samples)
                   /\ EvalfixPairs(ToHcpe(file)) = EvalfixPairs(file)
             /\ file.hcpe => \A n \in 1 .. Len(samples) :
                   LET r == DecodeHcpe2(file.records[n]) IN
                   /\ [samples[n] EXCEPT !.value = r.value, !.result = r.result,
                                         !.candidates = OneHot(r.move)] = samples[n]
                   /\ [x \in DOMAIN DecodeHcpe(file.records[n]) |-> r[x]] = DecodeHcpe(file.records[n])
             /\ \A n \in 1 .. Len(samples) :
                   \A r \in HcpeOf(samples[n]) :
                      /\ r.value = samples[n].value
                      /\ MakeResult(r.result, Turn[r.hcp]) = samples[n].result
                      /\ \A m \in DOMAIN samples[n].candidates :
                            samples[n].candidates[m] <= samples[n].candidates[r.move]
=============================================================================
