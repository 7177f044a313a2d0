------------------------------ MODULE Trainer ------------------------------
(***************************************************************************)
(* The training loop of dlshogi/train.py and the loader of                 *)
(* dlshogi/data_loader.py that hands it batches: a thread of its own        *)
(* decodes the next batch into buffers the loader keeps, while the trainer *)
(* works on the one before.  A crash loses the process; a checkpoint       *)
(* written after each epoch lets another go on from there.                 *)
(*                                                                         *)
(* The weights are what the trainer was given: how often each position.    *)
(***************************************************************************)
EXTENDS TrainingData

CONSTANTS
  BatchSize,
  EvalInterval,  \* steps between two log lines
  Epochs,        \* --epoch: how many one process trains
  Shuffles       \* orders a shuffle leads to, by the number of positions

ASSUME BatchSizeAssumption == BatchSize \in Nat \ {0}

VARIABLES
  phase,         \* "none", or what the training is about to do
  order,         \* train_data: the indexes, shuffled
  i,             \* how far the loader is
  buffers,       \* its features, moves, results and values, row by row
  f,             \* the future of the batch submitted last
  batch,         \* the batch the trainer was given
  epoch, t,      \* epochs and steps behind the weights
  left,          \* epochs this process still trains
  steps,         \* steps since the last log line
  stepsEpoch,    \* steps in the averages of the epoch
  weights,       \* how often the trainer was given each index
  checkpoint,    \* what the last save holds, {} before it
  device         \* where the network is

loop == <<phase, order, i, buffers, f, batch, epoch, t, left, steps, stepsEpoch, weights, checkpoint,
          device>>
vars == <<files, loop>>

NoRow == [hcp |-> None]
NoFuture == [chunk |-> <<>>, rows |-> {}, result |-> <<>>]
Data == IF cache = None THEN held ELSE disk[cache]

(***************************************************************************)
(* DataLoader.                                                             *)
(***************************************************************************)
\* hcpe3_decode_with_value for one index.
Row(n) == LET d == Data[n] IN Mean(d)

\* A chunk that is not full is not decoded; the loader moves on all the same.
PreFetch(ord, at) ==
   /\ i' = at + BatchSize
   /\ f' = IF at + BatchSize <= Len(ord)
             THEN [chunk |-> SubSeq(ord, at + 1, at + BatchSize),
                   rows |-> 1 .. BatchSize, result |-> <<>>]
             ELSE f

\* The worker decodes the rows in any order; two threads share them.
DecodeRow ==
   /\ \E r \in f.rows :
         /\ buffers' = [buffers EXCEPT ![r] = Row(f.chunk[r])]
         /\ f' = [f EXCEPT !.rows = @ \ {r}]
   /\ UNCHANGED <<files, phase, order, i, batch, epoch, t, left, steps, stepsEpoch, weights, checkpoint,
                  device>>

\* The tensors of a batch: copies on a GPU.  On a CPU `to` copies nothing and gives the
\* buffers themselves, into which the next batch is decoded; the loader of positions
\* clones them there (data_loader.py 59-66), this one does not.
Buffers == <<None>>
OnDevice(rows) == IF device = "cpu" THEN Buffers ELSE rows
InUse == IF batch = Buffers THEN buffers ELSE batch


\* mini_batch returns the batch on the device.
ToDevice ==
   /\ f.chunk # <<>> /\ f.rows = {} /\ f.result = <<>>
   /\ f' = [f EXCEPT !.result = OnDevice(buffers)]
   /\ UNCHANGED <<files, phase, order, i, buffers, batch, epoch, t, left, steps, stepsEpoch, weights,
                  checkpoint, device>>

(***************************************************************************)
(* The training loop.                                                      *)
(***************************************************************************)
\* --gpu -1 trains on the CPU.
Devices == {"cuda", "cpu"}

\* A new training, or one that resumes from the checkpoint.
Begin ==
   /\ pc = "loaded" /\ phase = "none"
   /\ phase' = "epoch" /\ left' = Epochs /\ device' \in Devices
   /\ order' = [n \in 1 .. sumLen |-> n]
   /\ buffers' = [r \in 1 .. BatchSize |-> NoRow]
   /\ f' = NoFuture /\ i' = 0 /\ batch' = <<>> /\ steps' = 0 /\ stepsEpoch' = 0
   /\ \/ /\ epoch' = 0 /\ t' = 0
         /\ weights' = [n \in 1 .. sumLen |-> 0]
      \/ \E saved \in checkpoint :
            /\ saved.job = job
            /\ epoch' = saved.epoch /\ t' = saved.t
            /\ weights' = saved.weights
   /\ UNCHANGED <<files, checkpoint>>

(* Fault: a new epoch does not have its first batch decoded.                *)
StartEpochUnfetched ==
   /\ phase = "epoch" /\ left > 0
   /\ left' = left - 1
   /\ epoch' = epoch + 1 /\ stepsEpoch' = 0 /\ i' = 0
   /\ \E s \in Shuffles[Len(order)] : order' = [n \in 1 .. Len(order) |-> order[s[n]]]
   /\ phase' = "next"
   /\ UNCHANGED <<files, buffers, f, batch, t, steps, weights, checkpoint, device>>

StartEpoch ==
   /\ phase = "epoch" /\ left > 0
   /\ left' = left - 1
   /\ epoch' = epoch + 1 /\ stepsEpoch' = 0
   /\ \E s \in Shuffles[Len(order)] :
         /\ order' = [n \in 1 .. Len(order) |-> order[s[n]]]
         /\ PreFetch([n \in 1 .. Len(order) |-> order[s[n]]], 0)
   /\ phase' = "next"
   /\ UNCHANGED <<files, buffers, batch, t, steps, weights, checkpoint, device>>

(* Fault: the last batch is taken for the one that was not full.            *)
NextStopsEarly ==
   /\ phase = "next"
   /\ IF i >= Len(order) THEN phase' = "test" /\ UNCHANGED <<i, f, batch>>
      ELSE /\ f.result # <<>>
           /\ batch' = f.result
           /\ PreFetch(order, i)
           /\ phase' = "step"
   /\ UNCHANGED <<files, order, buffers, epoch, t, left, steps, stepsEpoch, weights, checkpoint, device>>

\* __next__ waits for the future and has the next batch decoded before it returns.
NextBatch ==
   /\ phase = "next"
   /\ IF i > Len(order) THEN phase' = "test" /\ UNCHANGED <<i, f, batch>>
      ELSE /\ f.result # <<>>
           /\ batch' = f.result
           /\ PreFetch(order, i)
           /\ phase' = "step"
   /\ UNCHANGED <<files, order, buffers, epoch, t, left, steps, stepsEpoch, weights, checkpoint, device>>

\* The batch is the one before i, of which the next was submitted.
Trained == {order[n] : n \in (i - 2 * BatchSize + 1) .. (i - BatchSize)}
TrainStep ==
   /\ phase = "step"
   /\ t' = t + 1
   /\ IF (t + 1) % EvalInterval = 0
        THEN stepsEpoch' = stepsEpoch + steps + 1 /\ steps' = 0
        ELSE UNCHANGED stepsEpoch /\ steps' = steps + 1
   /\ weights' = [n \in DOMAIN weights |-> weights[n] + IF n \in Trained THEN 1 ELSE 0]
   /\ phase' = "next"
   /\ UNCHANGED <<files, order, i, buffers, f, batch, epoch, left, checkpoint, device>>

\* The averages of an epoch without a batch divide by zero.  The steps since the last
\* log line are counted but not reset: the next epoch counts them again.
EndEpoch ==
   /\ phase = "test"
   /\ stepsEpoch' = stepsEpoch + steps
   /\ IF stepsEpoch + steps = 0
        THEN phase' = "error" /\ UNCHANGED checkpoint
        ELSE /\ phase' = "epoch"
             /\ checkpoint' = {[job |-> job, epoch |-> epoch, t |-> t, weights |-> weights]}
   /\ UNCHANGED <<files, order, i, buffers, f, batch, epoch, t, left, steps, weights, device>>

Gone ==
   /\ Exit
   /\ phase' = "none" /\ f' = NoFuture
   /\ UNCHANGED <<order, i, buffers, batch, epoch, t, left, steps, stepsEpoch, weights, checkpoint, device>>

\* The process ends after its epochs, on an error, or where it crashes.
End ==
   /\ phase \in {"none", "error"} \/ (phase = "epoch" /\ left = 0)
   /\ Gone
Crash ==
   /\ phase \in {"epoch", "next", "step", "test"}
   /\ Gone

Init ==
   /\ InitFiles
   /\ phase = "none" /\ order = <<>> /\ i = 0 /\ buffers = <<>> /\ f = NoFuture /\ batch = <<>>
   /\ epoch = 0 /\ t = 0 /\ left = 0 /\ steps = 0 /\ stepsEpoch = 0
   /\ weights = <<>> /\ checkpoint = {} /\ device = "cuda"

Load_ == NextFiles /\ UNCHANGED loop
Worker == DecodeRow \/ ToDevice
TrainerStep == StartEpoch \/ NextBatch \/ TrainStep \/ EndEpoch
Next == Load_ \/ Begin \/ Worker \/ TrainerStep \/ End \/ Crash
Spec == Init /\ [][Next]_vars
FairSpec == Spec /\ WF_vars(Worker) /\ WF_vars(TrainerStep)

(***************************************************************************)
(* Properties.                                                             *)
(***************************************************************************)
\* While the trainer works on a batch, row r of it is what was read of the r-th of the
\* next positions of the shuffled order: the averages of all its samples, whatever the
\* worker does to the buffers meanwhile.  On a CPU this fails (data_loader.py 277-283):
\* a row the worker has decoded again before the step is over is already that of the
\* batch after it.  It is never anything else, and not otherwise.
Redecoded(r) == batch = Buffers /\ i <= Len(order) /\ r \notin f.rows

\* An epoch gives the trainer every position at most once, and all but a last part of a
\* batch; weights that went through checkpoints and resumed processes are from each of
\* their epochs, no step of which is missing in t or in the averages of its epoch.
EpochsAreWhole ==
   phase \in {"epoch", "next", "step", "test"} =>
      LET full == Len(order) \div BatchSize
          epochs == IF phase = "epoch" THEN epoch ELSE epoch - 1
      IN  /\ \A n \in DOMAIN weights : weights[n] <= epoch
          /\ t * BatchSize = SumFunction(weights)
          /\ phase \in {"epoch", "test"} => t = epoch * full
          /\ phase \in {"next", "step"} => t - epochs * full \in 0 .. full
          /\ phase = "epoch" /\ left < Epochs =>
                stepsEpoch - full \in 0 .. (EvalInterval - 1)

\* Once an epoch is started its batches all come: it ends, unless the process crashes.
EpochsEnd == phase = "next" ~> phase \in {"epoch", "none", "error"}
=============================================================================
