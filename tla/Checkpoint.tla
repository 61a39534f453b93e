----------------------------- MODULE Checkpoint -----------------------------
(***************************************************************************)
(* Checkpoints on disk (nemo_rl/utils/checkpoint.py, CheckpointManager)    *)
(* and the training runs that write them and resume from them.             *)
(*                                                                         *)
(* A run writes the files of a checkpoint into tmp_step_N, renames the     *)
(* directory to step_N and removes the checkpoints that are neither among  *)
(* the best keep_top_k nor the latest.  It may be killed between any two   *)
(* of these file system operations, and in the middle of a write; the next *)
(* run resumes from the step_N with the highest N.                         *)
(***************************************************************************)
EXTENDS Integers, FiniteSets, FiniteSetsExt

CONSTANTS
  KeepTopK,        \* keep_top_k; a value of MaxStep or more keeps everything
  UsesMetric,      \* whether metric_name is given
  HigherIsBetter,  \* higher_is_better
  Metrics,         \* the values the metric takes
  MaxStep,         \* bound on the steps
  MaxRuns,         \* bound on the runs
  MaxRewinds       \* bound on the runs that start below what they resume from

ASSUME CheckpointAssumption ==
  /\ KeepTopK \in Nat
  /\ UsesMetric \in BOOLEAN
  /\ HigherIsBetter \in BOOLEAN
  /\ Metrics \subseteq Nat
  /\ MaxStep \in Nat \ {0}
  /\ MaxRuns \in Nat \ {0}
  /\ MaxRewinds \in Nat

VARIABLES
  disk,      \* the directories tmp_step_N, step_N and old_step_N
  run,       \* number of the current run
  pc,        \* where the run is
  step,      \* its step
  metric,    \* the metric it saves with the step
  doomed,    \* the steps remove_old_checkpoints still has to delete
  saved,     \* history: the checkpoints that reached their final name
  rewinds    \* history: the runs that started below what they resumed from

vars == <<disk, run, pc, step, metric, doomed, saved, rewinds>>

Steps == 1..MaxStep
Names == {"tmp", "step", "old"} \X Steps

\* No value of the metric was collected for the step.
NoMetric == -1
Values == Metrics \cup {NoMetric}

\* A file is missing, was cut off by a crash, or was written by a run.
Missing == 0
Damaged == -1
Content == -1..MaxRuns

\* The files of a checkpoint: training_info.json (info, with its metric), the
\* policy's weights, train_dataloader.pt (data).
Files == {"info", "weights", "data"}
Directory == [there : BOOLEAN, info : Content, weights : Content,
              data : Content, metric : Values]

NoDirectory == [there |-> FALSE, info |-> Missing, weights |-> Missing,
                data |-> Missing, metric |-> NoMetric]

Whole(dir) ==
  dir.info > 0 /\ dir.weights = dir.info /\ dir.data = dir.info

Pcs == {"setup", "train", "info", "weights", "data", "finalize", "replace",
        "aside", "rank", "prune", "pruned", "failed"}

Init ==
  /\ disk = [name \in Names |-> NoDirectory]
  /\ run = 1
  /\ pc = "setup"
  /\ step = 0
  /\ metric = NoMetric
  /\ doomed = {}
  /\ saved = {}
  /\ rewinds = 0

\* Files are in directories that exist, and the rest has its type.
TypeOK ==
  /\ disk \in [Names -> Directory]
  /\ \A name \in Names : disk[name].there \/ disk[name] = NoDirectory
  /\ run \in 1..MaxRuns
  /\ pc \in Pcs
  /\ step \in 0..MaxStep
  /\ metric \in Values
  /\ doomed \subseteq Steps
  /\ saved \subseteq [step : Steps, metric : Values]
  /\ rewinds \in 0..MaxRewinds

-----------------------------------------------------------------------------
(* Reading the directory: _load_checkpoint_history,                        *)
(* get_latest_checkpoint_path, get_best_checkpoint_path.                   *)

StepDirs == {s \in Steps : disk[<<"step", s>>].there}

\* 0 when there is no checkpoint.
LatestStep == Max(StepDirs \cup {0})

\* A checkpoint as the ranking knows it.
Entry(s) == [step |-> s, metric |-> disk[<<"step", s>>].metric]

\* The step directories that have a training_info.json.
History == {Entry(s) : s \in {t \in StepDirs : disk[<<"step", t>>].info # Missing}}

\* A checkpoint without the metric is worse than any with it.
Better(c, d) ==
  /\ c.metric # NoMetric
  /\ \/ d.metric = NoMetric
     \/ IF HigherIsBetter THEN c.metric > d.metric ELSE c.metric < d.metric

\* The sort key of remove_old_checkpoints: equal metrics prefer later steps.
Precedes(c, d) ==
  IF UsesMetric THEN Better(c, d) \/ (~Better(d, c) /\ c.step > d.step)
                ELSE c.step > d.step

Top(C, k) == {c \in C : Cardinality({d \in C : Precedes(d, c)}) < k}

-----------------------------------------------------------------------------
(* A training run.                                                         *)

\* The run takes up the latest checkpoint, or ends here if it cannot read its
\* training_info.json.  The synchronous loop of GRPO names its checkpoints
\* after total_steps and the asynchronous one after current_step, and neither
\* keeps the other's counter: after a change of loop the steps of a run start
\* below the number of the checkpoint it resumed from.
Resume ==
  /\ pc = "setup"
  /\ LatestStep # 0 => disk[<<"step", LatestStep>>].info > 0
  /\ \/ step' = LatestStep /\ UNCHANGED rewinds
     \/ /\ rewinds < MaxRewinds
        /\ rewinds' = rewinds + 1
        /\ step' \in 0 .. LatestStep - 1
  /\ pc' = "train"
  /\ UNCHANGED <<disk, run, metric, doomed, saved>>

TrainStep ==
  /\ pc \in {"train", "pruned"}
  /\ step < MaxStep
  /\ step' = step + 1
  /\ \/ pc' = "train" /\ UNCHANGED metric
     \/ pc' = "info" /\ metric' \in Values
  /\ UNCHANGED <<disk, run, doomed, saved, rewinds>>

\* Write a file of tmp_step_N, whatever an earlier run left there.
WriteFile(file, next) ==
  /\ pc = file
  /\ pc' = next
  /\ disk' = [disk EXCEPT ![<<"tmp", step>>].there = TRUE,
                          ![<<"tmp", step>>][file] = run,
                          ![<<"tmp", step>>].metric =
                            IF file = "info" THEN metric ELSE @]
  /\ UNCHANGED <<run, step, metric, doomed, saved, rewinds>>

\* Mutant: nothing creates the directory.
InitWithoutMkdir ==
  /\ pc = "info"
  /\ pc' = "weights"
  /\ disk' = [disk EXCEPT ![<<"tmp", step>>].info = run,
                          ![<<"tmp", step>>].metric = metric]
  /\ UNCHANGED <<run, step, metric, doomed, saved, rewinds>>

InitTmpCheckpoint == WriteFile("info", "weights")

\* Mutant: the directory is renamed before it is complete.
SaveWeightsFinalizes == WriteFile("weights", "finalize")

SaveWeights == WriteFile("weights", "data")
SaveDataloader == WriteFile("data", "finalize")

-----------------------------------------------------------------------------
(* finalize_checkpoint and remove_old_checkpoints.                         *)

\* Mutant: the directory is copied and the original stays.
Copied(from, to) == [disk EXCEPT ![<<to, step>>] = disk[<<from, step>>]]

\* os.rename of a directory.
Renamed(from, to) ==
  [disk EXCEPT ![<<to, step>>] = disk[<<from, step>>],
               ![<<from, step>>] = NoDirectory]

\* os.rename refuses a target directory that is not empty.
Occupied(name) == \E file \in Files : disk[name][file] # Missing

RecordSaved ==
  saved' = {c \in saved : c.step # step}
             \cup {[step |-> step, metric |-> disk[<<"tmp", step>>].metric]}

\* There is no step_N.
MoveNew ==
  /\ pc = "finalize"
  /\ ~disk[<<"step", step>>].there
  /\ disk' = Renamed("tmp", "step")
  /\ RecordSaved
  /\ pc' = "rank"
  /\ UNCHANGED <<run, step, metric, doomed, rewinds>>

\* Mutant: step_N is deleted instead of being moved aside.
DeleteFirst ==
  /\ pc = "finalize"
  /\ disk[<<"step", step>>].there
  /\ disk' = [disk EXCEPT ![<<"step", step>>] = NoDirectory]
  /\ pc' = "replace"
  /\ UNCHANGED <<run, step, metric, doomed, saved, rewinds>>

\* There is one: it becomes old_step_N ...
MoveAside ==
  /\ pc = "finalize"
  /\ disk[<<"step", step>>].there
  /\ ~Occupied(<<"old", step>>)
  /\ disk' = Renamed("step", "old")
  /\ pc' = "replace"
  /\ UNCHANGED <<run, step, metric, doomed, saved, rewinds>>

\* ... unless an old_step_N was left behind.
MoveAsideFails ==
  /\ pc = "finalize"
  /\ disk[<<"step", step>>].there
  /\ Occupied(<<"old", step>>)
  /\ pc' = "failed"
  /\ UNCHANGED <<disk, run, step, metric, doomed, saved, rewinds>>

Replace ==
  /\ pc = "replace"
  /\ disk' = Renamed("tmp", "step")
  /\ RecordSaved
  /\ pc' = "aside"
  /\ UNCHANGED <<run, step, metric, doomed, rewinds>>

\* One file system operation of shutil.rmtree, in an arbitrary order.
RemoveSome(name) ==
  \/ \E file \in Files :
       /\ disk[name][file] # Missing
       /\ disk' = [disk EXCEPT ![name][file] = Missing]
  \/ /\ ~Occupied(name)
     /\ disk' = [disk EXCEPT ![name] = NoDirectory]

RemoveAside ==
  /\ pc = "aside"
  /\ disk[<<"old", step>>].there
  /\ RemoveSome(<<"old", step>>)
  /\ UNCHANGED <<run, pc, step, metric, doomed, saved, rewinds>>

AsideRemoved ==
  /\ pc = "aside"
  /\ ~disk[<<"old", step>>].there
  /\ pc' = "rank"
  /\ UNCHANGED <<disk, run, step, metric, doomed, saved, rewinds>>

\* Mutant: the latest checkpoint is not excluded.
RankAll ==
  /\ pc = "rank"
  /\ doomed' = {c.step : c \in History \ Top(History, KeepTopK)}
  /\ pc' = "prune"
  /\ UNCHANGED <<disk, run, step, metric, saved, rewinds>>

\* Mutant: the most recent checkpoints are kept, whatever their metric.
RankRecent ==
  /\ pc = "rank"
  /\ doomed' = {c.step : c \in {d \in History :
                   Cardinality({e \in History : e.step > d.step}) >= KeepTopK}}
  /\ pc' = "prune"
  /\ UNCHANGED <<disk, run, step, metric, saved, rewinds>>

\* The best keep_top_k and the latest are kept.
Rank ==
  /\ pc = "rank"
  /\ doomed' = {c.step : c \in History \ Top(History, KeepTopK)}
                 \ {Max({c.step : c \in History})}
  /\ pc' = "prune"
  /\ UNCHANGED <<disk, run, step, metric, saved, rewinds>>

\* One after the other, in the order of the ranking.
Prune ==
  /\ pc = "prune"
  /\ \E s \in doomed :
       /\ \A t \in doomed \ {s} : Precedes(Entry(s), Entry(t))
       /\ RemoveSome(<<"step", s>>)
       /\ doomed' = {t \in doomed : disk'[<<"step", t>>].there}
  /\ UNCHANGED <<run, pc, step, metric, saved, rewinds>>

Pruned ==
  /\ pc = "prune"
  /\ doomed = {}
  /\ pc' = "pruned"
  /\ UNCHANGED <<disk, run, step, metric, doomed, saved, rewinds>>

\* The run is killed, or ended by the exception, and another one starts.  A
\* file that was being written may be cut off.
Crash ==
  /\ run < MaxRuns
  /\ run' = run + 1
  /\ pc' = "setup"
  /\ doomed' = {}
  /\ \/ UNCHANGED disk
     \/ /\ pc \in Files
        /\ disk' = [disk EXCEPT ![<<"tmp", step>>].there = TRUE,
                                ![<<"tmp", step>>][pc] = Damaged]
  /\ UNCHANGED <<step, metric, saved, rewinds>>

Next ==
  \/ Resume \/ TrainStep
  \/ InitTmpCheckpoint \/ SaveWeights \/ SaveDataloader
  \/ MoveNew \/ MoveAside \/ MoveAsideFails \/ Replace \/ RemoveAside
  \/ AsideRemoved \/ Rank \/ Prune \/ Pruned \/ Crash

Spec == Init /\ [][Next]_vars

-----------------------------------------------------------------------------
\* A run can always resume: wherever earlier runs were killed, the latest
\* step directory has all its files, every one of them written by the same
\* run.  The exception is an override that has set a later step aside: the
\* latest directory left may then be one whose removal was interrupted.
LatestIsWhole ==
  LatestStep # 0 =>
    \/ Whole(disk[<<"step", LatestStep>>])
    \/ \E s \in Steps : s > LatestStep /\ Whole(disk[<<"old", s>>])

\* No crash costs more than the steps since the last completed save, and the
\* override of an existing step_N is "pseudo-atomic": at every moment the
\* latest step is as high as any saved one, or a whole checkpoint that is has
\* been set aside as old_step_N.
NothingLost ==
  \A c \in saved :
    \E s \in c.step .. MaxStep : s \in StepDirs \/ Whole(disk[<<"old", s>>])

\* The best keep_top_k of all the checkpoints ever saved, by all the runs
\* together, are on disk and whole, whichever removals were interrupted; only
\* a step that is saved again, with a worse metric, can break this.
BestKept ==
  rewinds = 0 =>
    \A c \in Top(saved, KeepTopK) : Whole(disk[<<"step", c.step>>])

\* The directory grows by nothing but what kills leave behind: after a save
\* it holds at most keep_top_k + 1 checkpoints, and at most two directories
\* more for every run that was killed.  These are a tmp_step_N, an old_step_N,
\* both of them between the two renames of an override, or a step_N whose
\* removal had already taken its training_info.json; no later save lists and
\* removes them.  Removals go one directory after the other, so that a kill
\* leaves one of them unfinished, and a step_N that still has its
\* training_info.json is listed, and removed, by the next save.
RoomBounded ==
  pc = "pruned" =>
    Cardinality({name \in Names : disk[name].there}) <= KeepTopK + 1 + 2 * (run - 1)
=============================================================================
