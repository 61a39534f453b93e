------------------------------ MODULE AsyncGRPO ------------------------------
(***************************************************************************)
(* Asynchronous GRPO: the training loop (async_grpo_train in               *)
(* nemo_rl/algorithms/grpo.py) composed with the trajectory collector, its *)
(* worker threads and the replay buffer.                                   *)
(*                                                                         *)
(* The trainer submits calls to the collector actor and only waits for the *)
(* answers of prepare_for_refit and get_dataloader_state.  When it         *)
(* returns, normally or by an exception, both actors are killed (by its    *)
(* finally clause, or with the last handle to them).                       *)
(***************************************************************************)
EXTENDS TrajectoryCollector

CONSTANTS
  MaxSteps,       \* max_num_steps
  ValPeriod,      \* val_period, 0 when validation is off
  ValAtStart,     \* val_at_start
  SavePeriod,     \* save_period, 0 when checkpointing is disabled
  MayRaise        \* whether training, weight transfer or validation may raise

\* The last version of the weights: a run that resumes past its last step is
\* over at once.
LastVersion == IF StartStep < MaxSteps THEN MaxSteps ELSE StartStep

ASSUME TrainerAssumption ==
  /\ MaxSteps \in Nat
  /\ ValPeriod \in Nat
  /\ ValAtStart \in BOOLEAN
  /\ SavePeriod \in Nat
  /\ MayRaise \in BOOLEAN
  /\ MaxSize = NumPrompts * MaxAge * 2
  /\ Targets = StartStep .. LastVersion + MaxAge

VARIABLES
  tpc,       \* where the training loop is
  step,      \* step
  version,   \* weight_version: the last version sent to the engine
  engine,    \* the version of the weights the generation engine holds
  batch      \* the groups of the step being trained

trainerVars == <<tpc, step, version, engine, batch>>
vars == <<bufferVars, collectorVars, trainerVars>>

\* vLLM is loaded with load_format "dummy": random weights until a refit.
DummyWeights == -1

TrainerPcs == {"boot", "initRefit", "valStart", "valStartRun", "fill",
               "sample", "train", "prep", "refit", "val", "valRun", "save",
               "saveNext", "saveLast", "done", "aborted"}

TrainerInit ==
  /\ tpc = "boot"
  /\ step = StartStep
  /\ version = StartStep
  /\ engine = DummyWeights
  /\ batch = {}

TrainerTypeOK ==
  /\ tpc \in TrainerPcs
  /\ step \in Nat
  /\ version \in Nat
  /\ engine \in Nat \cup {DummyWeights}
  /\ batch \subseteq Group

TypeOK == BufferTypeOK /\ CollectorTypeOK /\ TrainerTypeOK

Init == BufferInit /\ CollectorInit /\ TrainerInit

\* ray.kill: once the trainer has returned no other thread takes a step.
Up == tpc \notin {"done", "aborted"}

-----------------------------------------------------------------------------
(* The training loop.                                                      *)

\* What a trainer step other than a submission leaves alone.
QuietCollector ==
  UNCHANGED <<threadVars, eventVars, versionVars, calls, busy, fetched>>

\* The trainer submits calls, in order, and does not wait for them.
Submit(seq) ==
  /\ calls' = calls \o seq
  /\ UNCHANGED <<threadVars, eventVars, versionVars, busy, fetched>>

Goto(pc) == tpc' = pc

LastStep == step + 1 = MaxSteps

\* The step count is a multiple of a period, when there is one.
Due(period) == period > 0 /\ (step + 1) % period = 0

\* A deadline that would be missed (early) forces a save.
Saves(early) == SavePeriod > 0 /\ (LastStep \/ Due(SavePeriod) \/ early)

Boot ==
  /\ tpc = "boot"
  /\ Submit(<<Simple("start"), [op |-> "setVersion", arg |-> version]>>)
  /\ Goto("initRefit")
  /\ UNCHANGED <<bufferVars, answered, step, version, engine, batch>>

\* The first weight transfer, while collection is already running.
InitialRefit ==
  /\ tpc = "initRefit"
  /\ engine' = version
  /\ Goto(IF ValAtStart /\ step = 0 THEN "valStart" ELSE "fill")
  /\ QuietCollector
  /\ UNCHANGED <<bufferVars, answered, step, version, batch>>

\* An exception in a weight transfer, in training, in a periodic validation or
\* in a save ends the run; the initial validation swallows its exceptions.
TrainerRaises ==
  /\ tpc \in {"initRefit", "train", "refit", "valRun", "save", "saveNext",
              "saveLast"}
  /\ MayRaise
  /\ Goto("aborted")
  /\ QuietCollector
  /\ UNCHANGED <<bufferVars, answered, step, version, engine, batch>>

\* Collection is paused for a validation and resumed after it.
PauseFor(from, to) ==
  /\ tpc = from
  /\ Submit(<<Simple("pause")>>)
  /\ Goto(to)
  /\ UNCHANGED <<bufferVars, answered, step, version, engine, batch>>

ResumeAfter(from, to) ==
  /\ tpc = from
  /\ Submit(<<Simple("resume")>>)
  /\ Goto(to)
  /\ UNCHANGED <<bufferVars, answered, step, version, engine, batch>>

InitialValidation == PauseFor("valStart", "valStartRun")
InitialValidationDone == ResumeAfter("valStartRun", "fill")

\* Wait until the buffer holds one step's worth of groups, then enter the
\* loop, which is left at once when the run resumes at its last step.
BufferReady ==
  /\ tpc = "fill"
  /\ Cardinality(groups) >= NumPrompts
  /\ Goto(IF step < MaxSteps THEN "sample" ELSE "done")
  /\ QuietCollector
  /\ UNCHANGED <<bufferVars, answered, step, version, engine, batch>>

Sample ==
  /\ tpc = "sample"
  /\ \E sel \in Oldest(Intended(version, MaxAge), NumPrompts) :
       /\ SampleReturns(NumPrompts, version, MaxAge, sel)
       /\ batch' = sel
  /\ Goto("train")
  /\ QuietCollector
  /\ UNCHANGED <<answered, step, version, engine>>

\* The buffer raises on an entry that is too old, and the loop's except
\* clause ends the run.
SampleFails ==
  /\ tpc = "sample"
  /\ SampleRaises(version, MaxAge)
  /\ Goto("aborted")
  /\ QuietCollector
  /\ UNCHANGED <<bufferVars, answered, step, version, engine, batch>>

\* Mutant: the new version is announced before its weights are transferred.
TrainAnnounces ==
  /\ tpc = "train"
  /\ Submit(<<[op |-> "setVersion", arg |-> version + 1],
              Simple("prepareRefit")>>)
  /\ answered' = FALSE
  /\ Goto("prep")
  /\ UNCHANGED <<bufferVars, step, version, engine, batch>>

\* policy.train, then ask the collector to prepare for the refit.
Train ==
  /\ tpc = "train"
  /\ Submit(<<Simple("prepareRefit")>>)
  /\ answered' = FALSE
  /\ Goto("prep")
  /\ UNCHANGED <<bufferVars, step, version, engine, batch>>

ReadyForRefit ==
  /\ tpc = "prep"
  /\ answered
  /\ Goto("refit")
  /\ QuietCollector
  /\ UNCHANGED <<bufferVars, answered, step, version, engine, batch>>

Refit ==
  /\ tpc = "refit"
  /\ engine' = version + 1
  /\ version' = version + 1
  /\ Submit(<<[op |-> "setVersion", arg |-> version + 1],
              Simple("resumeRefit")>>)
  /\ Goto(IF Due(ValPeriod) THEN "val" ELSE "save")
  /\ UNCHANGED <<bufferVars, answered, step, batch>>

Validation == PauseFor("val", "valRun")
ValidationDone == ResumeAfter("valRun", "save")

\* The end of a step; a missed deadline also ends the run.  Saving needs the
\* dataloader state, which the collector actor answers after the calls
\* submitted before.
EndStep(ends) ==
  /\ step' = step + 1
  /\ batch' = {}
  /\ Goto(IF ends THEN "done" ELSE "sample")

Save(early) ==
  /\ tpc = "save"
  /\ Saves(early)
  /\ Submit(<<Simple("getState")>>)
  /\ answered' = FALSE
  /\ Goto(IF LastStep \/ early THEN "saveLast" ELSE "saveNext")
  /\ UNCHANGED <<bufferVars, step, version, engine, batch>>

SaveDone ==
  /\ tpc \in {"saveLast", "saveNext"}
  /\ answered
  /\ EndStep(tpc = "saveLast")
  /\ QuietCollector
  /\ UNCHANGED <<bufferVars, answered, version, engine>>

SkipSave(early) ==
  /\ tpc = "save"
  /\ ~Saves(early)
  /\ EndStep(LastStep \/ early)
  /\ QuietCollector
  /\ UNCHANGED <<bufferVars, answered, version, engine>>

Trainer ==
  \/ Boot \/ InitialRefit \/ TrainerRaises
  \/ InitialValidation \/ InitialValidationDone
  \/ BufferReady \/ Sample \/ SampleFails \/ Train \/ ReadyForRefit \/ Refit
  \/ Validation \/ ValidationDone
  \/ \E early \in BOOLEAN : Save(early) \/ SkipSave(early)
  \/ SaveDone

CollectorStep ==
  /\ Up
  /\ CollectionThread \/ ActorThread \/ \E w \in Slots : WorkerThread(w)
  /\ UNCHANGED trainerVars

Next == Trainer \/ CollectorStep

Spec == Init /\ [][Next]_vars

\* Every thread keeps running, and nothing is assumed about failures.
Fairness ==
  /\ WF_vars(Boot \/ InitialRefit \/ InitialValidation
             \/ InitialValidationDone \/ BufferReady \/ Sample \/ SampleFails
             \/ Train \/ ReadyForRefit \/ Refit \/ Validation \/ ValidationDone
             \/ Save(FALSE) \/ SkipSave(FALSE) \/ SaveDone)
  /\ WF_vars(Up /\ CollectionThread /\ UNCHANGED trainerVars)
  /\ WF_vars(Up /\ ActorThread /\ UNCHANGED trainerVars)
  /\ \A w \in Slots :
       WF_vars(/\ Up
               /\ Rollout(w) \/ PushLoop(w) \/ PushGroup(w) \/ PushFull(w)
                  \/ ReleaseReservation(w) \/ CleanupReservation(w)
                  \/ DetachThread(w) \/ ReleasePermit(w)
               /\ UNCHANGED trainerVars)

FairSpec == Spec /\ Fairness

-----------------------------------------------------------------------------
(* Vocabulary of the properties.                                           *)

\* The collection thread is spawning the workers of a batch for col.tgt.
Spawning == col.pc \in {"prompt", "rewait", "acquire", "add", "start"}

\* The worker still owes the buffer its group.
Carries(w) == worker[w].pc \in {"new", "rollout", "loop", "push"}

\* The prompts of a batch for t that have no worker yet.
ToSpawn(t) ==
  IF Spawning /\ col.tgt = t
  THEN NumPrompts - col.idx - (IF col.pc \in {"add", "start"} THEN 1 ELSE 0)
  ELSE 0

\* Groups for target t that are buffered, being generated or still to come.
InSystem(t) ==
  Cardinality({g \in groups : g.tgt = t})
    + Cardinality({w \in Slots : Carries(w) /\ worker[w].tgt = t})
    + ToSpawn(t)

\* The trainer has taken the groups of step t out of the buffer.
Taken(t) == t < version \/ (t = version /\ tpc \in {"train", "prep", "refit"})

\* Some target was given a second batch: _get_next_target_for_generation reads
\* the buffer's last target before it takes _generation_check_lock.
DoubleClaim == \E t \in Targets : claimed[t] > 1

\* There were more second batches for targets than rollouts that raised: each
\* of those makes its target free again, and justifies one.
SurplusClaim ==
  Cardinality({c \in Targets \X (2..fetched) : c[2] <= claimed[c[1]]}) > failures

\* The collection thread sleeps on the limit event: it tested the limits for an
\* older version, and cleared the event after the call that announced the newer
\* one had looked at it. A thread that sleeps because that call set nothing
\* cleared the event for the older version.
LostWakeup ==
  /\ col.pc = "wait" /\ ~limitCleared /\ busy # "limit"
  /\ col.ver < curVersion /\ warnedVersion = curVersion

\* A step still to be trained has too few groups, and no batch will be claimed
\* for it: collection has stopped, a later target is in the buffer, or the
\* collection thread knows a version whose targets start after it.
StepStarved ==
  \E t \in Targets :
    /\ t < MaxSteps /\ ~Taken(t) /\ InSystem(t) < NumPrompts
    /\ \/ col.pc = "stopped"
       \/ t <= lastTarget
       \/ StartStep < col.ver /\ t <= col.ver

-----------------------------------------------------------------------------
(* Safety.                                                                 *)

\* The semaphore that limits the generation requests neither leaks a permit
\* nor gains one, whichever way a worker ends: each live worker holds one.
PermitsBalanced ==
  permits + Cardinality({w \in Slots : worker[w].pc # "idle"}) = MaxInflight

\* A reserved target has somebody who will generate for it or release it, also
\* when rollouts raise: a reservation nobody owns would never be given back,
\* and the step it is for would wait forever.
ReservationOwned ==
  \A t \in generating :
    \/ Spawning /\ col.tgt = t
    \/ \E w \in Slots : /\ worker[w].tgt = t
                        /\ Carries(w) \/ worker[w].pc \in {"release", "cleanup"}

\* However weight updates and refits interleave with the spawning of a batch,
\* the label of a group is at most max_trajectory_age_steps behind the step
\* the group is for.
AgeWindow ==
  /\ \A g \in groups \cup batch : g.tgt <= g.ver + MaxAge
  /\ \A w \in Slots : Carries(w) => worker[w].tgt <= worker[w].ver + MaxAge
  /\ Spawning => col.tgt <= col.ver + MaxAge

\* A group is never labelled with weights newer than those the engine has been
\* given: set_weight_version reaches the collector after the refit it
\* announces, and the calls of the trainer are executed in order.
LabelNotAhead ==
  engine # DummyWeights =>
    /\ \A g \in groups \cup batch : g.ver <= engine
    /\ \A w \in Slots : Carries(w) => worker[w].ver <= engine

\* No prompt group disappears: as long as no rollout raised, the groups ever
\* claimed for a step are in the buffer, in a worker, still to be spawned, or
\* were handed to the trainer, also when the buffer was full.
NoGroupLost ==
  failures = 0 /\ col.pc # "stopped" /\ tpc # "aborted" =>
    \A t \in Targets :
      InSystem(t) + (IF Taken(t) THEN NumPrompts ELSE 0)
        = NumPrompts * claimed[t]

\* The buffer of twice the in-flight limit is large enough: unless a target
\* was claimed twice, no worker ever meets a full buffer.
CapacityEnough ==
  ~DoubleClaim => ~(BufferFull /\ \E w \in Slots : Carries(w))

\* Unless a target was claimed twice, the trainer never gets past the step a
\* group is for: a group that is late stalls training, it is not left behind.
NotOvertaken ==
  ~DoubleClaim =>
    /\ \A g \in groups : version <= g.tgt
    /\ \A w \in Slots : Carries(w) => version <= worker[w].tgt
    /\ ToSpawn(col.tgt) > 0 => version <= col.tgt

\* A batch whose spawning straddles a refit takes the new version for its
\* later prompts; unless a target was claimed twice, that version is still not
\* newer than the step the batch is for, so sample can return the group.
LabelNotPastTarget ==
  ~DoubleClaim =>
    /\ \A g \in groups : g.ver <= g.tgt
    /\ \A w \in Slots : Carries(w) => worker[w].ver <= worker[w].tgt

\* The ValueError of sample for entries older than the age window ends the
\* run; a double claim is the only way to get there.
StaleOnlyAfterDoubleClaim ==
  tpc = "sample" /\ SampleRaises(version, MaxAge) => DoubleClaim

-----------------------------------------------------------------------------
(* Strengthenings that make the safety invariants inductive.               *)

\* The locals of _process_batch between two prompts, and the record of a
\* thread that has been created and not started.
SpawnLocals ==
  /\ col.pc \in {"rewait", "acquire", "add", "start"} => col.idx < NumPrompts
  /\ col.pc \in {"add", "start"} =>
       col.slot \in Slots /\ worker[col.slot].pc = "new"

IsUpdate(i) == calls[i].op = "setVersion"

\* The weight versions the trainer has announced reach the collector in
\* ascending order, and none runs ahead of the trainer.
UpdatesInOrder ==
  /\ StartStep <= curVersion
  /\ curVersion <= version
  /\ engine \in {DummyWeights, version}
  /\ \A i \in 1..Len(calls) :
       IsUpdate(i) => curVersion <= calls[i].arg /\ calls[i].arg <= version
  /\ \A i, j \in 1..Len(calls) :
       i < j /\ IsUpdate(i) /\ IsUpdate(j) => calls[i].arg <= calls[j].arg

\* No label is newer than the version the collector knows.
LabelsKnown ==
  /\ \A g \in groups \cup batch : g.ver <= curVersion
  /\ \A w \in Slots : worker[w].ver <= curVersion
  /\ col.ver <= curVersion

\* Collection is started once, by the first call that is submitted; until then
\* nothing is reserved.
NotStarted == col.pc = "off" /\ generating = {}
StartedOnce ==
  /\ tpc = "boot" => calls = <<>> /\ NotStarted
  /\ \A i \in 1..Len(calls) : calls[i].op = "start" => i = 1 /\ NotStarted

\* The worker will give the reservation of its target back.
Releases(w) == Carries(w) \/ worker[w].pc \in {"release", "cleanup"}

\* The collection thread owns a reservation only until the first worker of the
\* batch is started, and that worker is for the same target.
ReservationHeld ==
  /\ \A t \in generating :
       \/ Spawning /\ col.tgt = t /\ col.idx = 0
       \/ \E w \in Slots : worker[w].tgt = t /\ Releases(w)
  /\ col.pc \in {"add", "start"} => worker[col.slot].tgt = col.tgt

\* Arrival numbers tell the groups apart.
NumbersKnown ==
  /\ \A g \in groups : g.no \in 1..arrivals
  /\ \A g, h \in groups : g.no = h.no => g = h

TypeInv == TypeOK /\ SpawnLocals
LabelInv == TypeInv /\ UpdatesInOrder /\ LabelsKnown /\ AgeWindow
ReservationInv == TypeInv /\ StartedOnce /\ ReservationHeld

-----------------------------------------------------------------------------
(* Liveness, under FairSpec.                                               *)

\* Training is done with its last step, also when rollouts raise and their
\* target is claimed again, unless a target was claimed twice without reason,
\* or for ever after a step is starved of its groups (its batch was never
\* claimed, or was lost) or the collection thread has missed a weight update.
\* States that pass excuse nothing.
TrainingFinishes ==
  <>(tpc = "done" \/ SurplusClaim) \/ <>[]StepStarved \/ <>[]LostWakeup

\* prepare_for_refit returns, also when it waits for the pending workers,
\* unless a double claim has filled the buffer those workers push to.
RefitGoesAhead == tpc = "prep" ~> (tpc = "refit" \/ DoubleClaim)

-----------------------------------------------------------------------------
(* The promise of module StepwiseTraining.  Every number up to arrivals that *)
(* is no longer in the buffer was handed to the trainer.                     *)

Phase ==
  CASE tpc \in {"train", "prep", "refit"} -> "train"
    [] tpc \in {"val", "valRun", "save", "saveNext", "saveLast"} -> "publish"
    [] tpc \in {"done", "aborted"} -> "ended"
    [] OTHER -> "gather"

Stepwise == INSTANCE StepwiseTraining WITH
              phase <- Phase,
              weights <- version,
              used <- (1 .. arrivals) \ {g.no : g \in groups}

\* The published version is that of the step, or the next one at its end, and a
\* step that is begun is within the limit.
StepInPhase ==
  /\ Phase \in {"gather", "train"} => version = step
  /\ Phase = "publish" => version = step + 1
  /\ Phase \in {"train", "publish"} \/ tpc = "sample" => step < MaxSteps
  /\ tpc = "saveNext" => ~LastStep

\* Whatever the threads do, each training step consumes exactly
\* num_prompts_per_step groups that no other step has consumed, all of them in
\* the age window, and publishes exactly one weight version.
ImplementsStepwise == Stepwise!Spec

-----------------------------------------------------------------------------
(* A statement of a comment that the code does not keep: the only property *)
(* of a run that TLC refutes.                                              *)

\* async_utils.py:289, of _generation_check_lock: "Simple lock to prevent race
\* conditions when checking/spawning workers".  A target is claimed once.
ClaimedOnce == \A t \in Targets : claimed[t] <= 1
=============================================================================
