------------------------ MODULE TrajectoryCollector ------------------------
(***************************************************************************)
(* The trajectory collector actor of asynchronous GRPO                     *)
(* (nemo_rl/algorithms/async_utils.py, class AsyncTrajectoryCollector).    *)
(*                                                                         *)
(* Three kinds of threads share its fields:                                *)
(*   - the actor's own thread, which executes the method calls of the      *)
(*     trainer one at a time, in the order they were submitted;            *)
(*   - the collection thread (_collection_loop and _process_batch);        *)
(*   - one worker thread per prompt group in flight                        *)
(*     (_run_prompt_group_worker).                                         *)
(* A step is what a thread does between two points where another thread    *)
(* can observe or change what it uses: a lock region, an Event operation,  *)
(* a remote call to the buffer, a read of current_weight_version.          *)
(***************************************************************************)
EXTENDS ReplayBuffer, Sequences

CONSTANTS
  NumPrompts,     \* num_prompts_per_step, also the size of a batch
  MaxAge,         \* max_trajectory_age_steps
  StartStep,      \* start_step: the trainer's step when the run starts
  NumBatches,     \* batches the dataloader still has
  InFlight,       \* async_engine and in_flight_weight_updates
  Slots,          \* records for live worker threads
  NoSlot,         \* no such record
  Targets,        \* target weight versions the run can reach
  MaxFailures     \* bound on the rollouts that raise

MaxInflight == NumPrompts * MaxAge

ASSUME CollectorAssumption ==
  /\ NumPrompts \in Nat \ {0}
  /\ MaxAge \in Nat \ {0}
  /\ StartStep \in Nat
  /\ NumBatches \in Nat
  /\ InFlight \in BOOLEAN
  /\ IsFiniteSet(Slots)
  /\ Cardinality(Slots) = MaxInflight
  /\ NoSlot \notin Slots
  /\ Targets \subseteq Nat
  /\ MaxFailures \in Nat

VARIABLES
  running,          \* running
  manualCleared,    \* _manual_pause_cleared.is_set()
  refitCleared,     \* _refit_pause_cleared.is_set()
  limitCleared,     \* _generation_limit_cleared.is_set()
  curVersion,       \* current_weight_version
  warnedVersion,    \* _last_limit_warning_version
  permits,          \* value of _inflight_sema
  inflight,         \* _inflight_threads
  generating,       \* _generating_targets
  fetched,          \* batches taken from the dataloader
  col,              \* the collection thread: pc and locals
  worker,           \* the worker threads: pc and arguments
  calls,            \* submitted and not yet executed actor calls
  busy,             \* what the actor thread is in the middle of
  answered,         \* the call the trainer blocks on has returned
  claimed,          \* history: batches assigned to each target so far
  failures          \* history: rollouts that raised so far

threadVars  == <<col, worker, permits, inflight, generating, claimed, failures>>
eventVars   == <<running, manualCleared, refitCleared, limitCleared>>
versionVars == <<curVersion, warnedVersion>>
actorVars   == <<calls, busy, answered>>
collectorVars ==
  <<threadVars, eventVars, versionVars, actorVars, fetched>>

NoVersion == -1

ColPcs == {"off", "fetch", "manual", "refit", "limit", "limitRead",
           "limitCheck", "warn", "clear", "wait", "proc", "read", "reserve",
           "prompt", "rewait", "acquire", "add", "start", "stopped"}
WorkerPcs == {"idle", "new", "rollout", "loop", "push", "release", "cleanup",
              "detach", "sema"}
ColState == [pc : ColPcs, ver : Nat, last : Nat \cup {NoTarget}, tgt : Nat,
             idx : 0..NumPrompts, slot : Slots \cup {NoSlot}]
WorkerState == [pc : WorkerPcs, ver : Nat, tgt : Nat, idx : 0..NumPrompts]
Ops == {"start", "setVersion", "pause", "resume", "prepareRefit",
        "resumeRefit", "getState"}
Busy == {"no", "limit", "pending"}

Call == [op : Ops, arg : Nat]
\* A call that takes no version carries 0.
Simple(op) == [op |-> op, arg |-> 0]

IdleWorker == [pc |-> "idle", ver |-> StartStep, tgt |-> StartStep, idx |-> 0]

CollectorInit ==
  /\ running = FALSE
  /\ manualCleared = TRUE
  /\ refitCleared = TRUE
  /\ limitCleared = TRUE
  /\ curVersion = StartStep
  /\ warnedVersion = NoVersion
  /\ permits = MaxInflight
  /\ inflight = {}
  /\ generating = {}
  /\ fetched = 0
  /\ col = [pc |-> "off", ver |-> StartStep, last |-> NoTarget,
            tgt |-> StartStep, idx |-> 0, slot |-> NoSlot]
  /\ worker = [w \in Slots |-> IdleWorker]
  /\ calls = <<>>
  /\ busy = "no"
  /\ answered = FALSE
  /\ claimed = [t \in Targets |-> 0]
  /\ failures = 0

CollectorTypeOK ==
  /\ running \in BOOLEAN
  /\ manualCleared \in BOOLEAN
  /\ refitCleared \in BOOLEAN
  /\ limitCleared \in BOOLEAN
  /\ curVersion \in Nat
  /\ warnedVersion \in Nat \cup {NoVersion}
  /\ permits \in Nat
  /\ inflight \subseteq Slots
  /\ generating \subseteq Nat
  /\ fetched \in 0..NumBatches
  /\ col \in ColState
  /\ worker \in [Slots -> WorkerState]
  /\ calls \in Seq(Call)
  /\ busy \in Busy
  /\ answered \in BOOLEAN
  /\ claimed \in [Targets -> Nat]
  /\ failures \in 0..MaxFailures

-----------------------------------------------------------------------------
(* _calculate_target_weights: the training steps that a generation with    *)
(* weights ver may be meant for.                                           *)

\* Mutant: one target too many.
WideTargetWeights(ver) ==
  IF ver = StartStep THEN StartStep .. StartStep + MaxAge + 1
                     ELSE ver + 1 .. ver + MaxAge + 1

TargetWeights(ver) ==
  IF ver = StartStep THEN StartStep .. StartStep + MaxAge
                     ELSE ver + 1 .. ver + MaxAge

\* The test under _generation_check_lock shared by
\* _should_pause_for_generation_limits and _get_next_target_for_generation.
FreeTargets(ver, last) ==
  {t \in TargetWeights(ver) : t > last /\ t \notin generating}

-----------------------------------------------------------------------------
(* The collection thread: _collection_loop.                                *)

\* for batch in self.dataloader; when it is exhausted the finally clause
\* stops the collector.
Fetch ==
  /\ col.pc = "fetch"
  /\ fetched < NumBatches
  /\ fetched' = fetched + 1
  /\ col' = [col EXCEPT !.pc = "manual"]
  /\ UNCHANGED <<bufferVars, worker, permits, inflight, generating, claimed,
                 failures, eventVars, versionVars, actorVars>>

Exhausted ==
  /\ col.pc = "fetch"
  /\ fetched = NumBatches
  /\ running' = FALSE
  /\ col' = [col EXCEPT !.pc = "stopped"]
  /\ UNCHANGED <<bufferVars, worker, permits, inflight, generating, claimed,
                 failures, manualCleared, refitCleared, limitCleared,
                 versionVars, actorVars, fetched>>

\* A step of the collection thread that changes its own locals only.
ColMoves(next) ==
  /\ col' = next
  /\ UNCHANGED <<bufferVars, worker, permits, inflight, generating, claimed,
                 failures, eventVars, versionVars, actorVars, fetched>>

ManualGate ==
  /\ col.pc = "manual"
  /\ manualCleared
  /\ ColMoves([col EXCEPT !.pc = "refit"])

RefitGate ==
  /\ col.pc = "refit"
  /\ refitCleared
  /\ ColMoves([col EXCEPT !.pc = "limit"])

\* _should_pause_for_generation_limits: read the version, ask the buffer for
\* the last target, then decide under the lock.
LimitReadVersion ==
  /\ col.pc = "limit"
  /\ ColMoves([col EXCEPT !.pc = "limitRead", !.ver = curVersion])

LimitReadLast ==
  /\ col.pc = "limitRead"
  /\ ColMoves([col EXCEPT !.pc = "limitCheck", !.last = lastTarget])

LimitCheck ==
  /\ col.pc = "limitCheck"
  /\ ColMoves([col EXCEPT !.pc = IF FreeTargets(col.ver, col.last) # {}
                                 THEN "proc" ELSE "warn",
                          !.last = NoTarget])

\* The event is cleared once per weight version only.  Recording the version
\* and clearing the event are one step: a weight update between them leaves
\* the event cleared, as one before them does.
LimitWarn ==
  /\ col.pc = "warn"
  /\ ColMoves([col EXCEPT !.pc = IF warnedVersion # curVersion
                                 THEN "clear" ELSE "wait"])

LimitClear ==
  /\ col.pc = "clear"
  /\ warnedVersion' = curVersion
  /\ limitCleared' = FALSE
  /\ col' = [col EXCEPT !.pc = "wait"]
  /\ UNCHANGED <<bufferVars, worker, permits, inflight, generating, claimed,
                 failures, running, manualCleared, refitCleared, curVersion,
                 actorVars, fetched>>

LimitWait ==
  /\ col.pc = "wait"
  /\ limitCleared
  /\ ColMoves([col EXCEPT !.pc = "proc"])

-----------------------------------------------------------------------------
(* The collection thread: _process_batch and                               *)
(* _get_next_target_for_generation.                                        *)

ProcessBatch ==
  /\ col.pc = "proc"
  /\ ColMoves([col EXCEPT !.pc = "read", !.ver = curVersion])

ReadLastTarget ==
  /\ col.pc = "read"
  /\ ColMoves([col EXCEPT !.pc = "reserve", !.last = lastTarget])

\* Back to the loop: the locals of _process_batch go out of scope.
NextBatch == [pc |-> "fetch", ver |-> StartStep, last |-> NoTarget,
              tgt |-> StartStep, idx |-> 0, slot |-> NoSlot]

\* The targets are tried in ascending order and the first free one is taken.
Reserve ==
  /\ col.pc = "reserve"
  /\ \E t \in FreeTargets(col.ver, col.last) :
       /\ \A u \in FreeTargets(col.ver, col.last) : t <= u
       /\ generating' = generating \cup {t}
       /\ claimed' = [claimed EXCEPT ![t] = @ + 1]
       /\ col' = [col EXCEPT !.pc = "prompt", !.last = NoTarget, !.tgt = t,
                             !.idx = 0]
  /\ UNCHANGED <<bufferVars, worker, permits, inflight, failures, eventVars,
                 versionVars, actorVars, fetched>>

\* No target is free: the batch is dropped.
NothingToReserve ==
  /\ col.pc = "reserve"
  /\ FreeTargets(col.ver, col.last) = {}
  /\ ColMoves(NextBatch)

\* Mutant: the loop runs once too often.
NextPromptInclusive ==
  /\ col.pc = "prompt"
  /\ col.idx <= NumPrompts
  /\ ColMoves([col EXCEPT !.pc = IF refitCleared THEN "acquire" ELSE "rewait"])

\* The head of the loop over the prompts of the batch.
NextPrompt ==
  /\ col.pc = "prompt"
  /\ col.idx < NumPrompts
  /\ ColMoves([col EXCEPT !.pc = IF refitCleared THEN "acquire" ELSE "rewait"])

\* The thread waited for a refit: later prompts carry the new version.
RefitWait ==
  /\ col.pc = "rewait"
  /\ refitCleared
  /\ ColMoves([col EXCEPT !.pc = "acquire", !.ver = curVersion])

AcquirePermit ==
  /\ col.pc = "acquire"
  /\ permits > 0
  /\ permits' = permits - 1
  /\ \E w \in Slots :
       /\ worker[w].pc = "idle"
       /\ worker' = [worker EXCEPT ![w] = [pc |-> "new", ver |-> col.ver,
                                           tgt |-> col.tgt, idx |-> col.idx]]
       /\ col' = [col EXCEPT !.pc = "add", !.slot = w]
  /\ UNCHANGED <<bufferVars, inflight, generating, claimed, failures,
                 eventVars, versionVars, actorVars, fetched>>

AddThread ==
  /\ col.pc = "add"
  /\ inflight' = inflight \cup {col.slot}
  /\ col' = [col EXCEPT !.pc = "start"]
  /\ UNCHANGED <<bufferVars, worker, permits, generating, claimed, failures,
                 eventVars, versionVars, actorVars, fetched>>

StartThread ==
  /\ col.pc = "start"
  /\ worker' = [worker EXCEPT ![col.slot].pc = "rollout"]
  /\ col' = [col EXCEPT !.pc = "prompt", !.idx = @ + 1, !.slot = NoSlot]
  /\ UNCHANGED <<bufferVars, permits, inflight, generating, claimed, failures,
                 eventVars, versionVars, actorVars, fetched>>

\* is_alive(): a thread is alive from its start to its end.
Alive(w) == worker[w].pc \notin {"idle", "new"}

\* Past the last prompt: _cleanup_finished_threads, and the next batch.
BatchDone ==
  /\ col.pc = "prompt"
  /\ col.idx = NumPrompts
  /\ inflight' = {w \in inflight : Alive(w)}
  /\ col' = NextBatch
  /\ UNCHANGED <<bufferVars, worker, permits, generating, claimed, failures,
                 eventVars, versionVars, actorVars, fetched>>

CollectionThread ==
  \/ Fetch \/ Exhausted \/ ManualGate \/ RefitGate
  \/ LimitReadVersion \/ LimitReadLast \/ LimitCheck
  \/ LimitWarn \/ LimitClear \/ LimitWait
  \/ ProcessBatch \/ ReadLastTarget \/ Reserve \/ NothingToReserve
  \/ NextPrompt \/ RefitWait \/ AcquirePermit \/ AddThread \/ StartThread
  \/ BatchDone

-----------------------------------------------------------------------------
(* A worker thread: _run_prompt_group_worker.                              *)

WorkerMoves(w, pc) == worker' = [worker EXCEPT ![w].pc = pc]

\* run_async_multi_turn_rollout returns, or raises and skips the push.
Rollout(w) ==
  /\ worker[w].pc = "rollout"
  /\ WorkerMoves(w, "loop")
  /\ UNCHANGED <<bufferVars, col, permits, inflight, generating, claimed,
                 failures, eventVars, versionVars, actorVars, fetched>>

\* Mutant: an exception leaves the worker without its finally clause.
RolloutRaisesUncaught(w) ==
  /\ worker[w].pc = "rollout"
  /\ failures < MaxFailures
  /\ failures' = failures + 1
  /\ worker' = [worker EXCEPT ![w] = IdleWorker]
  /\ UNCHANGED <<bufferVars, col, permits, inflight, generating, claimed,
                 eventVars, versionVars, actorVars, fetched>>

RolloutRaises(w) ==
  /\ worker[w].pc = "rollout"
  /\ failures < MaxFailures
  /\ failures' = failures + 1
  /\ WorkerMoves(w, "cleanup")
  /\ UNCHANGED <<bufferVars, col, permits, inflight, generating, claimed,
                 eventVars, versionVars, actorVars, fetched>>

\* while self.running: the group is dropped once collection has stopped.
PushLoop(w) ==
  /\ worker[w].pc = "loop"
  /\ WorkerMoves(w, IF running THEN "push" ELSE "cleanup")
  /\ UNCHANGED <<bufferVars, col, permits, inflight, generating, claimed,
                 failures, eventVars, versionVars, actorVars, fetched>>

PushGroup(w) ==
  /\ worker[w].pc = "push"
  /\ Push(worker[w].ver, worker[w].tgt)
  /\ WorkerMoves(w, IF worker[w].idx = 0 THEN "release" ELSE "cleanup")
  /\ UNCHANGED <<col, permits, inflight, generating, claimed, failures,
                 eventVars, versionVars, actorVars, fetched>>

\* Mutant: a worker that finds the buffer full gives up.
PushFullGivesUp(w) ==
  /\ worker[w].pc = "push"
  /\ BufferFull
  /\ WorkerMoves(w, "cleanup")
  /\ UNCHANGED <<bufferVars, col, permits, inflight, generating, claimed,
                 failures, eventVars, versionVars, actorVars, fetched>>

\* "full": back off, then test running again.
PushFull(w) ==
  /\ worker[w].pc = "push"
  /\ BufferFull
  /\ WorkerMoves(w, "loop")
  /\ UNCHANGED <<bufferVars, col, permits, inflight, generating, claimed,
                 failures, eventVars, versionVars, actorVars, fetched>>

\* The first group of a batch releases the reservation after its push ...
ReleaseReservation(w) ==
  /\ worker[w].pc = "release"
  /\ generating' = generating \ {worker[w].tgt}
  /\ WorkerMoves(w, "cleanup")
  /\ UNCHANGED <<bufferVars, col, permits, inflight, claimed, failures,
                 eventVars, versionVars, actorVars, fetched>>

\* Mutant: no release in the finally clause.
CleanupNothing(w) ==
  /\ worker[w].pc = "cleanup"
  /\ WorkerMoves(w, "detach")
  /\ UNCHANGED <<bufferVars, col, permits, inflight, generating, claimed,
                 failures, eventVars, versionVars, actorVars, fetched>>

\* ... and every worker releases it again in its finally clause.
CleanupReservation(w) ==
  /\ worker[w].pc = "cleanup"
  /\ generating' = generating \ {worker[w].tgt}
  /\ WorkerMoves(w, "detach")
  /\ UNCHANGED <<bufferVars, col, permits, inflight, claimed, failures,
                 eventVars, versionVars, actorVars, fetched>>

\* Mutant: wait_for_pending_generations sleeps with _threads_lock held.
DetachBlocked(w) ==
  /\ worker[w].pc = "detach"
  /\ busy # "pending"
  /\ inflight' = inflight \ {w}
  /\ WorkerMoves(w, "sema")
  /\ UNCHANGED <<bufferVars, col, permits, generating, claimed, failures,
                 eventVars, versionVars, actorVars, fetched>>

DetachThread(w) ==
  /\ worker[w].pc = "detach"
  /\ inflight' = inflight \ {w}
  /\ WorkerMoves(w, "sema")
  /\ UNCHANGED <<bufferVars, col, permits, generating, claimed, failures,
                 eventVars, versionVars, actorVars, fetched>>

ReleasePermit(w) ==
  /\ worker[w].pc = "sema"
  /\ permits' = permits + 1
  /\ worker' = [worker EXCEPT ![w] = IdleWorker]
  /\ UNCHANGED <<bufferVars, col, inflight, generating, claimed, failures,
                 eventVars, versionVars, actorVars, fetched>>

WorkerThread(w) ==
  \/ Rollout(w) \/ RolloutRaises(w) \/ PushLoop(w) \/ PushGroup(w)
  \/ PushFull(w) \/ ReleaseReservation(w) \/ CleanupReservation(w)
  \/ DetachThread(w) \/ ReleasePermit(w)

-----------------------------------------------------------------------------
(* The actor thread: the method calls, in the order of their submission.   *)

\* The next submitted call is op, and it leaves the queue.
Receive(op) ==
  /\ busy = "no"
  /\ calls # <<>>
  /\ Head(calls).op = op
  /\ calls' = Tail(calls)

StartCollection ==
  /\ Receive("start")
  /\ running' = TRUE
  /\ col' = [col EXCEPT !.pc = "fetch"]
  /\ UNCHANGED <<bufferVars, worker, permits, inflight, generating, claimed,
                 failures, manualCleared, refitCleared, limitCleared,
                 versionVars, busy, answered, fetched>>

\* set_weight_version: store the version, then set the limit event if it is
\* cleared.  The collection thread may run in between.
SetWeightVersion ==
  /\ Receive("setVersion")
  /\ curVersion' = Head(calls).arg
  /\ busy' = "limit"
  /\ UNCHANGED <<bufferVars, threadVars, eventVars, warnedVersion, answered,
                 fetched>>

\* Mutant: the limit event stays cleared.
UpdateWithoutSet ==
  /\ busy = "limit"
  /\ busy' = "no"
  /\ UNCHANGED <<bufferVars, threadVars, eventVars, versionVars, calls,
                 answered, fetched>>

ClearLimitPause ==
  /\ busy = "limit"
  /\ busy' = "no"
  /\ limitCleared' = TRUE
  /\ UNCHANGED <<bufferVars, threadVars, running, manualCleared, refitCleared,
                 versionVars, calls, answered, fetched>>

Pause ==
  /\ Receive("pause")
  /\ manualCleared' = FALSE
  /\ UNCHANGED <<bufferVars, threadVars, running, refitCleared, limitCleared,
                 versionVars, busy, answered, fetched>>

Resume ==
  /\ Receive("resume")
  /\ manualCleared' = TRUE
  /\ UNCHANGED <<bufferVars, threadVars, running, refitCleared, limitCleared,
                 versionVars, busy, answered, fetched>>

\* prepare_for_refit: with in-flight updates it returns at once.
PrepareForRefit ==
  /\ Receive("prepareRefit")
  /\ refitCleared' = FALSE
  /\ busy' = IF InFlight THEN "no" ELSE "pending"
  /\ answered' = InFlight
  /\ UNCHANGED <<bufferVars, threadVars, running, manualCleared, limitCleared,
                 versionVars, fetched>>

\* One round of wait_for_pending_generations: forget the threads that are
\* not alive and return when none is left.
WaitForPending ==
  /\ busy = "pending"
  /\ LET pending == {w \in inflight : Alive(w)} IN
       /\ inflight' = pending
       /\ busy' = IF pending = {} THEN "no" ELSE "pending"
       /\ answered' = (pending = {})
  /\ UNCHANGED <<bufferVars, col, worker, permits, generating, claimed,
                 failures, eventVars, versionVars, calls, fetched>>

ResumeAfterRefit ==
  /\ Receive("resumeRefit")
  /\ refitCleared' = TRUE
  /\ UNCHANGED <<bufferVars, threadVars, running, manualCleared, limitCleared,
                 versionVars, busy, answered, fetched>>

\* get_dataloader_state: a read, but the trainer waits for its answer.
GetDataloaderState ==
  /\ Receive("getState")
  /\ answered' = TRUE
  /\ UNCHANGED <<bufferVars, threadVars, eventVars, versionVars, busy, fetched>>

ActorThread ==
  \/ StartCollection \/ SetWeightVersion \/ ClearLimitPause
  \/ Pause \/ Resume \/ PrepareForRefit \/ WaitForPending
  \/ ResumeAfterRefit \/ GetDataloaderState
=============================================================================
