-------------------------- MODULE AsyncGRPO_proofs --------------------------
(***************************************************************************)
(* Proofs about AsyncGRPO, for every value of the constants that satisfies *)
(* the assumptions of the modules: types, the age window, reservations and *)
(* permits, the refinement of StepwiseTraining, and where the prompt       *)
(* groups are.                                                             *)
(***************************************************************************)
EXTENDS AsyncGRPO, FiniteSetTheorems, FunctionTheorems, SequenceTheorems, TLAPS

\* The facts about the constants that the proofs use.
LEMMA Constants ==
  /\ NumPrompts \in Nat /\ NumPrompts > 0
  /\ MaxAge \in Nat
  /\ StartStep \in Nat
  /\ NumBatches \in Nat
  /\ MaxInflight \in Nat
  /\ InFlight \in BOOLEAN
  /\ IsFiniteSet(Slots)
  /\ NoSlot \notin Slots
  /\ MaxFailures \in Nat
<1>1. \A a, b \in Nat : a * b \in Nat
  OBVIOUS
<1> QED
  BY <1>1, CollectorAssumption DEF MaxInflight

\* A group that is pushed keeps the set of groups finite and well typed.
LEMMA PushTypes ==
  ASSUME BufferTypeOK, NEW v \in Nat, NEW t \in Nat, Push(v, t)
  PROVE  BufferTypeOK'
<1>1. IsFiniteSet(groups')
  BY FS_AddElement DEF BufferTypeOK, Push
<1>2. groups' \subseteq Group
  BY DEF BufferTypeOK, Push, Group
<1> QED
  BY <1>1, <1>2 DEF BufferTypeOK, Push, NoTarget

\* A sample removes groups and returns groups of the buffer.
LEMMA SampleTypes ==
  ASSUME BufferTypeOK, NEW n, NEW cur, NEW age, NEW sel,
         SampleReturns(n, cur, age, sel)
  PROVE  BufferTypeOK' /\ sel \subseteq groups
<1>1. IsFiniteSet(groups')
  BY FS_Subset DEF BufferTypeOK, SampleReturns
<1> QED
  BY <1>1 DEF BufferTypeOK, SampleReturns, Oldest, Intended

\* Submitting calls extends a sequence of calls.
LEMMA SubmitTypes ==
  ASSUME calls \in Seq(Call), NEW seq \in Seq(Call), Submit(seq)
  PROVE  calls' \in Seq(Call)
  BY ConcatProperties DEF Submit

\* A call that was received was a call, and calls are left behind it.
LEMMA ReceiveTypes ==
  ASSUME calls \in Seq(Call), NEW op, Receive(op)
  PROVE  /\ calls' \in Seq(Call)
         /\ Head(calls) \in Call
         /\ Head(calls).arg \in Nat
<1>1. Head(calls) \in Call /\ Tail(calls) \in Seq(Call)
  BY HeadTailProperties DEF Receive
<1> QED
  BY <1>1 DEF Receive, Call

-----------------------------------------------------------------------------
(* Type correctness, with the locals of the spawning loop.                 *)

\* The variables have their types at the start.
LEMMA TypeInit == Init => TypeInv
<1> SUFFICES ASSUME Init PROVE TypeInv
  OBVIOUS
<1> USE Constants
<1>1. BufferTypeOK
  BY FS_EmptySet DEF Init, BufferInit, BufferTypeOK, NoTarget
<1>2. CollectorTypeOK
  <2>1. calls \in Seq(Call)
    BY EmptySeq DEF Init, CollectorInit
  <2>2. IdleWorker \in WorkerState
    BY DEF IdleWorker, WorkerPcs, WorkerState
  <2>3. worker \in [Slots -> WorkerState]
    BY <2>2 DEF Init, CollectorInit
  <2>4. col \in ColState
    BY DEF Init, CollectorInit, ColState, ColPcs, NoTarget
  <2>5. claimed \in [Targets -> Nat]
    BY DEF Init, CollectorInit
  <2>6. /\ permits \in Nat /\ fetched \in 0..NumBatches /\ failures \in 0..MaxFailures
        /\ curVersion \in Nat
    BY DEF Init, CollectorInit
  <2> QED
    BY <2>1, <2>3, <2>4, <2>5, <2>6
    DEF Init, CollectorInit, CollectorTypeOK, NoVersion, Busy
<1>3. TrainerTypeOK
  BY DEF Init, TrainerInit, TrainerTypeOK, TrainerPcs, DummyWeights
<1>4. SpawnLocals
  BY DEF Init, CollectorInit, SpawnLocals
<1> QED
  BY <1>1, <1>2, <1>3, <1>4 DEF TypeInv, TypeOK

\* A step of the collection thread on its own locals.
LEMMA ColMovesType ==
  ASSUME TypeInv, NEW next \in ColState, ColMoves(next), UNCHANGED trainerVars,
         next.pc \in {"rewait", "acquire"} => next.idx < NumPrompts,
         next.pc \notin {"add", "start"}
  PROVE  TypeInv'
<1> USE DEF TypeInv, TypeOK, ColMoves, bufferVars, eventVars, versionVars,
            actorVars, trainerVars
<1>1. BufferTypeOK' /\ TrainerTypeOK'
  BY DEF BufferTypeOK, TrainerTypeOK
<1>2. CollectorTypeOK'
  BY DEF CollectorTypeOK
<1>3. SpawnLocals'
  BY DEF SpawnLocals
<1> QED
  BY <1>1, <1>2, <1>3

\* The record a collection thread goes back to has the type of its locals.
LEMMA NextBatchType == NextBatch \in ColState
  BY Constants DEF NextBatch, ColState, ColPcs, NoTarget

\* A step of the collection thread keeps the types.
LEMMA CollectionType ==
  ASSUME TypeInv, CollectionThread, UNCHANGED trainerVars
  PROVE  TypeInv'
<1> USE Constants
<1>c. /\ BufferTypeOK /\ CollectorTypeOK /\ TrainerTypeOK /\ SpawnLocals
      /\ col \in ColState
  BY DEF TypeInv, TypeOK, CollectorTypeOK
<1>1. CASE ManualGate
  <2> DEFINE next == [col EXCEPT !.pc = "refit"]
  <2>1. next \in ColState /\ next.pc \in {"refit"}
    BY <1>c DEF ColState, ColPcs
  <2>2. ColMoves(next)
    BY <1>1 DEF ManualGate
  <2> HIDE DEF next
  <2> QED
    BY <2>1, <2>2, ColMovesType
<1>2. CASE RefitGate
  <2> DEFINE next == [col EXCEPT !.pc = "limit"]
  <2>1. next \in ColState /\ next.pc \in {"limit"}
    BY <1>c DEF ColState, ColPcs
  <2>2. ColMoves(next)
    BY <1>2 DEF RefitGate
  <2> HIDE DEF next
  <2> QED
    BY <2>1, <2>2, ColMovesType
<1>3. CASE LimitReadVersion
  <2> DEFINE next == [col EXCEPT !.pc = "limitRead", !.ver = curVersion]
  <2>1. next \in ColState /\ next.pc \in {"limitRead"}
    BY <1>c DEF ColState, ColPcs, CollectorTypeOK
  <2>2. ColMoves(next)
    BY <1>3 DEF LimitReadVersion
  <2> HIDE DEF next
  <2> QED
    BY <2>1, <2>2, ColMovesType
<1>4. CASE LimitReadLast
  <2> DEFINE next == [col EXCEPT !.pc = "limitCheck", !.last = lastTarget]
  <2>1. next \in ColState /\ next.pc \in {"limitCheck"}
    BY <1>c DEF ColState, ColPcs, BufferTypeOK
  <2>2. ColMoves(next)
    BY <1>4 DEF LimitReadLast
  <2> HIDE DEF next
  <2> QED
    BY <2>1, <2>2, ColMovesType
<1>5. CASE LimitCheck
  <2> DEFINE next == [col EXCEPT !.pc = IF FreeTargets(col.ver, col.last) # {}
                                   THEN "proc" ELSE "warn", !.last = NoTarget]
  <2>1. next \in ColState /\ next.pc \in {"proc", "warn"}
    BY <1>c DEF ColState, ColPcs, NoTarget
  <2>2. ColMoves(next)
    BY <1>5 DEF LimitCheck
  <2> HIDE DEF next
  <2> QED
    BY <2>1, <2>2, ColMovesType
<1>6. CASE LimitWarn
  <2> DEFINE next == [col EXCEPT !.pc = IF warnedVersion # curVersion
                                   THEN "clear" ELSE "wait"]
  <2>1. next \in ColState /\ next.pc \in {"clear", "wait"}
    BY <1>c DEF ColState, ColPcs
  <2>2. ColMoves(next)
    BY <1>6 DEF LimitWarn
  <2> HIDE DEF next
  <2> QED
    BY <2>1, <2>2, ColMovesType
<1>7. CASE LimitWait
  <2> DEFINE next == [col EXCEPT !.pc = "proc"]
  <2>1. next \in ColState /\ next.pc \in {"proc"}
    BY <1>c DEF ColState, ColPcs
  <2>2. ColMoves(next)
    BY <1>7 DEF LimitWait
  <2> HIDE DEF next
  <2> QED
    BY <2>1, <2>2, ColMovesType
<1>8. CASE ProcessBatch
  <2> DEFINE next == [col EXCEPT !.pc = "read", !.ver = curVersion]
  <2>1. next \in ColState /\ next.pc \in {"read"}
    BY <1>c DEF ColState, ColPcs, CollectorTypeOK
  <2>2. ColMoves(next)
    BY <1>8 DEF ProcessBatch
  <2> HIDE DEF next
  <2> QED
    BY <2>1, <2>2, ColMovesType
<1>9. CASE ReadLastTarget
  <2> DEFINE next == [col EXCEPT !.pc = "reserve", !.last = lastTarget]
  <2>1. next \in ColState /\ next.pc \in {"reserve"}
    BY <1>c DEF ColState, ColPcs, BufferTypeOK
  <2>2. ColMoves(next)
    BY <1>9 DEF ReadLastTarget
  <2> HIDE DEF next
  <2> QED
    BY <2>1, <2>2, ColMovesType
<1>10. CASE NextPrompt
  <2> DEFINE next == [col EXCEPT !.pc = IF refitCleared THEN "acquire" ELSE "rewait"]
  <2>1. next \in ColState /\ next.idx < NumPrompts
           /\ next.pc \in {"rewait", "acquire"}
    BY <1>10, <1>c DEF NextPrompt, ColState, ColPcs
  <2>2. ColMoves(next)
    BY <1>10 DEF NextPrompt
  <2> HIDE DEF next
  <2> QED
    BY <2>1, <2>2, ColMovesType
<1>11. CASE RefitWait
  <2> DEFINE next == [col EXCEPT !.pc = "acquire", !.ver = curVersion]
  <2>1. next \in ColState /\ next.idx < NumPrompts
           /\ next.pc \in {"rewait", "acquire"}
    BY <1>11, <1>c DEF RefitWait, ColState, ColPcs, CollectorTypeOK, SpawnLocals
  <2>2. ColMoves(next)
    BY <1>11 DEF RefitWait
  <2> HIDE DEF next
  <2> QED
    BY <2>1, <2>2, ColMovesType
<1>12. CASE NothingToReserve
  <2>1. ColMoves(NextBatch) /\ NextBatch.pc = "fetch"
    BY <1>12 DEF NothingToReserve, NextBatch
  <2> QED
    BY <2>1, NextBatchType, ColMovesType
<1>d. ASSUME UNCHANGED bufferVars PROVE BufferTypeOK' /\ TrainerTypeOK'
  BY <1>c, <1>d DEF BufferTypeOK, TrainerTypeOK, bufferVars, trainerVars
<1>13. CASE Fetch
  <2>1. UNCHANGED bufferVars
    BY <1>13 DEF Fetch
  <2>2. col' \in ColState /\ col'.pc \notin {"rewait", "acquire", "add", "start"}
    BY <1>13, <1>c DEF Fetch, ColState, ColPcs
  <2>3. CollectorTypeOK' /\ SpawnLocals'
    BY <2>2, <1>13, <1>c DEF Fetch, CollectorTypeOK, SpawnLocals, eventVars,
       versionVars, actorVars
  <2> QED
    BY <1>d, <2>1, <2>3 DEF TypeInv, TypeOK
<1>14. CASE Exhausted
  <2>1. UNCHANGED bufferVars
    BY <1>14 DEF Exhausted
  <2>2. col' \in ColState /\ col'.pc \notin {"rewait", "acquire", "add", "start"}
    BY <1>14, <1>c DEF Exhausted, ColState, ColPcs
  <2>3. CollectorTypeOK' /\ SpawnLocals'
    BY <2>2, <1>14, <1>c DEF Exhausted, CollectorTypeOK, SpawnLocals, eventVars,
       versionVars, actorVars
  <2> QED
    BY <1>d, <2>1, <2>3 DEF TypeInv, TypeOK
<1>15. CASE LimitClear
  <2>1. UNCHANGED bufferVars
    BY <1>15 DEF LimitClear
  <2>2. col' \in ColState /\ col'.pc \notin {"rewait", "acquire", "add", "start"}
    BY <1>15, <1>c DEF LimitClear, ColState, ColPcs
  <2>3. CollectorTypeOK' /\ SpawnLocals'
    BY <2>2, <1>15, <1>c DEF LimitClear, CollectorTypeOK, SpawnLocals, eventVars,
       versionVars, actorVars
  <2> QED
    BY <1>d, <2>1, <2>3 DEF TypeInv, TypeOK
<1>16. CASE Reserve
  <2>1. UNCHANGED bufferVars
    BY <1>16 DEF Reserve
  <2>2. PICK t \in FreeTargets(col.ver, col.last) :
          /\ generating' = generating \cup {t}
          /\ claimed' = [claimed EXCEPT ![t] = @ + 1]
          /\ col' = [col EXCEPT !.pc = "prompt", !.last = NoTarget, !.tgt = t,
                                !.idx = 0]
    BY <1>16 DEF Reserve
  <2>3. t \in Nat
    BY <1>c DEF FreeTargets, TargetWeights, ColState
  <2>4. col' \in ColState /\ col'.pc = "prompt"
    <3>1. 0 \in 0..NumPrompts /\ "prompt" \in ColPcs
      BY DEF ColPcs
    <3> QED
      BY <2>2, <2>3, <3>1, <1>c DEF ColState, NoTarget
  <2>5. claimed' \in [Targets -> Nat] /\ generating' \subseteq Nat
    <3>1. claimed \in [Targets -> Nat] /\ generating \subseteq Nat
      BY <1>c DEF CollectorTypeOK
    <3>2. claimed' = [claimed EXCEPT ![t] = @ + 1] /\ generating' = generating \cup {t}
      BY <2>2
    <3>3. \A i \in Targets : claimed[i] \in Nat /\ claimed[i] + 1 \in Nat
      BY <3>1
    <3>4. claimed' \in [Targets -> Nat]
      BY ONLY <3>1, <3>2, <3>3
    <3> QED
      BY ONLY <2>3, <3>1, <3>2, <3>4
  <2>6. CollectorTypeOK' /\ SpawnLocals'
    BY <2>4, <2>5, <1>16, <1>c
    DEF Reserve, CollectorTypeOK, SpawnLocals, eventVars, versionVars, actorVars
  <2> QED
    BY <1>d, <2>1, <2>6 DEF TypeInv, TypeOK
<1>17. CASE AcquirePermit
  <2>1. UNCHANGED bufferVars
    BY <1>17 DEF AcquirePermit
  <2>2. PICK w \in Slots :
          /\ worker[w].pc = "idle"
          /\ worker' = [worker EXCEPT ![w] = [pc |-> "new", ver |-> col.ver,
                                              tgt |-> col.tgt, idx |-> col.idx]]
          /\ col' = [col EXCEPT !.pc = "add", !.slot = w]
    BY <1>17 DEF AcquirePermit
  <2>3. col' \in ColState /\ col'.slot = w /\ col'.idx < NumPrompts
    BY <2>2, <1>17, <1>c DEF AcquirePermit, SpawnLocals, ColState, ColPcs
  <2>4. worker' \in [Slots -> WorkerState] /\ worker'[w].pc = "new"
    BY <2>2, <1>c DEF CollectorTypeOK, ColState, WorkerState, WorkerPcs
  <2>5. permits' \in Nat
    BY <1>17, <1>c DEF AcquirePermit, CollectorTypeOK
  <2>6. CollectorTypeOK' /\ SpawnLocals'
    BY <2>3, <2>4, <2>5, <1>17, <1>c DEF AcquirePermit, CollectorTypeOK,
       SpawnLocals, eventVars, versionVars, actorVars
  <2> QED
    BY <1>d, <2>1, <2>6 DEF TypeInv, TypeOK
<1>18. CASE AddThread
  <2>1. UNCHANGED bufferVars
    BY <1>18 DEF AddThread
  <2>0. col.slot \in Slots /\ col.idx < NumPrompts /\ col.idx + 1 \in 0..NumPrompts
    BY <1>18, <1>c DEF AddThread, SpawnLocals, ColState
  <2>2. col' \in ColState /\ col.slot \in Slots /\ col.idx < NumPrompts
    BY <1>18, <1>c, <2>0 DEF AddThread, ColState, ColPcs
  <2>3. worker' = worker
    BY <1>18, <1>c DEF AddThread, CollectorTypeOK, WorkerState, WorkerPcs
  <2>4. CollectorTypeOK'
    BY <2>2, <2>3, <1>18, <1>c DEF AddThread, CollectorTypeOK, eventVars,
       versionVars, actorVars
  <2>5. SpawnLocals'
    BY <2>2, <1>18, <1>c DEF AddThread, SpawnLocals, ColState
  <2>6. CollectorTypeOK' /\ SpawnLocals'
    BY <2>4, <2>5
  <2> QED
    BY <1>d, <2>1, <2>6 DEF TypeInv, TypeOK
<1>19. CASE StartThread
  <2>1. UNCHANGED bufferVars
    BY <1>19 DEF StartThread
  <2>0. col.slot \in Slots /\ col.idx < NumPrompts /\ col.idx + 1 \in 0..NumPrompts
    BY <1>19, <1>c DEF StartThread, SpawnLocals, ColState
  <2>2. col' \in ColState /\ col.slot \in Slots /\ col.idx < NumPrompts
    BY <1>19, <1>c, <2>0 DEF StartThread, ColState, ColPcs
  <2>3. worker' \in [Slots -> WorkerState]
    <3>1. /\ worker \in [Slots -> WorkerState] /\ "rollout" \in WorkerPcs
          /\ worker' = [worker EXCEPT ![col.slot].pc = "rollout"]
      BY <1>19, <1>c DEF StartThread, CollectorTypeOK, WorkerPcs
    <3>2. \A x \in WorkerState : [x EXCEPT !.pc = "rollout"] \in WorkerState
      BY <3>1 DEF WorkerState
    <3> QED
      BY ONLY <2>0, <3>1, <3>2
  <2>4. CollectorTypeOK'
    BY <2>2, <2>3, <1>19, <1>c DEF StartThread, CollectorTypeOK, eventVars,
       versionVars, actorVars
  <2>5. SpawnLocals'
    BY <2>2, <1>19, <1>c DEF StartThread, SpawnLocals, ColState
  <2>6. CollectorTypeOK' /\ SpawnLocals'
    BY <2>4, <2>5
  <2> QED
    BY <1>d, <2>1, <2>6 DEF TypeInv, TypeOK
<1>20. CASE BatchDone
  <2>1. UNCHANGED bufferVars
    BY <1>20 DEF BatchDone
  <2>2. col' \in ColState /\ col'.pc \notin {"rewait", "acquire", "add", "start"}
    BY NextBatchType, <1>20, <1>c DEF BatchDone, ColState, ColPcs, NextBatch
  <2>3. CollectorTypeOK' /\ SpawnLocals'
    BY <2>2, <1>20, <1>c DEF BatchDone, CollectorTypeOK, SpawnLocals, eventVars,
       versionVars, actorVars
  <2> QED
    BY <1>d, <2>1, <2>3 DEF TypeInv, TypeOK
<1> QED
  BY <1>1, <1>2, <1>3, <1>4, <1>5, <1>6, <1>7, <1>8, <1>9, <1>10, <1>11, <1>12, <1>13, <1>14, <1>15, <1>16, <1>17, <1>18, <1>19, <1>20 DEF CollectionThread
\* A worker that moves on keeps its arguments.
LEMMA WorkerMovesType ==
  ASSUME TypeInv, NEW w \in Slots, NEW pc \in WorkerPcs, WorkerMoves(w, pc),
         worker[w].pc # "new"
  PROVE  /\ worker' \in [Slots -> WorkerState]
         /\ \A v \in Slots : worker[v].pc = "new" => worker'[v].pc = "new"
  BY DEF TypeInv, TypeOK, CollectorTypeOK, WorkerMoves, WorkerState

\* A step of a worker thread keeps the types.
LEMMA WorkerType ==
  ASSUME TypeInv, NEW w \in Slots, WorkerThread(w), UNCHANGED trainerVars
  PROVE  TypeInv'
<1> USE Constants
<1>c. /\ BufferTypeOK /\ CollectorTypeOK /\ TrainerTypeOK /\ SpawnLocals
      /\ worker[w] \in WorkerState
  BY DEF TypeInv, TypeOK, CollectorTypeOK
\* What is left to show when the buffer is well typed and the worker's record
\* changed as above.
<1>d. ASSUME BufferTypeOK', worker' \in [Slots -> WorkerState],
             \A v \in Slots : worker[v].pc = "new" => worker'[v].pc = "new",
             UNCHANGED <<col, eventVars, versionVars, actorVars, fetched, claimed>>,
             permits' \in Nat, inflight' \subseteq inflight,
             generating' \subseteq generating, failures' \in 0..MaxFailures
      PROVE  TypeInv'
  <2>1. CollectorTypeOK'
    BY <1>c, <1>d DEF CollectorTypeOK, eventVars, versionVars, actorVars
  <2>2. SpawnLocals'
    BY <1>c, <1>d DEF SpawnLocals
  <2>3. TrainerTypeOK'
    BY <1>c DEF TrainerTypeOK, trainerVars
  <2> QED
    BY <1>d, <2>1, <2>2, <2>3 DEF TypeInv, TypeOK
<1>e. UNCHANGED bufferVars => BufferTypeOK'
  BY <1>c DEF BufferTypeOK, bufferVars
<1>f. /\ permits \in Nat /\ failures \in 0..MaxFailures
      /\ inflight \subseteq Slots
  BY <1>c DEF CollectorTypeOK
<1>1. CASE Rollout(w)
  <2>1. /\ worker' \in [Slots -> WorkerState]
        /\ \A v \in Slots : worker[v].pc = "new" => worker'[v].pc = "new"
    <3> DEFINE pc == "loop"
    <3>1. pc \in WorkerPcs /\ WorkerMoves(w, pc) /\ worker[w].pc # "new"
      BY <1>1 DEF Rollout, WorkerPcs
    <3> HIDE DEF pc
    <3> QED
      BY <3>1, WorkerMovesType
  <2>2. BufferTypeOK'
    BY <1>1, <1>e DEF Rollout
  <2> QED
    BY <1>1, <1>d, <1>f, <2>1, <2>2 DEF Rollout
<1>2. CASE RolloutRaises(w)
  <2>1. /\ worker' \in [Slots -> WorkerState]
        /\ \A v \in Slots : worker[v].pc = "new" => worker'[v].pc = "new"
    <3> DEFINE pc == "cleanup"
    <3>1. pc \in WorkerPcs /\ WorkerMoves(w, pc) /\ worker[w].pc # "new"
      BY <1>2 DEF RolloutRaises, WorkerPcs
    <3> HIDE DEF pc
    <3> QED
      BY <3>1, WorkerMovesType
  <2>2. BufferTypeOK'
    BY <1>2, <1>e DEF RolloutRaises
  <2> QED
    BY <1>2, <1>d, <1>f, <2>1, <2>2 DEF RolloutRaises
<1>3. CASE PushLoop(w)
  <2>1. /\ worker' \in [Slots -> WorkerState]
        /\ \A v \in Slots : worker[v].pc = "new" => worker'[v].pc = "new"
    <3> DEFINE pc == IF running THEN "push" ELSE "cleanup"
    <3>1. pc \in WorkerPcs /\ WorkerMoves(w, pc) /\ worker[w].pc # "new"
      BY <1>3 DEF PushLoop, WorkerPcs
    <3> HIDE DEF pc
    <3> QED
      BY <3>1, WorkerMovesType
  <2>2. BufferTypeOK'
    BY <1>3, <1>e DEF PushLoop
  <2> QED
    BY <1>3, <1>d, <1>f, <2>1, <2>2 DEF PushLoop
<1>4. CASE PushGroup(w)
  <2>1. /\ worker' \in [Slots -> WorkerState]
        /\ \A v \in Slots : worker[v].pc = "new" => worker'[v].pc = "new"
    <3> DEFINE pc == IF worker[w].idx = 0 THEN "release" ELSE "cleanup"
    <3>1. pc \in WorkerPcs /\ WorkerMoves(w, pc) /\ worker[w].pc # "new"
      BY <1>4 DEF PushGroup, WorkerPcs
    <3> HIDE DEF pc
    <3> QED
      BY <3>1, WorkerMovesType
  <2>2. BufferTypeOK'
    <3>1. worker[w].ver \in Nat /\ worker[w].tgt \in Nat
      BY <1>c DEF WorkerState
    <3> QED
      BY <1>4, <1>c, <3>1, PushTypes DEF PushGroup
  <2> QED
    BY <1>4, <1>d, <1>f, <2>1, <2>2 DEF PushGroup
<1>5. CASE PushFull(w)
  <2>1. /\ worker' \in [Slots -> WorkerState]
        /\ \A v \in Slots : worker[v].pc = "new" => worker'[v].pc = "new"
    <3> DEFINE pc == "loop"
    <3>1. pc \in WorkerPcs /\ WorkerMoves(w, pc) /\ worker[w].pc # "new"
      BY <1>5 DEF PushFull, WorkerPcs
    <3> HIDE DEF pc
    <3> QED
      BY <3>1, WorkerMovesType
  <2>2. BufferTypeOK'
    BY <1>5, <1>e DEF PushFull
  <2> QED
    BY <1>5, <1>d, <1>f, <2>1, <2>2 DEF PushFull
<1>6. CASE ReleaseReservation(w)
  <2>1. /\ worker' \in [Slots -> WorkerState]
        /\ \A v \in Slots : worker[v].pc = "new" => worker'[v].pc = "new"
    <3> DEFINE pc == "cleanup"
    <3>1. pc \in WorkerPcs /\ WorkerMoves(w, pc) /\ worker[w].pc # "new"
      BY <1>6 DEF ReleaseReservation, WorkerPcs
    <3> HIDE DEF pc
    <3> QED
      BY <3>1, WorkerMovesType
  <2>2. BufferTypeOK'
    BY <1>6, <1>e DEF ReleaseReservation
  <2> QED
    BY <1>6, <1>d, <1>f, <2>1, <2>2 DEF ReleaseReservation
<1>7. CASE CleanupReservation(w)
  <2>1. /\ worker' \in [Slots -> WorkerState]
        /\ \A v \in Slots : worker[v].pc = "new" => worker'[v].pc = "new"
    <3> DEFINE pc == "detach"
    <3>1. pc \in WorkerPcs /\ WorkerMoves(w, pc) /\ worker[w].pc # "new"
      BY <1>7 DEF CleanupReservation, WorkerPcs
    <3> HIDE DEF pc
    <3> QED
      BY <3>1, WorkerMovesType
  <2>2. BufferTypeOK'
    BY <1>7, <1>e DEF CleanupReservation
  <2> QED
    BY <1>7, <1>d, <1>f, <2>1, <2>2 DEF CleanupReservation
<1>8. CASE DetachThread(w)
  <2>1. /\ worker' \in [Slots -> WorkerState]
        /\ \A v \in Slots : worker[v].pc = "new" => worker'[v].pc = "new"
    <3> DEFINE pc == "sema"
    <3>1. pc \in WorkerPcs /\ WorkerMoves(w, pc) /\ worker[w].pc # "new"
      BY <1>8 DEF DetachThread, WorkerPcs
    <3> HIDE DEF pc
    <3> QED
      BY <3>1, WorkerMovesType
  <2>2. BufferTypeOK'
    BY <1>8, <1>e DEF DetachThread
  <2> QED
    BY <1>8, <1>d, <1>f, <2>1, <2>2 DEF DetachThread
<1>9. CASE ReleasePermit(w)
  <2>1. /\ worker' \in [Slots -> WorkerState]
        /\ \A v \in Slots : worker[v].pc = "new" => worker'[v].pc = "new"
    <3>1. IdleWorker \in WorkerState
      BY DEF IdleWorker, WorkerState, WorkerPcs
    <3> QED
      BY <1>9, <1>c, <3>1 DEF ReleasePermit, CollectorTypeOK
  <2>2. BufferTypeOK'
    BY <1>9, <1>e DEF ReleasePermit
  <2> QED
    BY <1>9, <1>d, <1>f, <2>1, <2>2 DEF ReleasePermit
<1> QED
  BY <1>1, <1>2, <1>3, <1>4, <1>5, <1>6, <1>7, <1>8, <1>9 DEF WorkerThread

\* A call of the collector's actor keeps the types.
LEMMA ActorType ==
  ASSUME TypeInv, ActorThread, UNCHANGED trainerVars
  PROVE  TypeInv'
<1> USE Constants
<1>c. /\ BufferTypeOK /\ CollectorTypeOK /\ TrainerTypeOK /\ SpawnLocals
      /\ calls \in Seq(Call)
  BY DEF TypeInv, TypeOK, CollectorTypeOK
<1>d. ASSUME UNCHANGED <<bufferVars, worker, permits, generating, claimed,
                         failures, fetched, warnedVersion>>,
             col' \in ColState,
             \/ UNCHANGED col
             \/ col'.pc \notin {"rewait", "acquire", "add", "start"},
             inflight' \subseteq inflight, curVersion' \in Nat,
             eventVars' \in BOOLEAN \X BOOLEAN \X BOOLEAN \X BOOLEAN,
             calls' \in Seq(Call), busy' \in Busy, answered' \in BOOLEAN
      PROVE  TypeInv'
  <2>1. CollectorTypeOK'
    BY <1>c, <1>d DEF CollectorTypeOK, eventVars
  <2>2. SpawnLocals'
    BY <1>c, <1>d DEF SpawnLocals
  <2>3. TrainerTypeOK' /\ BufferTypeOK'
    BY <1>c, <1>d DEF TrainerTypeOK, trainerVars, BufferTypeOK, bufferVars
  <2> QED
    BY <2>1, <2>2, <2>3 DEF TypeInv, TypeOK
<1>e. \A op : Receive(op) =>
        calls' \in Seq(Call) /\ Head(calls).arg \in Nat
  BY <1>c, ReceiveTypes
<1> USE <1>c, <1>d, <1>e DEF CollectorTypeOK, threadVars, eventVars, versionVars
<1>1. CASE StartCollection
  BY <1>1 DEF StartCollection, ColState, ColPcs
<1>2. CASE SetWeightVersion
  BY <1>2 DEF SetWeightVersion, Busy
<1>3. CASE ClearLimitPause
  BY <1>3 DEF ClearLimitPause, Busy
<1>4. CASE Pause
  BY <1>4 DEF Pause
<1>5. CASE Resume
  BY <1>5 DEF Resume
<1>6. CASE PrepareForRefit
  BY <1>6 DEF PrepareForRefit, Busy
<1>7. CASE WaitForPending
  BY <1>7 DEF WaitForPending, Busy
<1>8. CASE ResumeAfterRefit
  BY <1>8 DEF ResumeAfterRefit
<1>9. CASE GetDataloaderState
  BY <1>9 DEF GetDataloaderState
<1> QED
  BY <1>1, <1>2, <1>3, <1>4, <1>5, <1>6, <1>7, <1>8, <1>9 DEF ActorThread
\* A step of the training loop keeps the types.
LEMMA TrainerType ==
  ASSUME TypeInv, Trainer
  PROVE  TypeInv'
<1> USE Constants
<1>c. /\ BufferTypeOK /\ CollectorTypeOK /\ TrainerTypeOK /\ SpawnLocals
      /\ calls \in Seq(Call) /\ version \in Nat /\ step \in Nat
  BY DEF TypeInv, TypeOK, CollectorTypeOK, TrainerTypeOK
<1>d. ASSUME BufferTypeOK', TrainerTypeOK',
             calls' \in Seq(Call), answered' \in BOOLEAN,
             UNCHANGED <<threadVars, eventVars, versionVars, busy, fetched>>
      PROVE  TypeInv'
  <2>1. CollectorTypeOK' /\ SpawnLocals'
    BY <1>c, <1>d DEF CollectorTypeOK, SpawnLocals, threadVars, eventVars,
       versionVars
  <2> QED
    BY <1>d, <2>1 DEF TypeInv, TypeOK
<1>e. UNCHANGED bufferVars => BufferTypeOK'
  BY <1>c DEF BufferTypeOK, bufferVars
<1>f. /\ \A op \in Ops : <<Simple(op)>> \in Seq(Call)
      /\ \A op1, op2 \in Ops, v \in Nat :
           /\ <<Simple(op1), [op |-> op2, arg |-> v]>> \in Seq(Call)
           /\ <<[op |-> op2, arg |-> v], Simple(op1)>> \in Seq(Call)
  BY DEF Simple, Call
<1>g. \A seq \in Seq(Call) : Submit(seq) => calls' \in Seq(Call)
  BY <1>c, SubmitTypes
<1>h. answered \in BOOLEAN
  BY <1>c DEF CollectorTypeOK
<1> USE <1>c, <1>h DEF TrainerTypeOK, TrainerPcs, Goto, QuietCollector
<1>1. CASE Boot
  <2> DEFINE seq == <<Simple("start"), [op |-> "setVersion", arg |-> version]>>
  <2>1. seq \in Seq(Call)
    BY <1>f DEF Ops
  <2>2. Submit(seq)
    BY <1>1 DEF Boot
  <2> HIDE DEF seq
  <2>3. calls' \in Seq(Call)
    BY <1>g, <2>1, <2>2
  <2>4. BufferTypeOK' /\ TrainerTypeOK' /\ answered' \in BOOLEAN
    BY <1>1, <1>e DEF Boot
  <2> QED
    BY <1>d, <2>2, <2>3, <2>4 DEF Submit
<1>2. CASE InitialValidation
  <2> DEFINE seq == <<Simple("pause")>>
  <2>1. seq \in Seq(Call)
    BY <1>f DEF Ops
  <2>2. Submit(seq)
    BY <1>2 DEF InitialValidation, PauseFor
  <2> HIDE DEF seq
  <2>3. calls' \in Seq(Call)
    BY <1>g, <2>1, <2>2
  <2>4. BufferTypeOK' /\ TrainerTypeOK' /\ answered' \in BOOLEAN
    BY <1>2, <1>e DEF InitialValidation, PauseFor
  <2> QED
    BY <1>d, <2>2, <2>3, <2>4 DEF Submit
<1>3. CASE InitialValidationDone
  <2> DEFINE seq == <<Simple("resume")>>
  <2>1. seq \in Seq(Call)
    BY <1>f DEF Ops
  <2>2. Submit(seq)
    BY <1>3 DEF InitialValidationDone, ResumeAfter
  <2> HIDE DEF seq
  <2>3. calls' \in Seq(Call)
    BY <1>g, <2>1, <2>2
  <2>4. BufferTypeOK' /\ TrainerTypeOK' /\ answered' \in BOOLEAN
    BY <1>3, <1>e DEF InitialValidationDone, ResumeAfter
  <2> QED
    BY <1>d, <2>2, <2>3, <2>4 DEF Submit
<1>4. CASE Train
  <2> DEFINE seq == <<Simple("prepareRefit")>>
  <2>1. seq \in Seq(Call)
    BY <1>f DEF Ops
  <2>2. Submit(seq)
    BY <1>4 DEF Train
  <2> HIDE DEF seq
  <2>3. calls' \in Seq(Call)
    BY <1>g, <2>1, <2>2
  <2>4. BufferTypeOK' /\ TrainerTypeOK' /\ answered' \in BOOLEAN
    BY <1>4, <1>e DEF Train
  <2> QED
    BY <1>d, <2>2, <2>3, <2>4 DEF Submit
<1>5. CASE Refit
  <2> DEFINE seq == <<[op |-> "setVersion", arg |-> version + 1],
                 Simple("resumeRefit")>>
  <2>1. seq \in Seq(Call)
    BY <1>f DEF Ops
  <2>2. Submit(seq)
    BY <1>5 DEF Refit
  <2> HIDE DEF seq
  <2>3. calls' \in Seq(Call)
    BY <1>g, <2>1, <2>2
  <2>4. BufferTypeOK' /\ TrainerTypeOK' /\ answered' \in BOOLEAN
    BY <1>5, <1>e DEF Refit
  <2> QED
    BY <1>d, <2>2, <2>3, <2>4 DEF Submit
<1>6. CASE Validation
  <2> DEFINE seq == <<Simple("pause")>>
  <2>1. seq \in Seq(Call)
    BY <1>f DEF Ops
  <2>2. Submit(seq)
    BY <1>6 DEF Validation, PauseFor
  <2> HIDE DEF seq
  <2>3. calls' \in Seq(Call)
    BY <1>g, <2>1, <2>2
  <2>4. BufferTypeOK' /\ TrainerTypeOK' /\ answered' \in BOOLEAN
    BY <1>6, <1>e DEF Validation, PauseFor
  <2> QED
    BY <1>d, <2>2, <2>3, <2>4 DEF Submit
<1>7. CASE ValidationDone
  <2> DEFINE seq == <<Simple("resume")>>
  <2>1. seq \in Seq(Call)
    BY <1>f DEF Ops
  <2>2. Submit(seq)
    BY <1>7 DEF ValidationDone, ResumeAfter
  <2> HIDE DEF seq
  <2>3. calls' \in Seq(Call)
    BY <1>g, <2>1, <2>2
  <2>4. BufferTypeOK' /\ TrainerTypeOK' /\ answered' \in BOOLEAN
    BY <1>7, <1>e DEF ValidationDone, ResumeAfter
  <2> QED
    BY <1>d, <2>2, <2>3, <2>4 DEF Submit
<1>8. CASE InitialRefit
  BY <1>8, <1>d, <1>e DEF InitialRefit
<1>9. CASE TrainerRaises
  BY <1>9, <1>d, <1>e DEF TrainerRaises
<1>10. CASE BufferReady
  BY <1>10, <1>d, <1>e DEF BufferReady
<1>11. CASE SampleFails
  BY <1>11, <1>d, <1>e DEF SampleFails
<1>12. CASE ReadyForRefit
  BY <1>12, <1>d, <1>e DEF ReadyForRefit
<1>13. CASE SaveDone
  BY <1>13, <1>d, <1>e DEF SaveDone, EndStep
<1>14. CASE Sample
  <2>1. PICK sel : SampleReturns(NumPrompts, version, MaxAge, sel) /\ batch' = sel
    BY <1>14 DEF Sample
  <2>2. BufferTypeOK' /\ batch' \subseteq groups
    BY <2>1, SampleTypes
  <2>3. TrainerTypeOK'
    BY <1>14, <2>2 DEF Sample, BufferTypeOK
  <2> QED
    BY <1>14, <1>d, <2>2, <2>3 DEF Sample
<1>15. ASSUME NEW early \in BOOLEAN, Save(early) PROVE TypeInv'
  <2>1. <<Simple("getState")>> \in Seq(Call)
    BY <1>f DEF Ops
  <2>2. calls' \in Seq(Call)
    BY <1>g, <1>15, <2>1 DEF Save
  <2>3. BufferTypeOK' /\ TrainerTypeOK' /\ answered' \in BOOLEAN
    BY <1>15, <1>e DEF Save
  <2> QED
    BY <1>d, <1>15, <2>2, <2>3 DEF Save, Submit
<1>16. ASSUME NEW early \in BOOLEAN, SkipSave(early) PROVE TypeInv'
  BY <1>16, <1>d, <1>e DEF SkipSave, EndStep
<1> QED
  BY <1>1, <1>2, <1>3, <1>4, <1>5, <1>6, <1>7, <1>8, <1>9, <1>10, <1>11, <1>12, <1>13, <1>14, <1>15, <1>16 DEF Trainer

\* So does every step.
LEMMA TypeNext == TypeInv /\ [Next]_vars => TypeInv'
<1> SUFFICES ASSUME TypeInv, [Next]_vars PROVE TypeInv'
  OBVIOUS
<1>1. CASE Trainer
  BY <1>1, TrainerType
<1>2. CASE CollectorStep
  BY <1>2, CollectionType, ActorType, WorkerType DEF CollectorStep
<1>3. CASE UNCHANGED vars
  BY <1>3 DEF TypeInv, TypeOK, BufferTypeOK, CollectorTypeOK, TrainerTypeOK,
     SpawnLocals, vars, bufferVars, collectorVars, trainerVars, threadVars,
     eventVars, versionVars, actorVars
<1> QED
  BY <1>1, <1>2, <1>3 DEF Next

\* Every variable keeps its type and the locals of the spawning loop stay in
\* range: no thread is created for a prompt the batch does not have, and none
\* is started before it was created (_process_batch).
THEOREM TypeCorrect == Spec => [](TypeOK /\ SpawnLocals)
<1> QED
  BY TypeInit, TypeNext, PTL DEF Spec, TypeInv

-----------------------------------------------------------------------------
(***************************************************************************)
(* Proofs that the labels of the prompt groups stay in the age window and  *)
(* never run ahead of the weights the generation engine was given.         *)
(*                                                                         *)
(* The argument: the versions the trainer announces travel through the     *)
(* actor's queue in ascending order and never exceed the trainer's own     *)
(* (UpdatesInOrder), so the collector's version only grows; every label is *)
(* a version the collector once had (LabelsKnown); a target is chosen      *)
(* within MaxAge of the label, and the only later change of a label, after *)
(* a refit, replaces it by a newer one (AgeWindow).                        *)
(***************************************************************************)

-----------------------------------------------------------------------------
(* The queue of weight updates.                                            *)

\* Calls submitted behind the others keep the order when the updates among
\* them carry the trainer's new version.
LEMMA SubmitOrder ==
  ASSUME TypeInv, UpdatesInOrder, NEW seq \in Seq(Call), Submit(seq),
         version' \in Nat, version <= version',
         engine' \in {DummyWeights, version'},
         \A i \in 1..Len(seq) : seq[i].op = "setVersion" => seq[i].arg = version'
  PROVE  UpdatesInOrder'
<1>1. /\ calls \in Seq(Call) /\ version \in Nat /\ curVersion \in Nat
      /\ StartStep \in Nat
  BY Constants DEF TypeInv, TypeOK, CollectorTypeOK, TrainerTypeOK
<1>2. /\ Len(calls) \in Nat /\ Len(seq) \in Nat
      /\ Len(calls') = Len(calls) + Len(seq)
      /\ \A i \in 1..Len(calls) : calls'[i] = calls[i]
      /\ \A i \in Len(calls) + 1 .. Len(calls) + Len(seq) :
           calls'[i] = seq[i - Len(calls)]
  <2>1. Len(calls) \in Nat /\ Len(seq) \in Nat
    BY <1>1, LenProperties
  <2>2. /\ Len(calls') = Len(calls) + Len(seq)
        /\ \A i \in 1..Len(calls) + Len(seq) :
             calls'[i] = IF i <= Len(calls) THEN calls[i] ELSE seq[i - Len(calls)]
    BY <1>1, ConcatProperties DEF Submit
  <2> QED
    BY <2>1, <2>2
<1>3. curVersion' = curVersion
  BY DEF Submit, versionVars
<1>4. \A i \in 1..Len(calls) : calls[i].arg \in Nat
  <2>1. \A i \in 1..Len(calls) : calls[i] \in Call
    BY <1>1, ElementOfSeq
  <2> QED
    BY <2>1 DEF Call
<1>5. ASSUME NEW i \in 1..Len(calls'), IsUpdate(i)'
      PROVE  \/ i \in 1..Len(calls) /\ IsUpdate(i)
             \/ i > Len(calls) /\ calls'[i].arg = version'
  <2>1. CASE i <= Len(calls)
    BY <2>1, <1>2, <1>5 DEF IsUpdate
  <2>2. CASE i > Len(calls)
    <3>1. i - Len(calls) \in 1..Len(seq) /\ calls'[i] = seq[i - Len(calls)]
      BY <2>2, <1>2
    <3> QED
      BY <2>2, <3>1, <1>5 DEF IsUpdate
  <2> QED
    BY <2>1, <2>2, <1>2
<1>6. \A i \in 1..Len(calls') :
        IsUpdate(i)' => curVersion' <= calls'[i].arg /\ calls'[i].arg <= version'
  <2> SUFFICES ASSUME NEW i \in 1..Len(calls'), IsUpdate(i)'
               PROVE  curVersion' <= calls'[i].arg /\ calls'[i].arg <= version'
    OBVIOUS
  <2>1. CASE i \in 1..Len(calls) /\ IsUpdate(i)
    <3>1. curVersion <= calls[i].arg /\ calls[i].arg <= version
      BY <2>1 DEF UpdatesInOrder
    <3> QED
      BY <1>1, <1>2, <1>3, <1>4, <2>1, <3>1
  <2>2. CASE i > Len(calls) /\ calls'[i].arg = version'
    BY <1>1, <1>2, <1>3, <2>2 DEF UpdatesInOrder
  <2> QED
    BY <1>5, <2>1, <2>2
<1>7. ASSUME NEW i \in 1..Len(calls'), NEW j \in 1..Len(calls'),
             i < j, IsUpdate(i)', IsUpdate(j)'
      PROVE  calls'[i].arg <= calls'[j].arg
  <2>1. CASE j <= Len(calls)
    <3>1. i \in 1..Len(calls) /\ j \in 1..Len(calls) /\ IsUpdate(i) /\ IsUpdate(j)
      BY <2>1, <1>2, <1>5, <1>7
    <3> QED
      BY <3>1, <1>2, <1>7 DEF UpdatesInOrder
  <2>2. CASE j > Len(calls)
    <3>1. calls'[j].arg = version'
      BY <2>2, <1>2, <1>5, <1>7
    <3> QED
      BY <3>1, <1>6, <1>7
  <2> QED
    BY <2>1, <2>2, <1>2
<1> QED
  BY <1>1, <1>3, <1>6, <1>7 DEF UpdatesInOrder

\* Executing a call keeps the order, and a weight update only raises the
\* collector's version.
LEMMA ReceiveOrder ==
  ASSUME TypeInv, UpdatesInOrder, NEW op, Receive(op),
         UNCHANGED <<version, engine>>,
         curVersion' = IF op = "setVersion" THEN Head(calls).arg ELSE curVersion
  PROVE  UpdatesInOrder' /\ curVersion <= curVersion'
<1>1. /\ calls \in Seq(Call) /\ version \in Nat /\ curVersion \in Nat
      /\ StartStep \in Nat /\ calls # <<>>
  BY Constants DEF TypeInv, TypeOK, CollectorTypeOK, TrainerTypeOK, Receive
<1>2. /\ Len(calls) \in Nat /\ Len(calls) > 0
      /\ Len(calls') = Len(calls) - 1
      /\ \A i \in 1..Len(calls') : calls'[i] = calls[i + 1]
      /\ Head(calls) = calls[1]
  <2>1. Len(calls) \in Nat /\ Len(calls) > 0
    BY <1>1, EmptySeq
  <2>2. /\ Len(calls') = Len(calls) - 1
        /\ \A i \in 1..Len(calls') : calls'[i] = calls[i + 1]
    BY <1>1, HeadTailProperties DEF Receive
  <2>3. Head(calls) = calls[1]
    BY <1>1, <2>1
  <2> QED
    BY <2>1, <2>2, <2>3
<1>3. \A i \in 1..Len(calls) : calls[i].arg \in Nat
  <2>1. \A i \in 1..Len(calls) : calls[i] \in Call
    BY <1>1, ElementOfSeq
  <2> QED
    BY <2>1 DEF Call
<1>4. \A i \in 1..Len(calls') : i + 1 \in 1..Len(calls) /\ (IsUpdate(i)' => IsUpdate(i + 1))
  BY <1>2 DEF IsUpdate
<1>5. curVersion <= curVersion' /\ curVersion' <= version /\ curVersion' \in Nat
  BY <1>1, <1>2, <1>3 DEF UpdatesInOrder, IsUpdate, Receive
<1>6. \A i \in 1..Len(calls') :
        IsUpdate(i)' => curVersion' <= calls'[i].arg /\ calls'[i].arg <= version'
  <2>1. CASE op = "setVersion"
    <3>1. IsUpdate(1) /\ curVersion' = calls[1].arg
      BY <2>1, <1>2 DEF IsUpdate, Receive
    <3> QED
      BY <3>1, <1>2, <1>4 DEF UpdatesInOrder
  <2>2. CASE op # "setVersion"
    BY <2>2, <1>2, <1>4 DEF UpdatesInOrder
  <2> QED
    BY <2>1, <2>2
<1>7. ASSUME NEW i \in 1..Len(calls'), NEW j \in 1..Len(calls'),
             i < j, IsUpdate(i)', IsUpdate(j)'
      PROVE  calls'[i].arg <= calls'[j].arg
  <2>1. i + 1 < j + 1
    BY <1>7
  <2> QED
    BY <2>1, <1>2, <1>4, <1>7 DEF UpdatesInOrder
<1> QED
  BY <1>1, <1>5, <1>6, <1>7 DEF UpdatesInOrder

\* In every step the updates stay in order and the collector's version does
\* not decrease.
LEMMA UpdatesNext ==
  ASSUME TypeInv, UpdatesInOrder, [Next]_vars
  PROVE  UpdatesInOrder' /\ curVersion <= curVersion'
<1>c. /\ calls \in Seq(Call) /\ version \in Nat /\ curVersion \in Nat
      /\ engine \in {DummyWeights, version}
  BY DEF TypeInv, TypeOK, CollectorTypeOK, TrainerTypeOK, UpdatesInOrder
<1>d. UNCHANGED <<calls, version, engine, curVersion>> =>
        UpdatesInOrder' /\ curVersion <= curVersion'
  BY <1>c DEF UpdatesInOrder, IsUpdate
<1>e. \A op : /\ Receive(op) /\ UNCHANGED <<version, engine>>
              /\ curVersion' = IF op = "setVersion" THEN Head(calls).arg
                                                    ELSE curVersion
              => UpdatesInOrder' /\ curVersion <= curVersion'
  BY ReceiveOrder
<1>1. CASE CollectorStep
  <2> USE <1>1 DEF CollectorStep, trainerVars, threadVars, eventVars, versionVars,
                   actorVars
  <2>1. CASE CollectionThread
    BY <2>1, <1>d DEF CollectionThread, ColMoves, Fetch, Exhausted, ManualGate,
       RefitGate, LimitReadVersion, LimitReadLast, LimitCheck, LimitWarn,
       LimitClear, LimitWait, ProcessBatch, ReadLastTarget, Reserve,
       NothingToReserve, NextPrompt, RefitWait, AcquirePermit, AddThread,
       StartThread, BatchDone
  <2>2. CASE \E w \in Slots : WorkerThread(w)
    BY <2>2, <1>d DEF WorkerThread, Rollout, RolloutRaises, PushLoop, PushGroup,
       PushFull, ReleaseReservation, CleanupReservation, DetachThread,
       ReleasePermit
  <2>3. CASE ActorThread
    <3>1. CASE SetWeightVersion
      BY <3>1, <1>e DEF SetWeightVersion, Receive
    <3>2. CASE ClearLimitPause \/ WaitForPending
      BY <3>2, <1>d DEF ClearLimitPause, WaitForPending
    <3>3. CASE StartCollection
      BY <3>3, <1>e DEF StartCollection
    <3>4. CASE Pause
      BY <3>4, <1>e DEF Pause
    <3>5. CASE Resume
      BY <3>5, <1>e DEF Resume
    <3>6. CASE PrepareForRefit
      BY <3>6, <1>e DEF PrepareForRefit
    <3>7. CASE ResumeAfterRefit
      BY <3>7, <1>e DEF ResumeAfterRefit
    <3>8. CASE GetDataloaderState
      BY <3>8, <1>e DEF GetDataloaderState
    <3> QED
      BY <2>3, <3>1, <3>2, <3>3, <3>4, <3>5, <3>6, <3>7, <3>8 DEF ActorThread
  <2> QED
    BY <2>1, <2>2, <2>3
<1>2. CASE Trainer
  <2>0. \A seq \in Seq(Call) :
          /\ Submit(seq) /\ version' \in Nat /\ version <= version'
          /\ engine' \in {DummyWeights, version'}
          /\ \A i \in 1..Len(seq) : seq[i].op = "setVersion" => seq[i].arg = version'
          => UpdatesInOrder' /\ curVersion <= curVersion'
    <3>1. ASSUME NEW seq \in Seq(Call), Submit(seq) PROVE curVersion <= curVersion'
      BY <1>c, <3>1 DEF Submit, versionVars
    <3> QED
      BY <3>1, SubmitOrder
  <2>a. \A op \in Ops :
          /\ <<Simple(op)>> \in Seq(Call) /\ Len(<<Simple(op)>>) = 1
          /\ <<Simple(op)>>[1].op = op
    BY DEF Simple, Call
  <2>b. ASSUME NEW op \in Ops \ {"setVersion"}, Submit(<<Simple(op)>>),
               UNCHANGED <<version, engine>>
        PROVE  UpdatesInOrder' /\ curVersion <= curVersion'
    <3> DEFINE seq == <<Simple(op)>>
    <3>1. seq \in Seq(Call) /\ Len(seq) = 1 /\ seq[1].op # "setVersion"
      BY <2>a
    <3>2. Submit(seq)
      BY <2>b
    <3> HIDE DEF seq
    <3>3. \A i \in 1..Len(seq) : seq[i].op = "setVersion" => seq[i].arg = version'
      BY <3>1
    <3> QED
      BY <2>0, <2>b, <3>1, <3>2, <3>3, <1>c
  <2>1. CASE Boot
    <3> DEFINE seq == <<Simple("start"), [op |-> "setVersion", arg |-> version]>>
    <3>1. seq \in Seq(Call) /\ Len(seq) = 2 /\ seq[1].op = "start"
          /\ seq[2].arg = version
      BY <1>c DEF Simple, Call, Ops
    <3>2. Submit(seq) /\ UNCHANGED <<version, engine>>
      BY <2>1 DEF Boot
    <3> HIDE DEF seq
    <3>3. \A i \in 1..Len(seq) : seq[i].op = "setVersion" => seq[i].arg = version'
      BY <3>1, <3>2
    <3> QED
      BY <2>0, <3>1, <3>2, <3>3, <1>c
  <2>2. CASE Refit
    <3> DEFINE seq == <<[op |-> "setVersion", arg |-> version + 1],
                        Simple("resumeRefit")>>
    <3>1. seq \in Seq(Call) /\ Len(seq) = 2 /\ seq[2].op = "resumeRefit"
          /\ seq[1].arg = version + 1
      BY <1>c DEF Simple, Call, Ops
    <3>2. Submit(seq) /\ version' = version + 1 /\ engine' = version + 1
      BY <2>2 DEF Refit
    <3> HIDE DEF seq
    <3>3. \A i \in 1..Len(seq) : seq[i].op = "setVersion" => seq[i].arg = version'
      BY <3>1, <3>2
    <3> QED
      BY <2>0, <3>1, <3>2, <3>3, <1>c
  <2>3. CASE InitialValidation \/ Validation
    BY <2>3, <2>b DEF InitialValidation, Validation, PauseFor, Ops
  <2>4. CASE InitialValidationDone \/ ValidationDone
    BY <2>4, <2>b DEF InitialValidationDone, ValidationDone, ResumeAfter, Ops
  <2>5. CASE Train
    BY <2>5, <2>b DEF Train, Ops
  <2>6. CASE \E early \in BOOLEAN : Save(early)
    BY <2>6, <2>b DEF Save, Ops
  <2>7. CASE InitialRefit
    BY <2>7, <1>c DEF InitialRefit, QuietCollector, versionVars, UpdatesInOrder,
       IsUpdate
  <2>8. CASE \/ TrainerRaises \/ BufferReady \/ Sample \/ SampleFails
             \/ ReadyForRefit \/ SaveDone \/ \E early \in BOOLEAN : SkipSave(early)
    BY <2>8, <1>d DEF TrainerRaises, BufferReady, Sample, SampleFails,
       ReadyForRefit, SaveDone, SkipSave, EndStep, QuietCollector, versionVars
  <2> QED
    BY <1>2, <2>1, <2>2, <2>3, <2>4, <2>5, <2>6, <2>7, <2>8 DEF Trainer
<1>3. CASE UNCHANGED vars
  BY <1>3, <1>d DEF vars, collectorVars, actorVars, versionVars, trainerVars
<1> QED
  BY <1>1, <1>2, <1>3 DEF Next
-----------------------------------------------------------------------------
(* The labels.                                                             *)

\* The collection thread and a worker carry admissible labels.
ColLabel ==
  col.ver <= curVersion /\ (Spawning => col.tgt <= col.ver + MaxAge)
WorkerLabel(w) ==
  /\ worker[w].ver <= curVersion
  /\ Carries(w) => worker[w].tgt <= worker[w].ver + MaxAge
GroupLabel(g) == g.ver <= curVersion /\ g.tgt <= g.ver + MaxAge

\* What is said about labels, part by part: the collection thread's, the
\* workers' and those of the groups.
LEMMA LabelParts ==
  LabelsKnown /\ AgeWindow <=>
    ColLabel /\ (\A w \in Slots : WorkerLabel(w))
             /\ \A g \in groups \cup batch : GroupLabel(g)
  BY DEF LabelsKnown, AgeWindow, ColLabel, WorkerLabel, GroupLabel

\* What LabelInv says, with the types, part by part.
LEMMA LabelFacts ==
  ASSUME LabelInv
  PROVE  /\ TypeInv /\ UpdatesInOrder /\ ColLabel
         /\ \A w \in Slots : WorkerLabel(w)
         /\ \A g \in groups \cup batch : GroupLabel(g)
         /\ curVersion \in Nat /\ StartStep \in Nat /\ MaxAge \in Nat
         /\ StartStep <= curVersion
         /\ col.ver \in Nat /\ col.tgt \in Nat
         /\ \A w \in Slots : worker[w].ver \in Nat /\ worker[w].tgt \in Nat
         /\ \A g \in groups \cup batch : g.ver \in Nat /\ g.tgt \in Nat
<1>1. /\ curVersion \in Nat /\ col \in ColState /\ groups \subseteq Group
      /\ batch \subseteq Group /\ worker \in [Slots -> WorkerState]
  BY DEF LabelInv, TypeInv, TypeOK, CollectorTypeOK, BufferTypeOK, TrainerTypeOK
<1>2. \A w \in Slots : worker[w].ver \in Nat /\ worker[w].tgt \in Nat
  BY <1>1 DEF WorkerState
<1>3. \A g \in groups \cup batch : g.ver \in Nat /\ g.tgt \in Nat
  BY <1>1 DEF Group
<1>4. col.ver \in Nat /\ col.tgt \in Nat
  BY <1>1 DEF ColState
<1> QED
  BY <1>1, <1>2, <1>3, <1>4, LabelParts, Constants DEF LabelInv, UpdatesInOrder

\* A step preserves the labels when everything it changes gets an admissible
\* label, a new group takes over that of a worker, and the collector's version
\* does not decrease.
LEMMA LabelsKept ==
  ASSUME LabelInv, curVersion <= curVersion', curVersion' \in Nat,
         \A g \in groups' \cup batch' :
           \/ g \in groups \cup batch
           \/ \E w \in Slots : /\ Carries(w)
                               /\ g.ver = worker[w].ver
                               /\ g.tgt = worker[w].tgt,
         ColLabel' \/ UNCHANGED col,
         \A w \in Slots : WorkerLabel(w)' \/ worker'[w] = worker[w]
  PROVE  LabelsKnown' /\ AgeWindow'
<1>1. ColLabel'
  BY LabelFacts DEF ColLabel, Spawning
<1>2. ASSUME NEW w \in Slots PROVE WorkerLabel(w)'
  BY <1>2, LabelFacts DEF WorkerLabel, Carries
<1>3. ASSUME NEW g \in groups' \cup batch'
      PROVE  g.ver <= curVersion' /\ g.tgt <= g.ver + MaxAge
  <2>1. CASE g \in groups \cup batch
    BY <2>1, LabelFacts DEF GroupLabel
  <2>2. CASE \E w \in Slots : /\ Carries(w)
                             /\ g.ver = worker[w].ver
                             /\ g.tgt = worker[w].tgt
    BY <2>2, LabelFacts DEF WorkerLabel
  <2> QED
    BY <1>3, <2>1, <2>2
<1> QED
  BY <1>1, <1>2, <1>3
  DEF LabelsKnown, AgeWindow, ColLabel, WorkerLabel, GroupLabel
\* A worker that moves on keeps its label and does not come to owe a group.
LEMMA WorkerMovesLabel ==
  ASSUME LabelInv, NEW w \in Slots, NEW pc, WorkerMoves(w, pc), UNCHANGED curVersion,
         \/ Carries(w)
         \/ pc \notin {"new", "rollout", "loop", "push"}
  PROVE  \A v \in Slots : WorkerLabel(v)' \/ worker'[v] = worker[v]
<1>1. worker \in [Slots -> WorkerState]
  BY DEF LabelInv, TypeInv, TypeOK, CollectorTypeOK
<1>2. /\ worker'[w].ver = worker[w].ver /\ worker'[w].tgt = worker[w].tgt
      /\ worker'[w].pc = pc
      /\ \A v \in Slots \ {w} : worker'[v] = worker[v]
  BY <1>1 DEF WorkerMoves, WorkerState
<1>3. WorkerLabel(w)'
  BY <1>2, LabelFacts DEF WorkerLabel, Carries
<1> QED
  BY <1>2, <1>3

\* A worker thread carries its labels on unchanged: into the buffer, or
\* nowhere.
LEMMA WorkerLabels ==
  ASSUME LabelInv, NEW w \in Slots, WorkerThread(w), UNCHANGED trainerVars
  PROVE  LabelsKnown' /\ AgeWindow'
<1>c. curVersion \in Nat
  BY LabelFacts
<1>d. batch' = batch
  BY DEF trainerVars
<1>1. CASE Rollout(w)
  <2>1. UNCHANGED <<groups, col, curVersion>>
    BY <1>1 DEF Rollout, bufferVars, versionVars
  <2>2. \A v \in Slots : WorkerLabel(v)' \/ worker'[v] = worker[v]
    BY <1>1, <2>1, WorkerMovesLabel DEF Rollout, Carries
  <2> QED
    BY <1>c, <1>d, <2>1, <2>2, LabelsKept
<1>2. CASE RolloutRaises(w)
  <2>1. UNCHANGED <<groups, col, curVersion>>
    BY <1>2 DEF RolloutRaises, bufferVars, versionVars
  <2>2. \A v \in Slots : WorkerLabel(v)' \/ worker'[v] = worker[v]
    BY <1>2, <2>1, WorkerMovesLabel DEF RolloutRaises, Carries
  <2> QED
    BY <1>c, <1>d, <2>1, <2>2, LabelsKept
<1>3. CASE PushLoop(w)
  <2>1. UNCHANGED <<groups, col, curVersion>>
    BY <1>3 DEF PushLoop, bufferVars, versionVars
  <2>2. \A v \in Slots : WorkerLabel(v)' \/ worker'[v] = worker[v]
    BY <1>3, <2>1, WorkerMovesLabel DEF PushLoop, Carries
  <2> QED
    BY <1>c, <1>d, <2>1, <2>2, LabelsKept
<1>4. CASE PushFull(w)
  <2>1. UNCHANGED <<groups, col, curVersion>>
    BY <1>4 DEF PushFull, bufferVars, versionVars
  <2>2. \A v \in Slots : WorkerLabel(v)' \/ worker'[v] = worker[v]
    BY <1>4, <2>1, WorkerMovesLabel DEF PushFull, Carries
  <2> QED
    BY <1>c, <1>d, <2>1, <2>2, LabelsKept
<1>5. CASE ReleaseReservation(w)
  <2>1. UNCHANGED <<groups, col, curVersion>>
    BY <1>5 DEF ReleaseReservation, bufferVars, versionVars
  <2>2. \A v \in Slots : WorkerLabel(v)' \/ worker'[v] = worker[v]
    BY <1>5, <2>1, WorkerMovesLabel DEF ReleaseReservation, Carries
  <2> QED
    BY <1>c, <1>d, <2>1, <2>2, LabelsKept
<1>6. CASE CleanupReservation(w)
  <2>1. UNCHANGED <<groups, col, curVersion>>
    BY <1>6 DEF CleanupReservation, bufferVars, versionVars
  <2>2. \A v \in Slots : WorkerLabel(v)' \/ worker'[v] = worker[v]
    BY <1>6, <2>1, WorkerMovesLabel DEF CleanupReservation, Carries
  <2> QED
    BY <1>c, <1>d, <2>1, <2>2, LabelsKept
<1>7. CASE DetachThread(w)
  <2>1. UNCHANGED <<groups, col, curVersion>>
    BY <1>7 DEF DetachThread, bufferVars, versionVars
  <2>2. \A v \in Slots : WorkerLabel(v)' \/ worker'[v] = worker[v]
    BY <1>7, <2>1, WorkerMovesLabel DEF DetachThread, Carries
  <2> QED
    BY <1>c, <1>d, <2>1, <2>2, LabelsKept
<1>8. CASE ReleasePermit(w)
  <2>1. UNCHANGED <<groups, col, curVersion>>
    BY <1>8 DEF ReleasePermit, bufferVars, versionVars
  <2>2. worker \in [Slots -> WorkerState] /\ worker' = [worker EXCEPT ![w] = IdleWorker]
    BY <1>8 DEF ReleasePermit, LabelInv, TypeInv, TypeOK, CollectorTypeOK
  <2>3. \A v \in Slots : WorkerLabel(v)' \/ worker'[v] = worker[v]
    BY <2>1, <2>2, LabelFacts DEF IdleWorker, WorkerLabel, Carries
  <2> QED
    BY <1>c, <1>d, <2>1, <2>3, LabelsKept
<1>9. CASE PushGroup(w)
  <2> DEFINE g == [no |-> arrivals + 1, ver |-> worker[w].ver, tgt |-> worker[w].tgt]
             pc == IF worker[w].idx = 0 THEN "release" ELSE "cleanup"
  <2>1. /\ groups' = groups \cup {g} /\ UNCHANGED <<col, curVersion>>
        /\ WorkerMoves(w, pc) /\ Carries(w)
    BY <1>9 DEF PushGroup, Push, versionVars, Carries
  <2>2. \A v \in Slots : WorkerLabel(v)' \/ worker'[v] = worker[v]
    BY <2>1, WorkerMovesLabel
  <2>3. g.ver = worker[w].ver /\ g.tgt = worker[w].tgt
    OBVIOUS
  <2> HIDE DEF g, pc
  <2> QED
    BY <1>c, <1>d, <2>1, <2>2, <2>3, LabelsKept
<1> QED
  BY <1>1, <1>2, <1>3, <1>4, <1>5, <1>6, <1>7, <1>8, <1>9 DEF WorkerThread

\* A step of the collection thread that changes its locals only.
LEMMA ColMovesLabel ==
  ASSUME LabelInv, UNCHANGED <<groups, batch, worker, curVersion>>, ColLabel'
  PROVE  LabelsKnown' /\ AgeWindow'
<1>1. curVersion \in Nat
  BY LabelFacts
<1> QED
  BY <1>1, LabelsKept

\* A target is chosen within the age window of the version it is chosen for.
LEMMA TargetInWindow ==
  ASSUME LabelInv, NEW last, NEW t \in FreeTargets(col.ver, last)
  PROVE  t <= col.ver + MaxAge
<1>1. col.ver \in Nat /\ StartStep \in Nat /\ MaxAge \in Nat
  BY LabelFacts
<1>2. t \in TargetWeights(col.ver)
  BY DEF FreeTargets
<1> QED
  BY <1>1, <1>2 DEF TargetWeights

\* The collection thread labels with the version the collector knows, and with
\* a target that has come within the window by then.
LEMMA CollectionLabels ==
  ASSUME LabelInv, CollectionThread, UNCHANGED trainerVars
  PROVE  LabelsKnown' /\ AgeWindow'
<1>c. /\ curVersion \in Nat /\ col \in ColState /\ worker \in [Slots -> WorkerState]
      /\ StartStep \in Nat /\ StartStep <= curVersion
  BY LabelFacts DEF LabelInv, TypeInv, TypeOK, CollectorTypeOK
<1>d. col.ver <= curVersion /\ (Spawning => col.tgt <= col.ver + MaxAge)
  BY LabelFacts DEF ColLabel
<1>e. UNCHANGED <<groups, batch, curVersion>>
  BY DEF trainerVars, bufferVars, versionVars, CollectionThread, ColMoves, Fetch,
     Exhausted, ManualGate, RefitGate, LimitReadVersion, LimitReadLast,
     LimitCheck, LimitWarn, LimitClear, LimitWait, ProcessBatch, ReadLastTarget,
     Reserve, NothingToReserve, NextPrompt, RefitWait, AcquirePermit, AddThread,
     StartThread, BatchDone
<1>1. CASE Fetch \/ Exhausted \/ LimitClear
  <2>1. UNCHANGED worker /\ col'.ver = col.ver /\ ~Spawning'
    BY <1>1, <1>c DEF Fetch, Exhausted, LimitClear, ColState, Spawning
  <2> QED
    BY <1>d, <1>e, <2>1, ColMovesLabel DEF ColLabel
<1>2. CASE \/ ManualGate \/ RefitGate \/ LimitReadLast \/ LimitCheck
           \/ LimitWarn \/ LimitWait \/ ReadLastTarget
  <2>1. UNCHANGED worker /\ col'.ver = col.ver /\ ~Spawning'
    BY <1>2, <1>c DEF ColMoves, ManualGate, RefitGate, LimitReadLast, LimitCheck,
       LimitWarn, LimitWait, ReadLastTarget, ColState, Spawning
  <2> QED
    BY <1>d, <1>e, <2>1, ColMovesLabel DEF ColLabel
<1>3. CASE LimitReadVersion \/ ProcessBatch
  <2>1. UNCHANGED worker /\ col'.ver = curVersion /\ ~Spawning'
    BY <1>3, <1>c DEF ColMoves, LimitReadVersion, ProcessBatch, ColState, Spawning
  <2> QED
    BY <1>c, <1>e, <2>1, ColMovesLabel DEF ColLabel
<1>4. CASE NothingToReserve \/ BatchDone
  <2>1. UNCHANGED worker /\ col' = NextBatch
    BY <1>4 DEF ColMoves, NothingToReserve, BatchDone
  <2>2. col'.ver = StartStep /\ ~Spawning'
    BY <2>1 DEF NextBatch, Spawning
  <2> QED
    BY <1>c, <1>e, <2>1, <2>2, ColMovesLabel DEF ColLabel
<1>5. CASE Reserve
  <2>1. PICK t \in FreeTargets(col.ver, col.last) :
          col' = [col EXCEPT !.pc = "prompt", !.last = NoTarget, !.tgt = t, !.idx = 0]
    BY <1>5 DEF Reserve
  <2>2. UNCHANGED worker /\ col'.ver = col.ver /\ col'.tgt = t
    BY <1>5, <1>c, <2>1 DEF Reserve, ColState
  <2>3. t <= col.ver + MaxAge
    BY TargetInWindow
  <2> QED
    BY <1>d, <1>e, <2>2, <2>3, ColMovesLabel DEF ColLabel
<1>6. CASE NextPrompt
  <2>1. UNCHANGED worker /\ col'.ver = col.ver /\ col'.tgt = col.tgt /\ Spawning
    BY <1>6, <1>c DEF ColMoves, NextPrompt, ColState, Spawning
  <2> QED
    BY <1>d, <1>e, <2>1, ColMovesLabel DEF ColLabel
<1>7. CASE RefitWait
  <2>1. UNCHANGED worker /\ col'.ver = curVersion /\ col'.tgt = col.tgt /\ Spawning
    BY <1>7, <1>c DEF ColMoves, RefitWait, ColState, Spawning
  <2>2. col'.tgt <= col'.ver + MaxAge
    BY <1>c, <1>d, <2>1, LabelFacts
  <2> QED
    BY <1>c, <1>e, <2>1, <2>2, ColMovesLabel DEF ColLabel
<1>8. CASE AcquirePermit
  <2>1. PICK w \in Slots :
          /\ worker' = [worker EXCEPT ![w] = [pc |-> "new", ver |-> col.ver,
                                              tgt |-> col.tgt, idx |-> col.idx]]
          /\ col' = [col EXCEPT !.pc = "add", !.slot = w]
    BY <1>8 DEF AcquirePermit
  <2>2. Spawning /\ col'.ver = col.ver /\ col'.tgt = col.tgt
    BY <1>8, <1>c, <2>1 DEF AcquirePermit, ColState, Spawning
  <2>3. ColLabel'
    BY <1>d, <1>e, <2>2 DEF ColLabel
  <2>4. worker'[w].ver = col.ver /\ worker'[w].tgt = col.tgt
        /\ \A v \in Slots \ {w} : worker'[v] = worker[v]
    BY <1>c, <2>1
  <2>5. \A v \in Slots : WorkerLabel(v)' \/ worker'[v] = worker[v]
    BY <1>d, <1>e, <2>2, <2>4 DEF WorkerLabel
  <2> QED
    BY <1>c, <1>e, <2>3, <2>5, LabelsKept
<1>9. CASE AddThread
  <2>1. UNCHANGED worker /\ col'.ver = col.ver /\ col'.tgt = col.tgt /\ Spawning
    BY <1>9, <1>c DEF AddThread, ColState, Spawning
  <2> QED
    BY <1>d, <1>e, <2>1, ColMovesLabel DEF ColLabel
<1>10. CASE StartThread
  <2>1. col'.ver = col.ver /\ col'.tgt = col.tgt /\ Spawning
    BY <1>10, <1>c DEF StartThread, ColState, Spawning
  <2>2. ColLabel'
    BY <1>d, <1>e, <2>1 DEF ColLabel
  <2>3. col.slot \in Slots /\ worker[col.slot].pc = "new"
    BY <1>10 DEF StartThread, LabelInv, TypeInv, SpawnLocals
  <2>4. WorkerMoves(col.slot, "rollout") /\ Carries(col.slot)
    BY <1>10, <2>3 DEF StartThread, WorkerMoves, Carries
  <2>5. \A v \in Slots : WorkerLabel(v)' \/ worker'[v] = worker[v]
    BY <1>e, <2>3, <2>4, WorkerMovesLabel
  <2> QED
    BY <1>c, <1>e, <2>2, <2>5, LabelsKept
<1> QED
  BY <1>1, <1>2, <1>3, <1>4, <1>5, <1>6, <1>7, <1>8, <1>9, <1>10
  DEF CollectionThread

-----------------------------------------------------------------------------
(* The actor's calls and the trainer, and the theorems.                    *)

\* StartCollection moves the collection thread; no other call touches labels.
LEMMA ActorLabels ==
  ASSUME LabelInv, ActorThread, UNCHANGED trainerVars,
         curVersion <= curVersion', curVersion' \in Nat
  PROVE  LabelsKnown' /\ AgeWindow'
<1>c. col \in ColState /\ col.ver <= curVersion /\ curVersion \in Nat
      /\ col.ver \in Nat
  BY LabelFacts DEF LabelInv, TypeInv, TypeOK, CollectorTypeOK, ColLabel
<1>1. UNCHANGED <<groups, batch, worker>>
  BY DEF trainerVars, bufferVars, threadVars, ActorThread, StartCollection,
     SetWeightVersion, ClearLimitPause, Pause, Resume, PrepareForRefit,
     WaitForPending, ResumeAfterRefit, GetDataloaderState
<1>2. ColLabel' \/ UNCHANGED col
  <2>1. CASE StartCollection
    <3>1. col'.ver = col.ver /\ ~Spawning'
      BY <2>1, <1>c DEF StartCollection, ColState, Spawning
    <3> QED
      BY <1>c, <3>1 DEF ColLabel
  <2>2. CASE ~StartCollection
    BY <2>2 DEF ActorThread, threadVars, SetWeightVersion, ClearLimitPause, Pause,
       Resume, PrepareForRefit, WaitForPending, ResumeAfterRefit,
       GetDataloaderState
  <2> QED
    BY <2>1, <2>2
<1> QED
  BY <1>1, <1>2, LabelsKept

\* The trainer moves groups from the buffer to its batch and drops the batch.
LEMMA TrainerLabels ==
  ASSUME LabelInv, Trainer, curVersion <= curVersion', curVersion' \in Nat
  PROVE  LabelsKnown' /\ AgeWindow'
<1>1. UNCHANGED <<col, worker>>
  BY DEF Trainer, Boot, InitialRefit, TrainerRaises, InitialValidation,
     InitialValidationDone, BufferReady, Sample, SampleFails, Train,
     ReadyForRefit, Refit, Validation, ValidationDone, Save, SkipSave, SaveDone,
     PauseFor, ResumeAfter, QuietCollector, Submit, threadVars
<1>2. groups' \cup batch' \subseteq groups \cup batch
  <2>1. CASE Sample
    <3>1. PICK sel : SampleReturns(NumPrompts, version, MaxAge, sel) /\ batch' = sel
      BY <2>1 DEF Sample
    <3>2. sel \subseteq groups /\ groups' = groups \ sel
      BY <3>1 DEF SampleReturns, Oldest, Intended
    <3> QED
      BY <3>1, <3>2
  <2>2. CASE \E early \in BOOLEAN : SkipSave(early)
    BY <2>2 DEF SkipSave, EndStep, bufferVars
  <2>3. CASE SaveDone
    BY <2>3 DEF SaveDone, EndStep, bufferVars
  <2>4. CASE \/ Boot \/ InitialRefit \/ TrainerRaises \/ InitialValidation
             \/ InitialValidationDone \/ BufferReady \/ SampleFails \/ Train
             \/ ReadyForRefit \/ Refit \/ Validation \/ ValidationDone
             \/ \E early \in BOOLEAN : Save(early)
    BY <2>4 DEF bufferVars, Boot, InitialRefit, TrainerRaises, InitialValidation,
       InitialValidationDone, BufferReady, SampleFails, Train, ReadyForRefit,
       Refit, Validation, ValidationDone, Save, PauseFor, ResumeAfter
  <2> QED
    BY <2>1, <2>2, <2>3, <2>4 DEF Trainer
<1> QED
  BY <1>1, <1>2, LabelsKept

\* At the start nothing is labelled.
LEMMA LabelInit == Init => LabelInv
<1> SUFFICES ASSUME Init PROVE LabelInv
  OBVIOUS
<1>1. TypeInv
  BY TypeInit DEF TypeInv
<1>2. StartStep \in Nat /\ MaxAge \in Nat
  BY Constants
<1>3. UpdatesInOrder
  BY <1>2 DEF Init, CollectorInit, TrainerInit, UpdatesInOrder
<1>4. LabelsKnown /\ AgeWindow
  BY <1>2 DEF Init, BufferInit, CollectorInit, TrainerInit, IdleWorker,
     LabelsKnown, AgeWindow, Carries, Spawning
<1> QED
  BY <1>1, <1>3, <1>4 DEF LabelInv

\* No step leaves a label that is not known, or out of the window.
LEMMA LabelNext == LabelInv /\ [Next]_vars => LabelInv'
<1> SUFFICES ASSUME LabelInv, [Next]_vars PROVE LabelInv'
  OBVIOUS
<1>1. TypeInv'
  BY TypeNext DEF LabelInv, TypeInv
<1>2. UpdatesInOrder' /\ curVersion <= curVersion'
  BY UpdatesNext DEF LabelInv
<1>3. curVersion' \in Nat
  BY <1>1 DEF TypeInv, TypeOK, CollectorTypeOK
<1>4. CASE CollectorStep
  <2>1. LabelsKnown' /\ AgeWindow'
    BY <1>2, <1>3, <1>4, CollectionLabels, WorkerLabels, ActorLabels
    DEF CollectorStep
  <2> QED
    BY <1>1, <1>2, <2>1 DEF LabelInv
<1>5. CASE Trainer
  BY <1>1, <1>2, <1>3, <1>5, TrainerLabels DEF LabelInv
<1>6. CASE UNCHANGED vars
  <2>1. UNCHANGED <<groups, batch, col, worker>>
    BY <1>6 DEF vars, bufferVars, collectorVars, threadVars, trainerVars
  <2>2. LabelsKnown' /\ AgeWindow'
    BY <1>2, <1>3, <2>1, LabelsKept
  <2> QED
    BY <1>1, <1>2, <2>2 DEF LabelInv
<1> QED
  BY <1>1, <1>2, <1>4, <1>5, <1>6 DEF Next, LabelInv

\* Whatever the order of refits, weight updates and spawning, for any number of
\* prompts, workers, steps and failures: the label of a group that is spawned,
\* generated, buffered or trained on is at most max_trajectory_age_steps behind
\* the step the group is for.
THEOREM LabelsStayInWindow == Spec => []AgeWindow
<1>1. LabelInv => AgeWindow
  BY DEF LabelInv
<1> QED
  BY LabelInit, LabelNext, <1>1, PTL DEF Spec

\* After the first refit a group never carries the version of weights that the
\* engine has not been given.
THEOREM LabelsNeverAhead == Spec => []LabelNotAhead
<1>1. ASSUME LabelInv PROVE LabelNotAhead
  <2>1. /\ \A g \in groups \cup batch : g.ver \in Nat /\ g.ver <= curVersion
        /\ \A w \in Slots : worker[w].ver \in Nat /\ worker[w].ver <= curVersion
    BY <1>1, LabelFacts DEF GroupLabel, WorkerLabel
  <2>2. /\ curVersion \in Nat /\ version \in Nat /\ curVersion <= version
        /\ engine \in {DummyWeights, version}
    BY <1>1 DEF LabelInv, UpdatesInOrder, TypeInv, TypeOK, CollectorTypeOK,
       TrainerTypeOK
  <2> QED
    BY <2>1, <2>2 DEF LabelNotAhead
<1> QED
  BY LabelInit, LabelNext, <1>1, PTL DEF Spec

-----------------------------------------------------------------------------
(***************************************************************************)
(* Proofs about what the collector's threads owe each other: the permits   *)
(* of the semaphore and the reservations of targets.                       *)
(*                                                                         *)
(* The argument: a record leaves "idle" only with a permit and returns to  *)
(* it only with giving one back (PermitsBalanced is inductive with the     *)
(* types).  A reservation is the collection thread's until the first       *)
(* worker of its batch is started, and from then on a worker's that still  *)
(* has to release it (ReservationHeld); the thread that would forget its   *)
(* locals, when collection starts, finds nothing reserved (StartedOnce).   *)
(***************************************************************************)

Live == {w \in Slots : worker[w].pc # "idle"}

-----------------------------------------------------------------------------
(* Permits.                                                                *)

\* Threads are finitely many.
LEMMA LiveFinite == IsFiniteSet(Live) /\ IsFiniteSet(Live')
<1>1. Live \in SUBSET Slots /\ Live' \in SUBSET Slots
  BY DEF Live
<1> QED
  BY <1>1, Constants, FS_Subset

\* Steps that neither take nor give a permit, and neither occupy a record nor
\* free one.
LEMMA PermitsKept ==
  ASSUME PermitsBalanced, permits' = permits, Live' = Live
  PROVE  PermitsBalanced'
<1>1. Cardinality(Live') = Cardinality(Live)
  BY Zenon
<1> QED
  BY <1>1 DEF PermitsBalanced, Live, MaxInflight

\* The collection thread takes a permit for each worker it starts.
LEMMA PermitsCollection ==
  ASSUME TypeInv, PermitsBalanced, CollectionThread
  PROVE  PermitsBalanced'
<1>c. /\ worker \in [Slots -> WorkerState] /\ permits \in Nat
      /\ Cardinality(Live) \in Nat /\ IsFiniteSet(Live)
      /\ permits + Cardinality(Live) = MaxInflight /\ SpawnLocals
  BY LiveFinite, FS_CardinalityType DEF TypeInv, TypeOK, CollectorTypeOK,
     PermitsBalanced, Live
<1>1. CASE AcquirePermit
  <2>1. PICK w \in Slots :
          /\ worker[w].pc = "idle"
          /\ worker' = [worker EXCEPT ![w] = [pc |-> "new", ver |-> col.ver,
                                              tgt |-> col.tgt, idx |-> col.idx]]
    BY <1>1 DEF AcquirePermit
  <2>2. Live' = Live \cup {w} /\ w \notin Live
    BY <1>c, <2>1 DEF Live
  <2>3. Cardinality(Live') = Cardinality(Live) + 1
    BY <1>c, <2>2, FS_AddElement
  <2>4. permits' = permits - 1
    BY <1>1 DEF AcquirePermit
  <2> QED
    BY <1>c, <2>3, <2>4 DEF PermitsBalanced, Live, MaxInflight
<1>2. CASE StartThread
  <2>1. worker[col.slot].pc = "new" /\ col.slot \in Slots
    BY <1>2, <1>c DEF StartThread, SpawnLocals
  <2>2. Live' = Live
    BY <1>2, <1>c, <2>1 DEF StartThread, Live, WorkerState
  <2> QED
    BY <1>2, <2>2, PermitsKept DEF StartThread
<1>3. ASSUME UNCHANGED <<worker, permits>> PROVE PermitsBalanced'
  BY <1>3, PermitsKept DEF Live
<1>4. CASE CollectionThread /\ ~AcquirePermit /\ ~StartThread
  <2>1. UNCHANGED <<worker, permits>>
    BY <1>4 DEF CollectionThread, Fetch, Exhausted, ManualGate, RefitGate,
       LimitReadVersion, LimitReadLast, LimitCheck, LimitWarn, LimitClear,
       LimitWait, ProcessBatch, ReadLastTarget, Reserve, NothingToReserve,
       NextPrompt, RefitWait, AddThread, BatchDone, ColMoves
  <2> QED
    BY <1>3, <2>1
<1> QED
  BY <1>1, <1>2, <1>4

\* A worker gives its permit back once, however it ends.
LEMMA PermitsWorker ==
  ASSUME TypeInv, PermitsBalanced, NEW w \in Slots, WorkerThread(w)
  PROVE  PermitsBalanced'
<1>c. /\ worker \in [Slots -> WorkerState] /\ permits \in Nat
      /\ Cardinality(Live) \in Nat /\ IsFiniteSet(Live)
      /\ permits + Cardinality(Live) = MaxInflight
  BY LiveFinite, FS_CardinalityType DEF TypeInv, TypeOK, CollectorTypeOK,
     PermitsBalanced, Live
<1>1. CASE ReleasePermit(w)
  <2>1. Live' = Live \ {w} /\ w \in Live
    BY <1>1, <1>c DEF ReleasePermit, Live, IdleWorker
  <2>2. Cardinality(Live') = Cardinality(Live) - 1
    BY <1>c, <2>1, FS_RemoveElement
  <2>3. permits' = permits + 1
    BY <1>1 DEF ReleasePermit
  <2> QED
    BY <1>c, <2>2, <2>3 DEF PermitsBalanced, Live, MaxInflight
<1>2. ASSUME NEW pc, WorkerMoves(w, pc), pc # "idle", worker[w].pc # "idle",
             permits' = permits
      PROVE  PermitsBalanced'
  <2>1. Live' = Live
    BY <1>2, <1>c DEF WorkerMoves, Live, WorkerState
  <2> QED
    BY <1>2, <2>1, PermitsKept
<1>3. CASE Rollout(w)
  BY <1>2, <1>3 DEF Rollout
<1>4. CASE RolloutRaises(w)
  BY <1>2, <1>4 DEF RolloutRaises
<1>5. CASE PushLoop(w)
  <2> DEFINE next == IF running THEN "push" ELSE "cleanup"
  <2>1. next # "idle" /\ WorkerMoves(w, next)
    BY <1>5 DEF PushLoop
  <2> HIDE DEF next
  <2> QED
    BY <1>2, <1>5, <2>1 DEF PushLoop
<1>6. CASE PushGroup(w)
  <2> DEFINE next == IF worker[w].idx = 0 THEN "release" ELSE "cleanup"
  <2>1. next # "idle" /\ WorkerMoves(w, next)
    BY <1>6 DEF PushGroup
  <2> HIDE DEF next
  <2> QED
    BY <1>2, <1>6, <2>1 DEF PushGroup
<1>7. CASE PushFull(w)
  BY <1>2, <1>7 DEF PushFull
<1>8. CASE ReleaseReservation(w)
  BY <1>2, <1>8 DEF ReleaseReservation
<1>9. CASE CleanupReservation(w)
  BY <1>2, <1>9 DEF CleanupReservation
<1>10. CASE DetachThread(w)
  BY <1>2, <1>10 DEF DetachThread
<1> QED
  BY <1>1, <1>3, <1>4, <1>5, <1>6, <1>7, <1>8, <1>9, <1>10 DEF WorkerThread

\* The actor thread and the trainer touch neither permits nor workers.
LEMMA OtherThreads ==
  ASSUME ActorThread \/ Trainer
  PROVE  UNCHANGED <<worker, permits>>
<1>1. CASE ActorThread
  BY <1>1 DEF ActorThread, StartCollection, SetWeightVersion, ClearLimitPause,
     Pause, Resume, PrepareForRefit, WaitForPending, ResumeAfterRefit,
     GetDataloaderState, threadVars
<1>2. CASE Trainer
  BY <1>2 DEF Trainer, Boot, InitialRefit, TrainerRaises, InitialValidation,
     InitialValidationDone, BufferReady, Sample, SampleFails, Train,
     ReadyForRefit, Refit, Validation, ValidationDone, Save, SkipSave, SaveDone,
     PauseFor, ResumeAfter, Submit, QuietCollector, threadVars
<1> QED
  BY <1>1, <1>2

\* No step loses or invents a permit.
LEMMA PermitsNext ==
  ASSUME TypeInv, PermitsBalanced, [Next]_vars
  PROVE  PermitsBalanced'
<1>1. CASE CollectorStep
  <2>1. CASE ActorThread
    BY <2>1, OtherThreads, PermitsKept DEF Live
  <2> QED
    BY <1>1, <2>1, PermitsCollection, PermitsWorker DEF CollectorStep
<1>2. CASE Trainer
  BY <1>2, OtherThreads, PermitsKept DEF Live
<1>3. CASE UNCHANGED vars
  BY <1>3, PermitsKept DEF Live, vars, collectorVars, threadVars
<1> QED
  BY <1>1, <1>2, <1>3 DEF Next

\* At the start all permits are free.
LEMMA PermitsInit == Init => PermitsBalanced
<1> SUFFICES ASSUME Init PROVE PermitsBalanced
  OBVIOUS
<1>1. Live = {}
  BY DEF Init, CollectorInit, IdleWorker, Live
<1>2. Cardinality(Live) = 0
  BY <1>1, FS_EmptySet
<1>3. permits = MaxInflight
  BY DEF Init, CollectorInit
<1> QED
  BY <1>2, <1>3, Constants DEF PermitsBalanced, Live

\* The permits of the semaphore and the live workers always add up to the
\* limit, whichever way workers end (_run_prompt_group_worker).
THEOREM PermitsNeverLeak == Spec => []PermitsBalanced
<1>1. TypeInv /\ PermitsBalanced /\ [Next]_vars => TypeInv' /\ PermitsBalanced'
  BY TypeNext, PermitsNext
<1> QED
  BY <1>1, TypeInit, PermitsInit, PTL DEF Spec

-----------------------------------------------------------------------------
(* The start of collection.                                                *)

\* Reservations are made by the collection thread only, and it makes none
\* before it runs.
LEMMA NotStartedKept ==
  ASSUME NotStarted, CollectionThread \/ \E w \in Slots : WorkerThread(w)
  PROVE  NotStarted'
<1>1. ~CollectionThread
  BY DEF NotStarted, CollectionThread, Fetch, Exhausted, ManualGate, RefitGate,
     LimitReadVersion, LimitReadLast, LimitCheck, LimitWarn, LimitClear,
     LimitWait, ProcessBatch, ReadLastTarget, Reserve, NothingToReserve,
     NextPrompt, RefitWait, AcquirePermit, AddThread, StartThread, BatchDone
<1>2. ASSUME NEW w \in Slots, WorkerThread(w) PROVE NotStarted'
  BY <1>2 DEF NotStarted, WorkerThread, Rollout, RolloutRaises, PushLoop,
     PushGroup, PushFull, ReleaseReservation, CleanupReservation, DetachThread,
     ReleasePermit
<1> QED
  BY <1>1, <1>2

\* Calls that do not start collection may be submitted behind the others.
LEMMA SubmitStarts ==
  ASSUME calls \in Seq(Call), StartedOnce, NEW seq \in Seq(Call), Submit(seq),
         \A i \in 1..Len(seq) : seq[i].op # "start", tpc' # "boot"
  PROVE  StartedOnce'
<1>1. /\ Len(calls) \in Nat /\ Len(seq) \in Nat
      /\ Len(calls') = Len(calls) + Len(seq)
      /\ \A i \in 1..Len(calls) + Len(seq) :
           calls'[i] = IF i <= Len(calls) THEN calls[i] ELSE seq[i - Len(calls)]
  BY LenProperties, ConcatProperties DEF Submit
<1>2. UNCHANGED <<col, generating>>
  BY DEF Submit, threadVars
<1>3. ASSUME NEW i \in 1..Len(calls'), calls'[i].op = "start"
      PROVE  i \in 1..Len(calls) /\ calls[i].op = "start"
  <2>1. CASE i <= Len(calls)
    BY <1>1, <1>3, <2>1
  <2>2. CASE i > Len(calls)
    <3>1. i - Len(calls) \in 1..Len(seq) /\ calls'[i] = seq[i - Len(calls)]
      BY <1>1, <2>2
    <3> QED
      BY <1>3, <3>1
  <2> QED
    BY <1>1, <2>1, <2>2
<1> QED
  BY <1>2, <1>3 DEF StartedOnce, NotStarted

\* The first call is executed once: behind it no other starts collection.
LEMMA ReceiveStarts ==
  ASSUME calls \in Seq(Call), StartedOnce, NEW op, Receive(op),
         tpc # "boot", tpc' = tpc
  PROVE  StartedOnce' /\ (op = "start" => NotStarted)
<1>1. /\ Len(calls) \in Nat /\ Len(calls) > 0 /\ Head(calls) = calls[1]
  BY EmptySeq DEF Receive
<1>2. /\ Len(calls') = Len(calls) - 1
      /\ \A i \in 1..Len(calls') : calls'[i] = calls[i + 1]
  BY HeadTailProperties DEF Receive
<1>3. ASSUME NEW i \in 1..Len(calls') PROVE calls'[i].op # "start"
  <2>1. i + 1 \in 1..Len(calls) /\ i + 1 # 1
    BY <1>1, <1>2
  <2> QED
    BY <1>2, <2>1 DEF StartedOnce
<1>4. op = "start" => NotStarted
  BY <1>1 DEF Receive, StartedOnce
<1> QED
  BY <1>3, <1>4 DEF StartedOnce

\* A step after which no call is new, and none of those that start collection
\* has been executed.
LEMMA SameStarts ==
  ASSUME StartedOnce, calls' = calls, tpc' = "boot" => tpc = "boot",
         NotStarted => NotStarted'
  PROVE  StartedOnce'
  BY DEF StartedOnce

\* The training loop starts collection once.
LEMMA StartedTrainer ==
  ASSUME TypeInv, StartedOnce, Trainer
  PROVE  StartedOnce'
<1>c. /\ calls \in Seq(Call) /\ version \in Nat /\ version + 1 \in Nat
  BY DEF TypeInv, TypeOK, CollectorTypeOK, TrainerTypeOK
<1>n. \A op \in Ops : Simple(op) \in Call /\ Simple(op).op = op
  BY DEF Simple, Call
<1>1. CASE Boot
  <2> DEFINE update == [op |-> "setVersion", arg |-> version]
  <2>1. Simple("start") \in Call /\ update \in Call /\ update.op # "start"
    BY <1>c, <1>n DEF Call, Ops
  <2>2. calls = <<>> /\ NotStarted
    BY <1>1 DEF Boot, StartedOnce
  <2>3. calls' = <<>> \o <<Simple("start"), update>> /\ tpc' # "boot"
        /\ UNCHANGED <<col, generating>>
    BY <1>1, <2>2 DEF Boot, Submit, Goto, threadVars
  <2> HIDE DEF update
  <2>4. calls' = <<Simple("start"), update>>
    BY <2>1, <2>3
  <2>5. \A i \in 1..Len(calls') : calls'[i].op = "start" => i = 1
    BY <2>1, <2>4
  <2> QED
    BY <2>2, <2>3, <2>5 DEF StartedOnce, NotStarted
<1>q. ASSUME QuietCollector, tpc # "boot", tpc' # "boot" PROVE StartedOnce'
  BY <1>q, SameStarts DEF QuietCollector, threadVars, NotStarted
<1>s. ASSUME NEW op \in Ops, op # "start", Submit(<<Simple(op)>>), tpc' # "boot"
      PROVE  StartedOnce'
  <2>1. /\ <<Simple(op)>> \in Seq(Call)
        /\ \A i \in 1..Len(<<Simple(op)>>) : <<Simple(op)>>[i].op # "start"
    BY <1>n, <1>s
  <2> QED
    BY <1>c, <1>s, <2>1, SubmitStarts
<1>2. CASE InitialRefit
  BY <1>2, <1>q DEF InitialRefit, Goto
<1>3. CASE TrainerRaises
  BY <1>3, <1>q DEF TrainerRaises, Goto
<1>4. CASE InitialValidation
  BY <1>4, <1>s DEF InitialValidation, PauseFor, Goto, Ops
<1>5. CASE InitialValidationDone
  BY <1>5, <1>s DEF InitialValidationDone, ResumeAfter, Goto, Ops
<1>6. CASE BufferReady
  BY <1>6, <1>q DEF BufferReady, Goto
<1>7. CASE Sample
  BY <1>7, <1>q DEF Sample, Goto
<1>8. CASE SampleFails
  BY <1>8, <1>q DEF SampleFails, Goto
<1>9. CASE Train
  BY <1>9, <1>s DEF Train, Goto, Ops
<1>10. CASE ReadyForRefit
  BY <1>10, <1>q DEF ReadyForRefit, Goto
<1>11. CASE Refit
  <2> DEFINE update == [op |-> "setVersion", arg |-> version + 1]
  <2>1. Simple("resumeRefit") \in Call /\ Simple("resumeRefit").op # "start"
        /\ update \in Call /\ update.op # "start"
    BY <1>c, <1>n DEF Call, Ops
  <2>2. Submit(<<update, Simple("resumeRefit")>>) /\ tpc' # "boot"
    BY <1>11 DEF Refit, Goto
  <2> HIDE DEF update
  <2> DEFINE seq == <<update, Simple("resumeRefit")>>
  <2>3. seq \in Seq(Call) /\ \A i \in 1..Len(seq) : seq[i].op # "start"
    BY <2>1
  <2> QED
    BY <1>c, <2>2, <2>3, SubmitStarts
<1>12. CASE Validation
  BY <1>12, <1>s DEF Validation, PauseFor, Goto, Ops
<1>13. CASE ValidationDone
  BY <1>13, <1>s DEF ValidationDone, ResumeAfter, Goto, Ops
<1>14. ASSUME NEW early \in BOOLEAN, Save(early) PROVE StartedOnce'
  BY <1>14, <1>s DEF Save, Goto, Ops
<1>15. ASSUME NEW early \in BOOLEAN, SkipSave(early) PROVE StartedOnce'
  BY <1>15, <1>q DEF SkipSave, EndStep, Goto
<1>16. CASE SaveDone
  BY <1>16, <1>q DEF SaveDone, EndStep, Goto
<1> QED
  BY <1>1, <1>2, <1>3, <1>4, <1>5, <1>6, <1>7, <1>8, <1>9, <1>10, <1>11, <1>12,
     <1>13, <1>14, <1>15, <1>16 DEF Trainer

\* Every call but the first leaves the collection thread and the reservations
\* alone.
LEMMA StartedActor ==
  ASSUME TypeInv, StartedOnce, ActorThread, UNCHANGED trainerVars
  PROVE  /\ StartedOnce'
         /\ StartCollection => NotStarted
         /\ ~StartCollection => UNCHANGED <<col, generating>>
<1>c. calls \in Seq(Call) /\ tpc' = tpc
  BY DEF TypeInv, TypeOK, CollectorTypeOK, trainerVars
<1>b. calls # <<>> => tpc # "boot"
  BY DEF StartedOnce
<1>r. \A op : Receive(op) => StartedOnce' /\ (op = "start" => NotStarted)
  BY <1>c, <1>b, ReceiveStarts DEF Receive
<1>u. ~StartCollection => UNCHANGED <<col, generating>>
  BY DEF ActorThread, SetWeightVersion, ClearLimitPause, Pause, Resume,
     PrepareForRefit, WaitForPending, ResumeAfterRefit, GetDataloaderState,
     threadVars
<1>s. StartCollection => NotStarted
  BY <1>r DEF StartCollection
<1>1. CASE ClearLimitPause \/ WaitForPending
  <2>1. calls' = calls /\ UNCHANGED <<col, generating>>
    BY <1>1 DEF ClearLimitPause, WaitForPending, threadVars
  <2> QED
    BY <1>c, <1>u, <1>s, <2>1, SameStarts DEF NotStarted
<1>2. CASE ~(ClearLimitPause \/ WaitForPending)
  <2>1. \E op : Receive(op)
    BY <1>2 DEF ActorThread, StartCollection, SetWeightVersion, Pause, Resume,
       PrepareForRefit, ResumeAfterRefit, GetDataloaderState
  <2> QED
    BY <1>r, <1>u, <1>s, <2>1
<1> QED
  BY <1>1, <1>2

\* Nobody else starts it.
LEMMA StartedNext ==
  ASSUME TypeInv, StartedOnce, [Next]_vars
  PROVE  StartedOnce'
<1>1. CASE Trainer
  BY <1>1, StartedTrainer
<1>2. CASE CollectorStep
  <2>1. CASE ActorThread
    BY <1>2, <2>1, StartedActor DEF CollectorStep
  <2>2. CASE CollectionThread \/ \E w \in Slots : WorkerThread(w)
    <3>1. calls' = calls
      BY <2>2 DEF CollectionThread, Fetch, Exhausted, ManualGate, RefitGate,
         LimitReadVersion, LimitReadLast, LimitCheck, LimitWarn, LimitClear,
         LimitWait, ProcessBatch, ReadLastTarget, Reserve, NothingToReserve,
         NextPrompt, RefitWait, AcquirePermit, AddThread, StartThread, BatchDone,
         ColMoves, WorkerThread, Rollout, RolloutRaises, PushLoop, PushGroup,
         PushFull, ReleaseReservation, CleanupReservation, DetachThread,
         ReleasePermit, actorVars
    <3>2. tpc' = tpc
      BY <1>2 DEF CollectorStep, trainerVars
    <3>3. NotStarted => NotStarted'
      BY <2>2, NotStartedKept
    <3> QED
      BY <3>1, <3>2, <3>3, SameStarts
  <2> QED
    BY <1>2, <2>1, <2>2 DEF CollectorStep
<1>3. CASE UNCHANGED vars
  BY <1>3, SameStarts DEF vars, collectorVars, trainerVars, threadVars, actorVars,
     NotStarted
<1> QED
  BY <1>1, <1>2, <1>3 DEF Next

-----------------------------------------------------------------------------
(* Reservations.                                                           *)

\* The threads other than the one that reserves, and than the worker that
\* gives back, leave the owners of reservations alone.
LEMMA HeldKept ==
  ASSUME ReservationHeld, UNCHANGED <<worker, generating>>,
         col'.tgt = col.tgt, col'.idx = col.idx, Spawning => Spawning',
         col'.pc \in {"add", "start"} =>
           col.pc \in {"add", "start"} /\ col'.slot = col.slot
  PROVE  ReservationHeld'
  BY DEF ReservationHeld, Releases, Carries

\* Past the first prompt all owners are workers, and the thread may drop its
\* locals.
LEMMA HeldByWorkers ==
  ASSUME ReservationHeld, UNCHANGED <<worker, generating>>,
         ~(Spawning /\ col.idx = 0), col'.pc \notin {"add", "start"}
  PROVE  ReservationHeld'
  BY DEF ReservationHeld, Releases, Carries

\* The collection thread releases a target only when it spawns nothing for it.
LEMMA HeldCollection ==
  ASSUME TypeInv, ReservationHeld, CollectionThread
  PROVE  ReservationHeld'
<1>c. /\ worker \in [Slots -> WorkerState] /\ col \in ColState /\ SpawnLocals
      /\ NumPrompts \in Nat /\ NumPrompts > 0
  BY Constants DEF TypeInv, TypeOK, CollectorTypeOK
<1>1. CASE Fetch \/ Exhausted \/ LimitClear
  <2>1. /\ col'.pc \notin {"add", "start"} /\ UNCHANGED <<worker, generating>>
        /\ ~Spawning
    BY <1>1, <1>c DEF Fetch, Exhausted, LimitClear, ColState, Spawning
  <2> QED
    BY <2>1, HeldByWorkers
<1>2. CASE ManualGate \/ RefitGate \/ LimitReadVersion \/ LimitReadLast
           \/ LimitCheck \/ LimitWarn \/ LimitWait \/ ProcessBatch
           \/ ReadLastTarget \/ NothingToReserve
  <2>1. ~Spawning /\ UNCHANGED <<worker, generating>>
    BY <1>2 DEF ManualGate, RefitGate, LimitReadVersion, LimitReadLast,
       LimitCheck, LimitWarn, LimitWait, ProcessBatch, ReadLastTarget,
       NothingToReserve, Spawning, ColMoves
  <2>2. CASE LimitCheck
    <3> DEFINE next == IF FreeTargets(col.ver, col.last) # {} THEN "proc" ELSE "warn"
    <3>1. col'.pc = next
      BY <1>c, <2>2 DEF LimitCheck, ColMoves, ColState
    <3> QED
      BY <2>1, <3>1, HeldByWorkers
  <2>3. CASE LimitWarn
    <3> DEFINE next == IF warnedVersion # curVersion THEN "clear" ELSE "wait"
    <3>1. col'.pc = next
      BY <1>c, <2>3 DEF LimitWarn, ColMoves, ColState
    <3> QED
      BY <2>1, <3>1, HeldByWorkers
  <2>4. CASE NothingToReserve
    <3>1. col'.pc = "fetch"
      BY <2>4 DEF NothingToReserve, ColMoves, NextBatch
    <3> QED
      BY <2>1, <3>1, HeldByWorkers
  <2>5. CASE \/ ManualGate \/ RefitGate \/ LimitReadVersion \/ LimitReadLast
             \/ LimitWait \/ ProcessBatch \/ ReadLastTarget
    <3>1. col'.pc \in {"refit", "limit", "limitRead", "limitCheck", "proc", "read",
                      "reserve"}
      BY <1>c, <2>5 DEF ManualGate, RefitGate, LimitReadVersion, LimitReadLast,
         LimitWait, ProcessBatch, ReadLastTarget, ColMoves, ColState
    <3> QED
      BY <2>1, <3>1, HeldByWorkers
  <2> QED
    BY <1>2, <2>2, <2>3, <2>4, <2>5
<1>3. CASE Reserve
  <2>1. PICK t \in FreeTargets(col.ver, col.last) :
          /\ generating' = generating \cup {t}
          /\ col' = [col EXCEPT !.pc = "prompt", !.last = NoTarget, !.tgt = t,
                                !.idx = 0]
    BY <1>3 DEF Reserve
  <2>2. col'.pc = "prompt" /\ col'.tgt = t /\ col'.idx = 0 /\ worker' = worker
    BY <1>3, <2>1, <1>c DEF Reserve, ColState
  <2>3. \A u \in generating : \E w \in Slots : worker[w].tgt = u /\ Releases(w)
    BY <1>3 DEF Reserve, ReservationHeld, Spawning
  <2>4. Spawning'
    BY <2>2 DEF Spawning
  <2> QED
    BY <2>1, <2>2, <2>3, <2>4 DEF ReservationHeld, Releases, Carries
<1>4. CASE NextPrompt
  <2> DEFINE next == IF refitCleared THEN "acquire" ELSE "rewait"
  <2>1. /\ col'.pc = next /\ col'.tgt = col.tgt /\ col'.idx = col.idx
        /\ UNCHANGED <<worker, generating>>
    BY <1>4, <1>c DEF NextPrompt, ColMoves, ColState
  <2>2. Spawning'
    BY <2>1 DEF Spawning
  <2> QED
    BY <2>1, <2>2, HeldKept
<1>5. CASE RefitWait
  <2>1. /\ col'.pc = "acquire" /\ col'.tgt = col.tgt /\ col'.idx = col.idx
        /\ UNCHANGED <<worker, generating>>
    BY <1>5, <1>c DEF RefitWait, ColMoves, ColState
  <2>2. Spawning'
    BY <2>1 DEF Spawning
  <2> QED
    BY <2>1, <2>2, HeldKept
<1>6. CASE AcquirePermit
  <2>1. PICK w \in Slots :
          /\ worker[w].pc = "idle"
          /\ worker' = [worker EXCEPT ![w] = [pc |-> "new", ver |-> col.ver,
                                              tgt |-> col.tgt, idx |-> col.idx]]
          /\ col' = [col EXCEPT !.pc = "add", !.slot = w]
    BY <1>6 DEF AcquirePermit
  <2>2. /\ col'.pc = "add" /\ col'.slot = w /\ col'.tgt = col.tgt
        /\ col'.idx = col.idx /\ generating' = generating
    BY <1>6, <2>1, <1>c DEF AcquirePermit, ColState
  <2>3. worker'[w].tgt = col.tgt /\ \A v \in Slots : v # w => worker'[v] = worker[v]
    BY <2>1, <1>c
  <2>4. ~Releases(w)
    BY <2>1 DEF Releases, Carries
  <2>5. ASSUME NEW t \in generating, NEW v \in Slots, worker[v].tgt = t, Releases(v)
        PROVE  worker'[v].tgt = t /\ Releases(v)'
    <3>1. v # w
      BY <2>4, <2>5
    <3> QED
      BY <2>3, <2>5, <3>1 DEF Releases, Carries
  <2>6. Spawning /\ Spawning'
    BY <1>6, <2>2 DEF AcquirePermit, Spawning
  <2> QED
    BY <2>2, <2>3, <2>5, <2>6 DEF ReservationHeld
<1>7. CASE AddThread
  <2>1. /\ col'.pc = "start" /\ col.pc = "add" /\ col'.tgt = col.tgt
        /\ col'.idx = col.idx
        /\ col'.slot = col.slot /\ UNCHANGED <<worker, generating>>
    BY <1>7, <1>c DEF AddThread, ColState
  <2>2. Spawning'
    BY <2>1 DEF Spawning
  <2> QED
    BY <2>1, <2>2, HeldKept
<1>8. CASE StartThread
  <2>1. /\ col.slot \in Slots /\ worker[col.slot].tgt = col.tgt
        /\ worker[col.slot].pc = "new"
    BY <1>8, <1>c DEF StartThread, SpawnLocals, ReservationHeld
  <2>2. /\ worker'[col.slot].pc = "rollout" /\ worker'[col.slot].tgt = col.tgt
        /\ \A v \in Slots : v # col.slot => worker'[v] = worker[v]
        /\ generating' = generating /\ col'.pc = "prompt"
    BY <1>8, <2>1, <1>c DEF StartThread, WorkerState, ColState
  <2>3. ASSUME NEW v \in Slots, Releases(v)
        PROVE  worker'[v].tgt = worker[v].tgt /\ Releases(v)'
    BY <2>1, <2>2, <2>3 DEF Releases, Carries
  <2>4. ASSUME NEW t \in generating
        PROVE  \E w \in Slots : worker'[w].tgt = t /\ Releases(w)'
    <3>1. CASE col.tgt = t
      <4>1. \E w \in Slots : w = col.slot /\ worker'[w].tgt = t /\ Releases(w)'
        BY <2>1, <2>2, <3>1 DEF Releases, Carries
      <4> QED
        BY <4>1
    <3>2. CASE col.tgt # t
      BY <2>3, <2>4, <3>2 DEF ReservationHeld
    <3> QED
      BY <3>1, <3>2
  <2> QED
    BY <2>2, <2>4 DEF ReservationHeld
<1>9. CASE BatchDone
  <2>1. /\ col'.pc = "fetch" /\ col.idx # 0 /\ UNCHANGED <<worker, generating>>
    BY <1>9, <1>c DEF BatchDone, NextBatch
  <2> QED
    BY <2>1, HeldByWorkers
<1> QED
  BY <1>1, <1>2, <1>3, <1>4, <1>5, <1>6, <1>7, <1>8, <1>9 DEF CollectionThread

\* A worker releases its target only as the last one that carries it.
LEMMA HeldWorker ==
  ASSUME TypeInv, ReservationHeld, NEW w \in Slots, WorkerThread(w)
  PROVE  ReservationHeld'
<1>c. worker \in [Slots -> WorkerState] /\ SpawnLocals
  BY DEF TypeInv, TypeOK, CollectorTypeOK
<1>w. \A v \in Slots : /\ worker'[v].tgt = worker[v].tgt
                       /\ v # w => worker'[v] = worker[v]
      \/ ReleasePermit(w)
  BY <1>c DEF WorkerThread, Rollout, RolloutRaises, PushLoop, PushGroup, PushFull,
     ReleaseReservation, CleanupReservation, DetachThread, WorkerMoves, WorkerState
<1>n. /\ worker[w].pc # "new" /\ col' = col
  BY DEF WorkerThread, Rollout, RolloutRaises, PushLoop, PushGroup, PushFull,
     ReleaseReservation, CleanupReservation, DetachThread, ReleasePermit
<1>1. CASE ReleasePermit(w)
  <2>1. /\ \A v \in Slots : v # w => worker'[v] = worker[v]
        /\ ~Releases(w) /\ generating' = generating
    BY <1>1, <1>c DEF ReleasePermit, Releases, Carries
  <2>2. col.pc \in {"add", "start"} => col.slot \in Slots /\ col.slot # w
    BY <1>c, <1>n DEF SpawnLocals
  <2>3. ASSUME NEW v \in Slots, Releases(v)
        PROVE  worker'[v].tgt = worker[v].tgt /\ Releases(v)'
    BY <2>1, <2>3 DEF Releases, Carries
  <2>4. Spawning' <=> Spawning
    BY <1>n DEF Spawning
  <2> QED
    BY <1>n, <2>1, <2>2, <2>3, <2>4 DEF ReservationHeld
<1>2. ASSUME ~ReleasePermit(w), generating' \subseteq generating,
             \/ Releases(w) => Releases(w)'
             \/ worker[w].tgt \notin generating'
      PROVE  ReservationHeld'
  <2>1. ASSUME NEW v \in Slots, v # w, Releases(v) PROVE Releases(v)'
    BY <1>2, <1>w, <2>1 DEF Releases, Carries
  <2>2. Spawning' <=> Spawning
    BY <1>n DEF Spawning
  <2>3. ASSUME NEW t \in generating', NEW v \in Slots, worker[v].tgt = t, Releases(v)
        PROVE  worker'[v].tgt = t /\ Releases(v)'
    BY <1>2, <1>w, <2>1, <2>3
  <2>4. col.pc \in {"add", "start"} => col.slot \in Slots
    BY <1>c DEF SpawnLocals
  <2> QED
    BY <1>2, <1>w, <1>n, <2>2, <2>3, <2>4 DEF ReservationHeld
<1>3. CASE ~ReleasePermit(w)
  <2>1. generating' \subseteq generating
    BY <1>3 DEF WorkerThread, Rollout, RolloutRaises, PushLoop, PushGroup,
       PushFull, ReleaseReservation, CleanupReservation, DetachThread
  <2>2. CASE CleanupReservation(w) \/ ReleaseReservation(w)
    BY <1>2, <1>3, <2>1, <2>2 DEF CleanupReservation, ReleaseReservation
  <2>3. CASE DetachThread(w)
    BY <1>2, <1>3, <2>1, <2>3 DEF DetachThread, Releases, Carries
  <2>4. CASE ~(CleanupReservation(w) \/ ReleaseReservation(w) \/ DetachThread(w))
    <3>1. worker'[w].pc \in {"loop", "push", "release", "cleanup"}
      BY <1>3, <1>c, <2>4 DEF WorkerThread, Rollout, RolloutRaises, PushLoop,
         PushGroup, PushFull, WorkerMoves, WorkerState
    <3>2. Releases(w)'
      BY <3>1 DEF Releases, Carries
    <3> QED
      BY <1>2, <1>3, <2>1, <3>2
  <2> QED
    BY <2>2, <2>3, <2>4
<1> QED
  BY <1>1, <1>3

\* A target stays reserved while anybody works for it.
LEMMA HeldNext ==
  ASSUME ReservationInv, [Next]_vars
  PROVE  ReservationHeld'
<1>c. /\ TypeInv /\ StartedOnce /\ ReservationHeld
      /\ col \in ColState
  BY DEF ReservationInv, TypeInv, TypeOK, CollectorTypeOK
<1>u. ASSUME UNCHANGED <<worker, col, generating>> PROVE ReservationHeld'
  BY <1>c, <1>u, HeldKept DEF Spawning
<1>1. CASE Trainer
  <2>1. UNCHANGED <<worker, col, generating>>
    BY <1>1 DEF Trainer, Boot, InitialRefit, TrainerRaises, InitialValidation,
       InitialValidationDone, BufferReady, Sample, SampleFails, Train,
       ReadyForRefit, Refit, Validation, ValidationDone, Save, SkipSave, SaveDone,
       PauseFor, ResumeAfter, Submit, QuietCollector, threadVars
  <2> QED
    BY <1>u, <2>1
<1>2. CASE CollectorStep
  <2>1. CASE ActorThread
    <3>1. CASE StartCollection
      <4>1. NotStarted
        BY <1>c, <1>2, <2>1, <3>1, StartedActor DEF CollectorStep
      <4>2. col'.pc = "fetch" /\ generating' = generating
        BY <1>c, <3>1 DEF StartCollection, ColState
      <4> QED
        BY <4>1, <4>2 DEF NotStarted, ReservationHeld
    <3>2. CASE ~StartCollection
      BY <1>c, <1>2, <1>u, <2>1, <3>2, StartedActor, OtherThreads
      DEF CollectorStep
    <3> QED
      BY <3>1, <3>2
  <2> QED
    BY <1>c, <1>2, <2>1, HeldCollection, HeldWorker DEF CollectorStep
<1>3. CASE UNCHANGED vars
  BY <1>3, <1>u DEF vars, collectorVars, threadVars
<1> QED
  BY <1>1, <1>2, <1>3 DEF Next

\* At the start nobody does.
LEMMA ReservationInit == Init => ReservationInv
<1> SUFFICES ASSUME Init PROVE ReservationInv
  OBVIOUS
<1>1. StartedOnce
  BY DEF Init, CollectorInit, TrainerInit, StartedOnce, NotStarted
<1>2. ReservationHeld
  BY DEF Init, CollectorInit, ReservationHeld
<1> QED
  BY <1>1, <1>2, TypeInit DEF ReservationInv

\* A reserved target always has a thread that will release it, also when
\* rollouts raise and collection stops (_process_batch,
\* _run_prompt_group_worker).
THEOREM ReservationsAreOwned == Spec => []ReservationOwned
<1>1. ReservationInv /\ [Next]_vars => ReservationInv'
  BY TypeNext, StartedNext, HeldNext DEF ReservationInv
<1>2. ReservationInv => ReservationOwned
  BY DEF ReservationInv, ReservationHeld, ReservationOwned, Releases
<1> QED
  BY <1>1, <1>2, ReservationInit, PTL DEF Spec

-----------------------------------------------------------------------------
(***************************************************************************)
(* The proof that asynchronous GRPO implements StepwiseTraining: whatever  *)
(* the threads do, a training step consumes exactly NumPrompts groups that *)
(* no other step has consumed, all of them in the age window, and publishes *)
(* exactly one weight version.                                             *)
(*                                                                         *)
(* The argument: arrival numbers tell groups apart (NumbersKnown), so what *)
(* a sample takes out of the buffer is exactly what becomes used, and a    *)
(* push changes nothing there; and the trainer's place tells how its       *)
(* version and its step relate (StepInPhase).                              *)
(***************************************************************************)

NumbersOf(S) == {g.no : g \in S}
Used == (1 .. arrivals) \ NumbersOf(groups)

StepwiseInv == TypeInv /\ NumbersKnown /\ StepInPhase

-----------------------------------------------------------------------------
(* The numbers of groups.                                                  *)

\* Groups that differ in their numbers are as many as their numbers.
LEMMA NumbersCount ==
  ASSUME NEW S, IsFiniteSet(S), \A g, h \in S : g.no = h.no => g = h
  PROVE  Cardinality(NumbersOf(S)) = Cardinality(S)
<1> DEFINE f == [g \in S |-> g.no]
<1>1. f \in [S -> NumbersOf(S)]
  BY DEF NumbersOf
<1>2. f \in Injection(S, NumbersOf(S))
  BY <1>1 DEF Injection, IsInjective
<1>3. f \in Surjection(S, NumbersOf(S))
  BY <1>1 DEF Surjection, NumbersOf
<1>4. ExistsBijection(S, NumbersOf(S))
  BY <1>2, <1>3 DEF ExistsBijection, Bijection
<1> QED
  BY <1>4, FS_Bijection

\* A push adds a group with a number of its own, and uses nothing up.
LEMMA PushNumbers ==
  ASSUME BufferTypeOK, NumbersKnown, NEW v \in Nat, NEW t \in Nat, Push(v, t)
  PROVE  NumbersKnown' /\ Used' = Used
<1> DEFINE new == [no |-> arrivals + 1, ver |-> v, tgt |-> t]
<1>1. /\ arrivals \in Nat /\ arrivals' = arrivals + 1
      /\ groups' = groups \cup {new} /\ new.no = arrivals + 1
  BY DEF BufferTypeOK, Push
<1>2. \A g \in groups : g.no \in 1..arrivals /\ g.no # new.no
  BY <1>1 DEF NumbersKnown
<1> HIDE DEF new
<1>3. NumbersKnown'
  BY <1>1, <1>2 DEF NumbersKnown
<1>4. NumbersOf(groups') = NumbersOf(groups) \cup {arrivals + 1}
  BY <1>1 DEF NumbersOf
<1>5. 1..arrivals' = (1..arrivals) \cup {arrivals + 1}
  BY <1>1
<1>6. arrivals + 1 \notin 1..arrivals
  BY <1>1
<1>7. Used' = ((1..arrivals) \cup {arrivals + 1})
                \ (NumbersOf(groups) \cup {arrivals + 1})
  BY <1>4, <1>5 DEF Used
<1> QED
  BY <1>3, <1>6, <1>7 DEF Used

\* A sample hands out as many groups as were asked for, unused until then, and
\* uses up exactly those.
LEMMA SampleNumbers ==
  ASSUME BufferTypeOK, NumbersKnown, NEW n, NEW cur, NEW age, NEW sel,
         SampleReturns(n, cur, age, sel)
  PROVE  /\ NumbersKnown'
         /\ Used' = Used \cup NumbersOf(sel)
         /\ Used \cap NumbersOf(sel) = {}
         /\ Cardinality(sel) = n
         /\ Cardinality(NumbersOf(sel)) = n
<1>1. /\ sel \subseteq groups /\ Cardinality(sel) = n
      /\ groups' = groups \ sel /\ arrivals' = arrivals
  BY DEF SampleReturns, Oldest, Intended
<1>2. NumbersKnown'
  BY <1>1 DEF NumbersKnown
<1>3. IsFiniteSet(sel)
  BY <1>1, FS_Subset DEF BufferTypeOK
<1>4. \A g, h \in groups : g.no = h.no => g = h
  BY DEF NumbersKnown
<1>5. Cardinality(NumbersOf(sel)) = n
  BY <1>1, <1>3, <1>4, NumbersCount
<1>6. NumbersOf(groups') = NumbersOf(groups) \ NumbersOf(sel)
  BY <1>1, <1>4 DEF NumbersOf
<1>7. NumbersOf(sel) \subseteq NumbersOf(groups)
  BY <1>1 DEF NumbersOf
<1>8. NumbersOf(groups) \subseteq 1..arrivals
  BY DEF NumbersOf, NumbersKnown
<1>9. Used' = (1..arrivals) \ (NumbersOf(groups) \ NumbersOf(sel))
  BY <1>1, <1>6 DEF Used
<1> QED
  BY <1>1, <1>2, <1>5, <1>7, <1>8, <1>9 DEF Used

\* What a sample returns is in the age window.
LEMMA SampleWindow ==
  ASSUME BufferTypeOK, NEW n, NEW cur \in Nat, NEW age \in Nat, NEW sel,
         SampleReturns(n, cur, age, sel)
  PROVE  \A g \in sel : cur - age <= g.ver /\ g.ver <= cur
<1> SUFFICES ASSUME NEW g \in sel PROVE cur - age <= g.ver /\ g.ver <= cur
  OBVIOUS
<1>1. /\ g \in groups /\ MinValidVersion(cur, age) <= g.ver /\ g.ver <= cur
  BY DEF SampleReturns, Oldest, Intended
<1>2. g.ver \in Nat
  BY <1>1 DEF BufferTypeOK, Group
<1> QED
  BY <1>1, <1>2 DEF MinValidVersion

-----------------------------------------------------------------------------
(* The steps.                                                              *)

\* The state StepwiseTraining speaks of.
SameView == UNCHANGED <<Phase, step, version, batch, Used>>

\* What the abstract specification sees is made of what SameView says is
\* unchanged.
LEMMA ViewIsVars == SameView => UNCHANGED Stepwise!vars
  BY DEF SameView, Used, NumbersOf, Stepwise!vars

\* Both modules count with the operator of FiniteSets.
LEMMA SameCardinality ==
  ASSUME NEW S PROVE Stepwise!Cardinality(S) = Cardinality(S)
  BY DEF Stepwise!Cardinality, Cardinality

\* The collector never moves what the abstract specification sees.
LEMMA StepwiseCollector ==
  ASSUME StepwiseInv, CollectorStep
  PROVE  NumbersKnown' /\ StepInPhase' /\ SameView
<1>c. /\ BufferTypeOK /\ worker \in [Slots -> WorkerState] /\ NumbersKnown
      /\ StepInPhase
  BY DEF StepwiseInv, TypeInv, TypeOK, CollectorTypeOK
<1>1. UNCHANGED <<tpc, step, version, batch>>
  BY DEF CollectorStep, trainerVars
<1>2. StepInPhase' /\ UNCHANGED <<Phase, step, version, batch>>
  BY <1>c, <1>1 DEF StepInPhase, Phase, LastStep
<1>3. NumbersKnown' /\ Used' = Used
  <2>1. CASE \E w \in Slots : PushGroup(w)
    <3>1. PICK w \in Slots : PushGroup(w)
      BY <2>1
    <3>2. worker[w].ver \in Nat /\ worker[w].tgt \in Nat
      BY <1>c DEF WorkerState
    <3> QED
      BY <1>c, <3>1, <3>2, PushNumbers DEF PushGroup
  <2>2. CASE ~ \E w \in Slots : PushGroup(w)
    <3>1. ASSUME NEW w \in Slots, WorkerThread(w) PROVE UNCHANGED bufferVars
      BY <2>2, <3>1 DEF WorkerThread, Rollout, RolloutRaises, PushLoop, PushFull,
         ReleaseReservation, CleanupReservation, DetachThread, ReleasePermit
    <3>2. UNCHANGED bufferVars => NumbersKnown' /\ Used' = Used
      BY <1>c DEF NumbersKnown, Used, NumbersOf, bufferVars
    <3>3. (CollectionThread \/ ActorThread) => UNCHANGED bufferVars
      BY DEF CollectionThread, Fetch, Exhausted, ManualGate, RefitGate,
         LimitReadVersion, LimitReadLast, LimitCheck, LimitWarn, LimitClear,
         LimitWait, ProcessBatch, ReadLastTarget, Reserve, NothingToReserve,
         NextPrompt, RefitWait, AcquirePermit, AddThread, StartThread, BatchDone,
         ColMoves, ActorThread, StartCollection, SetWeightVersion,
         ClearLimitPause, Pause, Resume, PrepareForRefit, WaitForPending,
         ResumeAfterRefit, GetDataloaderState
    <3> QED
      BY <3>1, <3>2, <3>3 DEF CollectorStep
  <2> QED
    BY <2>1, <2>2
<1> QED
  BY <1>2, <1>3 DEF SameView

\* A step of the trainer is a step of StepwiseTraining or does not show there.
LEMMA StepwiseTrainer ==
  ASSUME StepwiseInv, Trainer
  PROVE  /\ NumbersKnown' /\ StepInPhase'
         /\ Stepwise!Next \/ SameView
<1>c. /\ BufferTypeOK /\ TrainerTypeOK /\ NumbersKnown /\ StepInPhase
      /\ step \in Nat /\ version \in Nat /\ MaxSteps \in Nat /\ MaxAge \in Nat
  BY Constants, TrainerAssumption
  DEF StepwiseInv, TypeInv, TypeOK, TrainerTypeOK
<1>b. UNCHANGED bufferVars => NumbersKnown' /\ Used' = Used
  BY <1>c DEF NumbersKnown, Used, NumbersOf, bufferVars
\* A step within a phase.
<1>s. ASSUME UNCHANGED <<bufferVars, step, version, batch>>, Phase' = Phase,
             tpc' = "sample" => step < MaxSteps, tpc' = "saveNext" => ~LastStep
      PROVE  NumbersKnown' /\ StepInPhase' /\ SameView
  BY <1>b, <1>c, <1>s DEF StepInPhase, SameView, LastStep
\* The end of the run.
<1>e. ASSUME UNCHANGED <<bufferVars, step, version, batch>>, Phase # "ended",
             tpc' \in {"done", "aborted"}
      PROVE  NumbersKnown' /\ StepInPhase' /\ Stepwise!End
  <2>1. Phase' = "ended"
    BY <1>e DEF Phase
  <2>2. StepInPhase'
    BY <1>e, <2>1 DEF StepInPhase
  <2> QED
    BY <1>b, <1>e, <2>1, <2>2 DEF Stepwise!End, Used, NumbersOf
\* The end of a step.
<1>f. ASSUME NEW ends \in BOOLEAN, EndStep(ends), Phase = "publish",
             UNCHANGED <<bufferVars, version>>, LastStep => ends
      PROVE  NumbersKnown' /\ StepInPhase' /\ Stepwise!EndStep
  <2>1. /\ step' = step + 1 /\ batch' = {} /\ version' = version
        /\ tpc' = IF ends THEN "done" ELSE "sample"
    BY <1>f DEF EndStep, Goto
  <2>2. Phase' = IF ends THEN "ended" ELSE "gather"
    BY <2>1 DEF Phase
  <2>3. version = step + 1 /\ step < MaxSteps
    BY <1>c, <1>f DEF StepInPhase
  <2>4. ~ends => step + 1 < MaxSteps
    BY <1>c, <1>f, <2>3 DEF LastStep
  <2>5. StepInPhase'
    BY <1>c, <2>1, <2>2, <2>3, <2>4 DEF StepInPhase
  <2> QED
    BY <1>b, <1>f, <2>1, <2>2, <2>5 DEF Stepwise!EndStep, Used, NumbersOf
<1> USE DEF Goto, QuietCollector
<1>1. CASE Boot
  BY <1>1, <1>s DEF Boot, Phase
<1>2. CASE InitialRefit
  BY <1>2, <1>s DEF InitialRefit, Phase
<1>3. CASE TrainerRaises
  <2>1. Phase # "ended"
    BY <1>3 DEF TrainerRaises, Phase
  <2> QED
    BY <1>3, <2>1, <1>e DEF TrainerRaises, Stepwise!Next
<1>4. CASE InitialValidation \/ InitialValidationDone
  BY <1>4, <1>s DEF InitialValidation, InitialValidationDone, PauseFor,
     ResumeAfter, Phase
<1>5. CASE BufferReady
  <2>1. CASE step < MaxSteps
    BY <1>5, <2>1, <1>s DEF BufferReady, Phase
  <2>2. CASE ~(step < MaxSteps)
    BY <1>5, <2>2, <1>e DEF BufferReady, Phase, Stepwise!Next
  <2> QED
    BY <2>1, <2>2
<1>6. CASE Sample
  <2>1. PICK sel : SampleReturns(NumPrompts, version, MaxAge, sel) /\ batch' = sel
    BY <1>6 DEF Sample
  <2>2. /\ tpc = "sample" /\ tpc' = "train" /\ step' = step /\ version' = version
    BY <1>6 DEF Sample
  <2>3. Phase = "gather" /\ Phase' = "train"
    BY <2>2 DEF Phase
  <2>4. step < MaxSteps /\ version = step
    BY <1>c, <2>2, <2>3 DEF StepInPhase
  <2>5. StepInPhase'
    BY <2>2, <2>3, <2>4 DEF StepInPhase
  <2>6. /\ NumbersKnown' /\ Used' = Used \cup NumbersOf(batch')
        /\ NumbersOf(batch') \cap Used = {}
        /\ Cardinality(batch') = NumPrompts
        /\ Cardinality(NumbersOf(batch')) = NumPrompts
    BY <1>c, <2>1, SampleNumbers
  <2>7. \A g \in batch' : version - MaxAge <= g.ver /\ g.ver <= version
    BY <1>c, <2>1, SampleWindow
  <2>8. Stepwise!Gather
    <3> HIDE DEF Goto, QuietCollector
    <3>1. \A S : Stepwise!Numbers(S) = NumbersOf(S)
      BY DEF Stepwise!Numbers, NumbersOf
    <3>2. Stepwise!Numbers(batch') = NumbersOf(batch')
      BY <3>1
    <3>3. /\ Stepwise!Cardinality(batch') = NumPrompts
          /\ Stepwise!Cardinality(Stepwise!Numbers(batch')) = NumPrompts
      BY <2>6, <3>2, SameCardinality
    <3>4. /\ Stepwise!Numbers(batch') \cap Used = {}
          /\ Used' = Used \cup Stepwise!Numbers(batch')
      BY <2>6, <3>2
    <3>5. /\ Used = (1 .. arrivals) \ {g.no : g \in groups}
          /\ Used' = (1 .. arrivals') \ {g.no : g \in groups'}
      BY DEF Used, NumbersOf
    <3>6. UNCHANGED <<step, version>>
      BY <2>2
    <3> QED
      BY <2>3, <2>4, <2>7, <3>3, <3>4, <3>5, <3>6, Zenon DEF Stepwise!Gather
  <2> QED
    BY <2>5, <2>6, <2>8 DEF Stepwise!Next
<1>7. CASE SampleFails
  BY <1>7, <1>e DEF SampleFails, Phase, Stepwise!Next
<1>8. CASE Train \/ ReadyForRefit
  BY <1>8, <1>s DEF Train, ReadyForRefit, Phase
<1>9. CASE Refit
  <2>1. /\ UNCHANGED <<bufferVars, step, batch>> /\ version' = version + 1
        /\ tpc' \in {"val", "save"} /\ tpc = "refit"
    BY <1>9 DEF Refit
  <2>2. Phase = "train" /\ Phase' = "publish"
    BY <2>1 DEF Phase
  <2>3. version = step /\ step < MaxSteps
    BY <1>c, <2>2 DEF StepInPhase
  <2>4. StepInPhase'
    BY <2>1, <2>2, <2>3 DEF StepInPhase
  <2> QED
    BY <1>b, <2>1, <2>2, <2>3, <2>4
    DEF Stepwise!Publish, Stepwise!Next, Used, NumbersOf
<1>10. CASE Validation \/ ValidationDone
  BY <1>10, <1>s DEF Validation, ValidationDone, PauseFor, ResumeAfter, Phase
<1>11. ASSUME NEW early \in BOOLEAN, Save(early)
       PROVE  NumbersKnown' /\ StepInPhase' /\ SameView
  BY <1>11, <1>s DEF Save, Phase
<1>12. ASSUME NEW early \in BOOLEAN, SkipSave(early)
       PROVE  NumbersKnown' /\ StepInPhase' /\ Stepwise!EndStep
  <2>1. (LastStep \/ early) \in BOOLEAN /\ Phase = "publish"
    BY <1>12 DEF SkipSave, Phase, LastStep
  <2> QED
    BY <1>12, <2>1, <1>f DEF SkipSave
<1>13. CASE SaveDone
  <2>1. (tpc = "saveLast") \in BOOLEAN /\ Phase = "publish"
    BY <1>13 DEF SaveDone, Phase
  <2>2. LastStep => tpc = "saveLast"
    BY <1>13, <1>c DEF SaveDone, StepInPhase
  <2> QED
    BY <1>13, <2>1, <2>2, <1>f DEF SaveDone, Stepwise!Next
<1> QED
  BY <1>1, <1>2, <1>3, <1>4, <1>5, <1>6, <1>7, <1>8, <1>9, <1>10, <1>11, <1>12,
     <1>13 DEF Trainer, Stepwise!Next

\* Every step is a step of the abstract specification, or one it does not see.
LEMMA StepwiseStep ==
  ASSUME StepwiseInv, [Next]_vars
  PROVE  StepwiseInv' /\ [Stepwise!Next]_(Stepwise!vars)
<1>1. TypeInv'
  BY TypeNext DEF StepwiseInv
<1>2. CASE Trainer
  BY <1>1, <1>2, StepwiseTrainer, ViewIsVars DEF StepwiseInv
<1>3. CASE CollectorStep
  BY <1>1, <1>3, StepwiseCollector, ViewIsVars DEF StepwiseInv
<1>4. CASE UNCHANGED vars
  <2>1. NumbersKnown' /\ StepInPhase' /\ SameView
    BY <1>4 DEF StepwiseInv, NumbersKnown, StepInPhase, SameView, Phase, LastStep,
       Used, NumbersOf, vars, trainerVars, bufferVars
  <2> QED
    BY <1>1, <2>1, ViewIsVars DEF StepwiseInv
<1> QED
  BY <1>2, <1>3, <1>4 DEF Next

\* The initial states are initial states of the abstract specification.
LEMMA StepwiseInit == Init => StepwiseInv /\ Stepwise!Init
<1> SUFFICES ASSUME Init PROVE StepwiseInv /\ Stepwise!Init
  OBVIOUS
<1>1. /\ groups = {} /\ arrivals = 0 /\ tpc = "boot" /\ step = StartStep
      /\ version = StartStep /\ batch = {}
  BY DEF Init, BufferInit, TrainerInit
<1>2. Phase = "gather"
  BY <1>1 DEF Phase
<1>3. NumbersKnown /\ StepInPhase
  BY <1>1, <1>2 DEF NumbersKnown, StepInPhase
<1>4. Stepwise!Init
  BY <1>1, <1>2 DEF Stepwise!Init
<1> QED
  BY <1>3, <1>4, TypeInit DEF StepwiseInv

\* Asynchronous GRPO trains step by step: every step takes exactly
\* num_prompts_per_step groups that were never used before, generated with
\* weights of the age window, and publishes one version (async_grpo_train,
\* ReplayBuffer.sample).
THEOREM TrainsStepwise == Spec => ImplementsStepwise
<1> QED
  BY StepwiseInit, StepwiseStep, PTL DEF Spec, ImplementsStepwise, Stepwise!Spec

-----------------------------------------------------------------------------
(***************************************************************************)
(* Proofs about where the prompt groups are: none is lost, none is left    *)
(* behind by the trainer, and the buffer has room for all of them.         *)
(*                                                                         *)
(* The argument: each batch claimed for a target brings NumPrompts groups, *)
(* and the groups of a target that are buffered, carried, still to spawn,  *)
(* or were given to the trainer never add up to more (Claims), so a target *)
(* that was claimed once has nothing left once the trainer has taken its   *)
(* groups.  Only a rollout that raises, or the end of collection, makes    *)
(* them fewer (NoGroupLost).                                               *)
(***************************************************************************)

GroupsFor(t) == {g \in groups : g.tgt = t}
CarriersFor(t) == {w \in Slots : Carries(w) /\ worker[w].tgt = t}
Given(t) == IF Taken(t) THEN NumPrompts ELSE 0

\* Every target is one the run can reach.
TargetsKnown ==
  /\ version \in StartStep..LastVersion
  /\ \A g \in groups : g.tgt \in Targets
  /\ \A w \in Slots : worker[w].tgt \in Targets
  /\ col.tgt \in Targets
  /\ StartStep <= col.ver

\* Collection runs as long as the collection thread does.
RunningInv ==
  /\ col.pc \notin {"off", "stopped"} => running
  /\ running \/ col.pc = "stopped" \/ \A w \in Slots : worker[w].pc = "idle"

\* There are no more groups for a target than its batches have prompts.
Claims ==
  \A t \in Targets : InSystem(t) + Given(t) <= NumPrompts * claimed[t]

GroupsInv ==
  /\ LabelInv /\ ReservationInv /\ StepwiseInv
  /\ TargetsKnown /\ RunningInv
  /\ Claims /\ NoGroupLost

-----------------------------------------------------------------------------
(* Targets and versions.                                                   *)

\* Where targets lie, and the room the buffer has.
LEMMA TargetRange ==
  /\ MaxSteps \in Nat /\ LastVersion \in Nat
  /\ Targets = StartStep .. LastVersion + MaxAge
  /\ MaxSize = NumPrompts * MaxAge * 2
  /\ MaxAge > 0
BY Constants, TrainerAssumption, CollectorAssumption DEF LastVersion

\* What GroupsInv says, with the types, part by part.
LEMMA GroupsFacts ==
  ASSUME GroupsInv
  PROVE  /\ TypeInv /\ SpawnLocals
         /\ groups \subseteq Group /\ IsFiniteSet(groups)
         /\ lastTarget \in Nat \cup {NoTarget}
         /\ col \in ColState /\ worker \in [Slots -> WorkerState]
         /\ curVersion \in Nat /\ version \in Nat
         /\ claimed \in [Targets -> Nat] /\ failures \in Nat
         /\ StartStep <= curVersion /\ curVersion <= version
         /\ col.ver <= curVersion
         /\ NumbersKnown /\ StartedOnce /\ StepInPhase
BY Constants DEF GroupsInv, LabelInv, ReservationInv, StepwiseInv, UpdatesInOrder,
   LabelsKnown, TypeInv, TypeOK, BufferTypeOK, CollectorTypeOK, TrainerTypeOK

\* A target the collection thread finds free is one of Targets.
LEMMA FreeTarget ==
  ASSUME GroupsInv, NEW last, NEW t \in FreeTargets(col.ver, last)
  PROVE  t \in Targets
<1>1. /\ col.ver \in Nat /\ StartStep <= col.ver /\ col.ver <= version
      /\ version <= LastVersion /\ version \in Nat
  BY GroupsFacts DEF GroupsInv, TargetsKnown, ColState
<1> QED
  BY <1>1, Constants, TargetRange DEF FreeTargets, TargetWeights

\* The training loop makes no target.
LEMMA TargetsTrainer ==
  ASSUME GroupsInv, Trainer
  PROVE  TargetsKnown'
<1>1. UNCHANGED <<col, worker>> /\ groups' \subseteq groups
  BY DEF Trainer, Boot, InitialRefit, TrainerRaises, InitialValidation,
     InitialValidationDone, BufferReady, Sample, SampleFails, Train,
     ReadyForRefit, Refit, Validation, ValidationDone, Save, SkipSave, SaveDone,
     PauseFor, ResumeAfter, Submit, QuietCollector, threadVars, bufferVars,
     SampleReturns
<1>2. version' \in StartStep..LastVersion
  <2>1. version \in StartStep..LastVersion /\ step \in Nat
    BY DEF GroupsInv, TargetsKnown, LabelInv, TypeInv, TypeOK, TrainerTypeOK
  <2>2. CASE Refit
    <3>1. version = step /\ step < MaxSteps /\ version' = version + 1
      BY <2>2, GroupsFacts DEF Refit, StepInPhase, Phase
    <3> QED
      BY <2>1, <3>1, Constants, TargetRange DEF LastVersion
  <2>3. CASE ~Refit
    <3>1. version' = version
      BY <2>3 DEF Trainer, Boot, InitialRefit, TrainerRaises, InitialValidation,
         InitialValidationDone, BufferReady, Sample, SampleFails, Train,
         ReadyForRefit, Validation, ValidationDone, Save, SkipSave,
         SaveDone, PauseFor, ResumeAfter
    <3> QED
      BY <2>1, <3>1
  <2> QED
    BY <2>2, <2>3
<1> QED
  BY <1>1, <1>2 DEF GroupsInv, TargetsKnown

\* A worker carries the target it was given.
LEMMA TargetsWorker ==
  ASSUME GroupsInv, NEW w \in Slots, WorkerThread(w), UNCHANGED trainerVars
  PROVE  TargetsKnown'
<1>1. worker \in [Slots -> WorkerState] /\ StartStep \in Targets
  BY GroupsFacts, Constants, TargetRange DEF LastVersion
<1>2. UNCHANGED <<col, version>>
  BY DEF WorkerThread, Rollout, RolloutRaises, PushLoop, PushGroup, PushFull,
     ReleaseReservation, CleanupReservation, DetachThread, ReleasePermit, trainerVars
<1>3. \A v \in Slots : worker'[v].tgt \in {worker[v].tgt, StartStep}
  BY <1>1 DEF WorkerThread, Rollout, RolloutRaises, PushLoop, PushGroup, PushFull,
     ReleaseReservation, CleanupReservation, DetachThread, ReleasePermit,
     WorkerMoves, WorkerState, IdleWorker
<1>4. \A g \in groups' : g \in groups \/ g.tgt = worker[w].tgt
  BY DEF WorkerThread, Rollout, RolloutRaises, PushLoop, PushGroup, PushFull,
     ReleaseReservation, CleanupReservation, DetachThread, ReleasePermit,
     bufferVars, Push
<1> QED
  BY <1>1, <1>2, <1>3, <1>4 DEF GroupsInv, TargetsKnown

\* The collection thread claims a target of Targets.
LEMMA TargetsCollection ==
  ASSUME GroupsInv, CollectionThread, UNCHANGED trainerVars
  PROVE  TargetsKnown'
<1>c. /\ col \in ColState /\ worker \in [Slots -> WorkerState]
      /\ StartStep <= curVersion /\ curVersion \in Nat /\ col.ver \in Nat
      /\ TargetsKnown /\ StartStep \in Targets /\ StartStep \in Nat
      /\ SpawnLocals
  BY GroupsFacts, Constants, TargetRange DEF GroupsInv, ColState, LastVersion
<1>1. UNCHANGED <<groups, version>>
  BY DEF CollectionThread, Fetch, Exhausted, ManualGate, RefitGate,
     LimitReadVersion, LimitReadLast, LimitCheck, LimitWarn, LimitClear,
     LimitWait, ProcessBatch, ReadLastTarget, Reserve, NothingToReserve,
     NextPrompt, RefitWait, AcquirePermit, AddThread, StartThread, BatchDone,
     ColMoves, bufferVars, trainerVars
<1>2. col'.tgt \in Targets /\ StartStep <= col'.ver
  <2>1. CASE Reserve
    BY <1>c, <2>1, FreeTarget DEF Reserve, ColState, TargetsKnown
  <2>2. CASE NothingToReserve \/ BatchDone
    BY <1>c, <2>2 DEF NothingToReserve, BatchDone, ColMoves, NextBatch
  <2>3. CASE AcquirePermit \/ AddThread \/ StartThread
    BY <1>c, <2>3 DEF AcquirePermit, AddThread, StartThread, ColState, TargetsKnown
  <2>4. CASE \/ Fetch \/ Exhausted \/ ManualGate \/ RefitGate
             \/ LimitReadVersion \/ LimitReadLast \/ LimitCheck
             \/ LimitWarn \/ LimitClear \/ LimitWait
             \/ ProcessBatch \/ ReadLastTarget \/ NextPrompt \/ RefitWait
    BY <1>c, <2>4 DEF Fetch, Exhausted, ManualGate, RefitGate, LimitReadVersion,
       LimitReadLast, LimitCheck, LimitWarn, LimitClear, LimitWait, ProcessBatch,
       ReadLastTarget, NextPrompt, RefitWait, ColMoves, ColState, TargetsKnown
  <2> QED
    BY <2>1, <2>2, <2>3, <2>4 DEF CollectionThread
<1>3. \A v \in Slots : worker'[v].tgt \in {worker[v].tgt, col.tgt}
  <2>1. CASE AcquirePermit
    BY <1>c, <2>1 DEF AcquirePermit
  <2>2. CASE StartThread
    BY <1>c, <2>2 DEF StartThread, WorkerState
  <2>3. CASE ~AcquirePermit /\ ~StartThread
    <3>1. worker' = worker
      BY <2>3 DEF CollectionThread, Fetch, Exhausted, ManualGate, RefitGate,
         LimitReadVersion, LimitReadLast, LimitCheck, LimitWarn, LimitClear,
         LimitWait, ProcessBatch, ReadLastTarget, Reserve, NothingToReserve,
         NextPrompt, RefitWait, AddThread, BatchDone, ColMoves
    <3> QED
      BY <3>1
  <2> QED
    BY <2>1, <2>2, <2>3
<1> QED
  BY <1>c, <1>1, <1>2, <1>3 DEF TargetsKnown

\* The calls of the actor make no target.
LEMMA TargetsActor ==
  ASSUME GroupsInv, ActorThread, UNCHANGED trainerVars
  PROVE  TargetsKnown'
<1>1. col \in ColState
  BY GroupsFacts
<1>2. UNCHANGED <<groups, worker, version>> /\ col'.tgt = col.tgt /\ col'.ver = col.ver
  BY <1>1 DEF ActorThread, StartCollection, SetWeightVersion, ClearLimitPause,
     Pause, Resume, PrepareForRefit, WaitForPending, ResumeAfterRefit,
     GetDataloaderState, threadVars, bufferVars, trainerVars, ColState
<1> QED
  BY <1>2 DEF GroupsInv, TargetsKnown

-----------------------------------------------------------------------------
(* Collection runs.                                                        *)

\* Every step keeps what is said of the thread that runs.
LEMMA RunningNext ==
  ASSUME GroupsInv, [Next]_vars
  PROVE  RunningInv'
<1>c. /\ col \in ColState /\ worker \in [Slots -> WorkerState] /\ RunningInv
      /\ SpawnLocals
  BY GroupsFacts DEF GroupsInv
<1>1. CASE Trainer \/ UNCHANGED vars
  <2>1. UNCHANGED <<col, worker, running>>
    BY <1>1 DEF Trainer, Boot, InitialRefit, TrainerRaises, InitialValidation,
       InitialValidationDone, BufferReady, Sample, SampleFails, Train,
       ReadyForRefit, Refit, Validation, ValidationDone, Save, SkipSave, SaveDone,
       PauseFor, ResumeAfter, Submit, QuietCollector, threadVars, eventVars, vars,
       collectorVars
  <2> QED
    BY <1>c, <2>1 DEF RunningInv
<1>2. CASE CollectionThread
  <2>1. CASE Exhausted
    BY <1>c, <2>1 DEF Exhausted, RunningInv, ColState
  <2>2. CASE ~Exhausted
    <3>1. running' = running /\ col.pc \notin {"off", "stopped"}
      BY <1>2, <2>2 DEF CollectionThread, Fetch, ManualGate, RefitGate,
         LimitReadVersion, LimitReadLast, LimitCheck, LimitWarn, LimitClear,
         LimitWait, ProcessBatch, ReadLastTarget, Reserve, NothingToReserve,
         NextPrompt, RefitWait, AcquirePermit, AddThread, StartThread, BatchDone,
         ColMoves, eventVars
    <3> QED
      BY <1>c, <3>1 DEF RunningInv
  <2> QED
    BY <2>1, <2>2
<1>3. ASSUME NEW w \in Slots, WorkerThread(w) PROVE RunningInv'
  <2>1. UNCHANGED <<col, running>> /\ worker[w].pc # "idle"
    BY <1>3 DEF WorkerThread, Rollout, RolloutRaises, PushLoop, PushGroup, PushFull,
       ReleaseReservation, CleanupReservation, DetachThread, ReleasePermit, eventVars
  <2> QED
    BY <1>c, <2>1 DEF RunningInv
<1>4. CASE ActorThread
  <2>1. CASE StartCollection
    BY <1>c, <2>1 DEF StartCollection, RunningInv
  <2>2. CASE ~StartCollection
    <3>1. UNCHANGED <<col, worker, running>>
      BY <1>4, <2>2 DEF ActorThread, SetWeightVersion, ClearLimitPause,
         Pause, Resume, PrepareForRefit, WaitForPending, ResumeAfterRefit,
         GetDataloaderState, threadVars, eventVars
    <3> QED
      BY <1>c, <3>1 DEF RunningInv
  <2> QED
    BY <2>1, <2>2
<1> QED
  BY <1>1, <1>2, <1>3, <1>4 DEF Next, CollectorStep

-----------------------------------------------------------------------------
(* Numbers of groups.                                                      *)

\* What is in the system for a target is a number, and the sum of where it is.
LEMMA Counts ==
  ASSUME TypeInv, NEW t
  PROVE  /\ IsFiniteSet(GroupsFor(t)) /\ Cardinality(GroupsFor(t)) \in Nat
         /\ IsFiniteSet(CarriersFor(t)) /\ Cardinality(CarriersFor(t)) \in Nat
         /\ ToSpawn(t) \in 0..NumPrompts
         /\ InSystem(t) = Cardinality(GroupsFor(t)) + Cardinality(CarriersFor(t))
                            + ToSpawn(t)
         /\ InSystem(t) \in Nat
<1>1. /\ IsFiniteSet(groups) /\ col \in ColState /\ SpawnLocals
  BY DEF TypeInv, TypeOK, BufferTypeOK, CollectorTypeOK
<1>2. GroupsFor(t) \in SUBSET groups /\ CarriersFor(t) \in SUBSET Slots
  BY DEF GroupsFor, CarriersFor
<1>3. /\ IsFiniteSet(GroupsFor(t)) /\ Cardinality(GroupsFor(t)) \in Nat
      /\ IsFiniteSet(CarriersFor(t)) /\ Cardinality(CarriersFor(t)) \in Nat
  BY <1>1, <1>2, Constants, FS_Subset, FS_CardinalityType
<1>4. ToSpawn(t) \in 0..NumPrompts
  BY <1>1, Constants DEF ToSpawn, ColState, SpawnLocals
<1>5. InSystem(t) = Cardinality(GroupsFor(t)) + Cardinality(CarriersFor(t)) + ToSpawn(t)
  BY DEF InSystem, GroupsFor, CarriersFor
<1> QED
  BY <1>3, <1>4, <1>5

\* What a step of the collector may do to the groups for t: keep their number,
\* bring a batch for a claim, or make them fewer, after a rollout that raised or
\* with collection stopped.
Moved(t) ==
  \/ /\ InSystem(t)' = InSystem(t)
     /\ claimed'[t] = claimed[t]
  \/ /\ InSystem(t)' = InSystem(t) + NumPrompts
     /\ claimed'[t] = claimed[t] + 1
  \/ /\ InSystem(t)' <= InSystem(t)
     /\ claimed'[t] = claimed[t]
     /\ failures' > 0 \/ col'.pc = "stopped"

\* Where nothing is pushed, carried or spawned, nothing moves.
LEMMA NotMoved ==
  ASSUME UNCHANGED <<groups, claimed>>, NEW t, CarriersFor(t)' = CarriersFor(t),
         ToSpawn(t)' = ToSpawn(t)
  PROVE  Moved(t)
<1>1. GroupsFor(t)' = GroupsFor(t)
  BY DEF GroupsFor
<1>2. InSystem(t) = Cardinality(GroupsFor(t)) + Cardinality(CarriersFor(t)) + ToSpawn(t)
  BY DEF InSystem, GroupsFor, CarriersFor
<1>3. InSystem(t)' = Cardinality(GroupsFor(t)') + Cardinality(CarriersFor(t)') + ToSpawn(t)'
  BY DEF InSystem, GroupsFor, CarriersFor
<1> QED
  BY <1>1, <1>2, <1>3 DEF Moved

\* A push takes a group from its carrier to the buffer.
LEMMA PushMoves ==
  ASSUME GroupsInv, NEW w \in Slots, PushGroup(w), NEW t
  PROVE  InSystem(t)' = InSystem(t)
<1> DEFINE new == [no |-> arrivals + 1, ver |-> worker[w].ver, tgt |-> worker[w].tgt]
<1>c. /\ worker \in [Slots -> WorkerState] /\ NumbersKnown /\ arrivals \in Nat
      /\ TypeInv /\ IsFiniteSet(GroupsFor(t)) /\ IsFiniteSet(CarriersFor(t))
  BY GroupsFacts, Counts DEF TypeInv, TypeOK, BufferTypeOK
<1>1. /\ groups' = groups \cup {new} /\ new \notin groups /\ new.tgt = worker[w].tgt
      /\ worker[w].pc = "push" /\ col' = col
      /\ WorkerMoves(w, IF worker[w].idx = 0 THEN "release" ELSE "cleanup")
  BY <1>c DEF PushGroup, Push, NumbersKnown
<1> HIDE DEF new
<1>2. ToSpawn(t)' = ToSpawn(t)
  BY <1>1 DEF ToSpawn, Spawning
<1>3. /\ \A v \in Slots : v # w => worker'[v] = worker[v]
      /\ worker'[w].pc \in {"release", "cleanup"}
  BY <1>c, <1>1 DEF WorkerMoves, WorkerState
<1>4. CarriersFor(t)' = CarriersFor(t) \ {w}
  BY <1>1, <1>3 DEF CarriersFor, Carries
<1>5. CASE worker[w].tgt = t
  <2>1. w \in CarriersFor(t) /\ new \notin GroupsFor(t)
    BY <1>1, <1>5 DEF CarriersFor, Carries, GroupsFor
  <2>2. GroupsFor(t)' = GroupsFor(t) \cup {new}
    BY <1>1, <1>5 DEF GroupsFor
  <2>3. /\ Cardinality(GroupsFor(t)') = Cardinality(GroupsFor(t)) + 1
        /\ Cardinality(CarriersFor(t)') = Cardinality(CarriersFor(t)) - 1
    <3>1. Cardinality(GroupsFor(t) \cup {new}) = Cardinality(GroupsFor(t)) + 1
      BY <1>c, <2>1, FS_AddElement
    <3>2. Cardinality(CarriersFor(t) \ {w}) = Cardinality(CarriersFor(t)) - 1
      BY <1>c, <2>1, FS_RemoveElement
    <3> QED
      BY <1>4, <2>2, <3>1, <3>2
  <2>4. InSystem(t)' = Cardinality(GroupsFor(t)') + Cardinality(CarriersFor(t)') + ToSpawn(t)'
    BY DEF InSystem, GroupsFor, CarriersFor
  <2>5. /\ InSystem(t) = Cardinality(GroupsFor(t)) + Cardinality(CarriersFor(t)) + ToSpawn(t)
        /\ Cardinality(GroupsFor(t)) \in Nat /\ Cardinality(CarriersFor(t)) \in Nat
        /\ ToSpawn(t) \in Nat
    BY <1>c, Counts, Constants
  <2> QED
    BY <1>2, <2>3, <2>4, <2>5
<1>6. CASE worker[w].tgt # t
  <2>1. GroupsFor(t)' = GroupsFor(t)
    BY <1>1, <1>6 DEF GroupsFor
  <2>2. CarriersFor(t)' = CarriersFor(t)
    BY <1>4, <1>6 DEF CarriersFor
  <2> QED
    BY <1>2, <2>1, <2>2 DEF InSystem, GroupsFor, CarriersFor
<1> QED
  BY <1>5, <1>6

\* A worker step pushes its group, keeps it, or drops it by raising.
LEMMA WorkerMoved ==
  ASSUME GroupsInv, NEW w \in Slots, WorkerThread(w), NEW t
  PROVE  Moved(t)
<1>c. /\ worker \in [Slots -> WorkerState] /\ RunningInv /\ failures \in Nat
      /\ TypeInv /\ col' = col
  BY GroupsFacts DEF GroupsInv, WorkerThread, Rollout, RolloutRaises, PushLoop,
     PushGroup, PushFull, ReleaseReservation, CleanupReservation, DetachThread,
     ReleasePermit
<1>1. CASE PushGroup(w)
  BY <1>1, PushMoves DEF Moved, PushGroup
<1>2. ToSpawn(t)' = ToSpawn(t)
  BY <1>c DEF ToSpawn, Spawning
<1>3. CASE ~PushGroup(w) /\ (Carries(w)' <=> Carries(w))
  <2>1. UNCHANGED <<groups, claimed>>
    BY <1>3 DEF WorkerThread, Rollout, RolloutRaises, PushLoop, PushFull,
       ReleaseReservation, CleanupReservation, DetachThread, ReleasePermit,
       bufferVars
  <2>2. \A v \in Slots : v # w => worker'[v] = worker[v]
    BY <1>c, <1>3 DEF WorkerThread, Rollout, RolloutRaises, PushLoop, PushFull,
       ReleaseReservation, CleanupReservation, DetachThread, ReleasePermit,
       WorkerMoves
  <2>3. Carries(w) => worker'[w].tgt = worker[w].tgt
    BY <1>c, <1>3 DEF WorkerThread, Rollout, RolloutRaises, PushLoop, PushFull,
       ReleaseReservation, CleanupReservation, DetachThread, ReleasePermit,
       WorkerMoves, WorkerState, Carries
  <2>4. CarriersFor(t)' = CarriersFor(t)
    BY <1>3, <2>2, <2>3 DEF CarriersFor, Carries
  <2> QED
    BY <1>2, <2>1, <2>4, NotMoved
<1>4. CASE ~PushGroup(w) /\ ~(Carries(w)' <=> Carries(w))
  <2>1. RolloutRaises(w) \/ (PushLoop(w) /\ ~running)
    BY <1>c, <1>4 DEF WorkerThread, Rollout, PushLoop, PushFull, ReleaseReservation,
       CleanupReservation, DetachThread, ReleasePermit, WorkerMoves, WorkerState,
       Carries, IdleWorker
  <2>2. /\ UNCHANGED <<groups, claimed>> /\ worker'[w].pc = "cleanup"
        /\ \A v \in Slots : v # w => worker'[v] = worker[v]
    BY <1>c, <2>1 DEF RolloutRaises, PushLoop, bufferVars, WorkerMoves, WorkerState
  <2>3. failures' > 0 \/ col'.pc = "stopped"
    <3>1. CASE RolloutRaises(w)
      BY <1>c, <3>1 DEF RolloutRaises
    <3>2. CASE PushLoop(w) /\ ~running
      BY <1>c, <3>2 DEF PushLoop, RunningInv
    <3> QED
      BY <2>1, <3>1, <3>2
  <2>4. CarriersFor(t)' \in SUBSET CarriersFor(t)
    BY <2>2 DEF CarriersFor, Carries
  <2>5. Cardinality(CarriersFor(t)') <= Cardinality(CarriersFor(t))
    BY <1>c, <2>4, Counts, FS_Subset
  <2>6. GroupsFor(t)' = GroupsFor(t)
    BY <2>2 DEF GroupsFor
  <2>7. InSystem(t)' = Cardinality(GroupsFor(t)') + Cardinality(CarriersFor(t)') + ToSpawn(t)'
    BY DEF InSystem, GroupsFor, CarriersFor
  <2>8. Cardinality(CarriersFor(t)') \in Nat
    BY <1>c, <2>4, Counts, FS_Subset, FS_CardinalityType
  <2>9. InSystem(t)' <= InSystem(t)
    BY <1>c, <1>2, <2>5, <2>6, <2>7, <2>8, Counts
  <2> QED
    BY <2>2, <2>3, <2>9 DEF Moved
<1> QED
  BY <1>1, <1>3, <1>4

\* The batch to spawn becomes a worker at a time, ...
LEMMA AcquireMoves ==
  ASSUME GroupsInv, AcquirePermit, NEW t
  PROVE  Moved(t)
<1>c. /\ worker \in [Slots -> WorkerState] /\ col \in ColState /\ SpawnLocals
      /\ TypeInv /\ IsFiniteSet(CarriersFor(t))
      /\ Cardinality(GroupsFor(t)) \in Nat /\ Cardinality(CarriersFor(t)) \in Nat
  BY GroupsFacts, Counts
<1>1. PICK w \in Slots :
        /\ worker[w].pc = "idle"
        /\ worker' = [worker EXCEPT ![w] = [pc |-> "new", ver |-> col.ver,
                                            tgt |-> col.tgt, idx |-> col.idx]]
        /\ col' = [col EXCEPT !.pc = "add", !.slot = w]
  BY DEF AcquirePermit
<1>2. col.pc = "acquire" /\ UNCHANGED <<groups, claimed>>
  BY DEF AcquirePermit, bufferVars
<1>3. /\ worker'[w].pc = "new" /\ worker'[w].tgt = col.tgt
      /\ \A v \in Slots : v # w => worker'[v] = worker[v]
      /\ col'.pc = "add" /\ col'.tgt = col.tgt /\ col'.idx = col.idx
  BY <1>c, <1>1 DEF ColState
<1>4. w \notin CarriersFor(t)
  BY <1>1 DEF CarriersFor, Carries
<1>5. CASE t = col.tgt
  <2>1. CarriersFor(t)' = CarriersFor(t) \cup {w}
    BY <1>3, <1>5 DEF CarriersFor, Carries
  <2>2. Cardinality(CarriersFor(t)') = Cardinality(CarriersFor(t)) + 1
    <3>1. Cardinality(CarriersFor(t) \cup {w}) = Cardinality(CarriersFor(t)) + 1
      BY <1>c, <1>4, FS_AddElement
    <3> QED
      BY <2>1, <3>1
  <2>3. ToSpawn(t)' = ToSpawn(t) - 1 /\ ToSpawn(t) \in Nat
    BY <1>c, <1>2, <1>3, <1>5, Constants DEF ToSpawn, Spawning, SpawnLocals, ColState
  <2>4. GroupsFor(t)' = GroupsFor(t)
    BY <1>2 DEF GroupsFor
  <2>5. InSystem(t) = Cardinality(GroupsFor(t)) + Cardinality(CarriersFor(t)) + ToSpawn(t)
    BY DEF InSystem, GroupsFor, CarriersFor
  <2>6. InSystem(t)' = Cardinality(GroupsFor(t)') + Cardinality(CarriersFor(t)') + ToSpawn(t)'
    BY DEF InSystem, GroupsFor, CarriersFor
  <2>7. InSystem(t)' = InSystem(t)
    BY <1>c, <2>2, <2>3, <2>4, <2>5, <2>6
  <2> QED
    BY <1>2, <2>7 DEF Moved
<1>6. CASE t # col.tgt
  <2>1. CarriersFor(t)' = CarriersFor(t)
    BY <1>3, <1>4, <1>6 DEF CarriersFor, Carries
  <2>2. ToSpawn(t)' = ToSpawn(t)
    BY <1>3, <1>6 DEF ToSpawn
  <2> QED
    BY <1>2, <2>1, <2>2, NotMoved
<1> QED
  BY <1>5, <1>6

\* ... and a claim brings all of it.
LEMMA ReserveMoves ==
  ASSUME GroupsInv, Reserve, NEW t \in Targets
  PROVE  Moved(t)
<1>c. /\ col \in ColState /\ claimed \in [Targets -> Nat] /\ TypeInv
      /\ Cardinality(GroupsFor(t)) \in Nat /\ Cardinality(CarriersFor(t)) \in Nat
  BY GroupsFacts, Counts
<1>1. PICK u \in FreeTargets(col.ver, col.last) :
        /\ claimed' = [claimed EXCEPT ![u] = @ + 1]
        /\ col' = [col EXCEPT !.pc = "prompt", !.last = NoTarget, !.tgt = u, !.idx = 0]
  BY DEF Reserve
<1>2. col.pc = "reserve" /\ UNCHANGED <<groups, worker>>
  BY DEF Reserve, bufferVars
<1>3. col'.pc = "prompt" /\ col'.tgt = u /\ col'.idx = 0
  BY <1>c, <1>1 DEF ColState
<1>4. GroupsFor(t)' = GroupsFor(t) /\ CarriersFor(t)' = CarriersFor(t)
  BY <1>2 DEF GroupsFor, CarriersFor, Carries
<1>5. ToSpawn(t) = 0
  BY <1>2 DEF ToSpawn, Spawning
<1>6. CASE t = u
  <2>1. ToSpawn(t)' = NumPrompts
    BY <1>3, <1>6, Constants DEF ToSpawn, Spawning
  <2>2. claimed'[t] = claimed[t] + 1
    BY <1>c, <1>1, <1>6
  <2>3. InSystem(t) = Cardinality(GroupsFor(t)) + Cardinality(CarriersFor(t)) + ToSpawn(t)
    BY DEF InSystem, GroupsFor, CarriersFor
  <2>4. InSystem(t)' = Cardinality(GroupsFor(t)') + Cardinality(CarriersFor(t)') + ToSpawn(t)'
    BY DEF InSystem, GroupsFor, CarriersFor
  <2>5. InSystem(t)' = InSystem(t) + NumPrompts
    BY <1>c, <1>4, <1>5, <2>1, <2>3, <2>4, Constants
  <2> QED
    BY <2>2, <2>5 DEF Moved
<1>7. CASE t # u
  <2>1. ToSpawn(t)' = 0
    BY <1>3, <1>7 DEF ToSpawn
  <2>2. claimed'[t] = claimed[t]
    BY <1>c, <1>1, <1>7
  <2>3. InSystem(t)' = InSystem(t)
    BY <1>4, <1>5, <2>1 DEF InSystem, GroupsFor, CarriersFor
  <2> QED
    BY <2>2, <2>3 DEF Moved
<1> QED
  BY <1>6, <1>7

\* A step of the collection thread claims a batch, or turns one still to spawn
\* into a carried one.
LEMMA CollectionMoved ==
  ASSUME GroupsInv, CollectionThread, NEW t \in Targets
  PROVE  Moved(t)
<1>c. /\ worker \in [Slots -> WorkerState] /\ col \in ColState /\ SpawnLocals
      /\ NumPrompts \in Nat
  BY GroupsFacts, Constants
<1>1. CASE AcquirePermit \/ Reserve
  BY <1>1, AcquireMoves, ReserveMoves
<1>2. CASE StartThread
  <2>1. /\ col.slot \in Slots /\ worker[col.slot].pc = "new" /\ col.pc = "start"
        /\ col'.pc = "prompt" /\ col'.idx = col.idx + 1 /\ col'.tgt = col.tgt
        /\ col.idx \in Nat /\ col.idx < NumPrompts /\ UNCHANGED <<groups, claimed>>
    BY <1>c, <1>2 DEF StartThread, SpawnLocals, ColState, bufferVars
  <2>2. CarriersFor(t)' = CarriersFor(t)
    <3>1. /\ \A v \in Slots : v # col.slot => worker'[v] = worker[v]
          /\ worker'[col.slot].pc = "rollout"
          /\ worker'[col.slot].tgt = worker[col.slot].tgt
      BY <1>c, <1>2, <2>1 DEF StartThread, WorkerState
    <3> QED
      BY <2>1, <3>1 DEF CarriersFor, Carries
  <2>3. ToSpawn(t)' = ToSpawn(t)
    BY <1>c, <2>1 DEF ToSpawn, Spawning
  <2> QED
    BY <2>1, <2>2, <2>3, NotMoved
<1>3. CASE CollectionThread /\ ~AcquirePermit /\ ~Reserve /\ ~StartThread
  <2>1. UNCHANGED <<groups, claimed, worker>>
    BY <1>3 DEF CollectionThread, Fetch, Exhausted, ManualGate, RefitGate,
       LimitReadVersion, LimitReadLast, LimitCheck, LimitWarn, LimitClear,
       LimitWait, ProcessBatch, ReadLastTarget, NothingToReserve,
       NextPrompt, RefitWait, AddThread, BatchDone, ColMoves, bufferVars
  <2>2. CarriersFor(t)' = CarriersFor(t)
    BY <2>1 DEF CarriersFor, Carries
  <2>3. ToSpawn(t)' = ToSpawn(t)
    <3>1. CASE NextPrompt \/ RefitWait \/ AddThread
      <4>1. /\ col'.tgt = col.tgt /\ col'.idx = col.idx
            /\ \/ /\ col.pc \in {"prompt", "rewait"}
                  /\ col'.pc \in {"acquire", "rewait"}
               \/ col.pc = "add" /\ col'.pc = "start"
        <5>1. CASE NextPrompt
          BY <1>c, <5>1 DEF NextPrompt, ColMoves, ColState
        <5>2. CASE RefitWait
          BY <1>c, <5>2 DEF RefitWait, ColMoves, ColState
        <5>3. CASE AddThread
          BY <1>c, <5>3 DEF AddThread, ColState
        <5> QED
          BY <3>1, <5>1, <5>2, <5>3
      <4> QED
        BY <4>1 DEF ToSpawn, Spawning
    <3>2. CASE BatchDone
      <4>1. col.pc = "prompt" /\ col.idx = NumPrompts /\ col'.pc = "fetch"
        BY <3>2 DEF BatchDone, NextBatch
      <4>2. NumPrompts - NumPrompts - 0 = 0
        BY <1>c
      <4>3. ToSpawn(t) = 0
        BY <4>1, <4>2 DEF ToSpawn, Spawning
      <4>4. ToSpawn(t)' = 0
        BY <4>1 DEF ToSpawn, Spawning
      <4> QED
        BY <4>3, <4>4
    <3>3. CASE \/ Fetch \/ Exhausted \/ ManualGate \/ RefitGate
               \/ LimitReadVersion \/ LimitReadLast \/ LimitCheck
               \/ LimitWarn \/ LimitClear \/ LimitWait
               \/ ProcessBatch \/ ReadLastTarget \/ NothingToReserve
      <4>1. col.pc \notin {"prompt", "rewait", "acquire", "add", "start"}
        BY <3>3 DEF Fetch, Exhausted, ManualGate, RefitGate, LimitReadVersion,
           LimitReadLast, LimitCheck, LimitWarn, LimitClear, LimitWait,
           ProcessBatch, ReadLastTarget, NothingToReserve
      <4>2. col'.pc \notin {"prompt", "rewait", "acquire", "add", "start"}
        <5>1. CASE NothingToReserve
          BY <5>1 DEF NothingToReserve, ColMoves, NextBatch
        <5>2. CASE LimitCheck \/ LimitWarn
          BY <1>c, <5>2 DEF LimitCheck, LimitWarn, ColMoves, ColState
        <5>3. CASE Fetch \/ Exhausted \/ LimitClear
          BY <1>c, <5>3 DEF Fetch, Exhausted, LimitClear, ColState
        <5>4. CASE \/ ManualGate \/ RefitGate \/ LimitReadVersion \/ LimitReadLast
                   \/ LimitWait \/ ProcessBatch \/ ReadLastTarget
          BY <1>c, <5>4 DEF ManualGate, RefitGate, LimitReadVersion, LimitReadLast,
             LimitWait, ProcessBatch, ReadLastTarget, ColMoves, ColState
        <5> QED
          BY <3>3, <5>1, <5>2, <5>3, <5>4
      <4> QED
        BY <4>1, <4>2 DEF ToSpawn, Spawning
    <3> QED
      BY <1>3, <3>1, <3>2, <3>3 DEF CollectionThread
  <2> QED
    BY <2>1, <2>2, <2>3, NotMoved
<1> QED
  BY <1>1, <1>2, <1>3

\* The actor moves no group, and starts no stopped collection.
LEMMA ActorMoved ==
  ASSUME GroupsInv, ActorThread, UNCHANGED trainerVars, NEW t
  PROVE  Moved(t) /\ (col.pc = "stopped" => col'.pc = "stopped")
<1>c. /\ col \in ColState /\ TypeInv /\ StartedOnce
  BY GroupsFacts
<1>1. UNCHANGED <<groups, claimed, worker>>
  BY DEF ActorThread, StartCollection, SetWeightVersion, ClearLimitPause,
     Pause, Resume, PrepareForRefit, WaitForPending, ResumeAfterRefit,
     GetDataloaderState, threadVars, bufferVars
<1>2. CarriersFor(t)' = CarriersFor(t)
  BY <1>1 DEF CarriersFor, Carries
<1>3. CASE StartCollection
  <2>1. col.pc = "off"
    BY <1>c, <1>3, StartedActor DEF NotStarted
  <2>2. col'.pc = "fetch"
    BY <1>c, <1>3 DEF StartCollection, ColState
  <2>3. ToSpawn(t)' = ToSpawn(t)
    BY <2>1, <2>2 DEF ToSpawn, Spawning
  <2> QED
    BY <1>1, <1>2, <2>1, <2>3, NotMoved
<1>4. CASE ~StartCollection
  <2>1. col' = col
    BY <1>c, <1>4, StartedActor
  <2> QED
    BY <1>1, <1>2, <2>1, NotMoved DEF ToSpawn, Spawning
<1> QED
  BY <1>3, <1>4

-----------------------------------------------------------------------------
(* Claims and losses.                                                      *)

\* Every step keeps the counts numbers.
LEMMA CountedNext ==
  ASSUME TypeInv, [Next]_vars, NEW t
  PROVE  TypeInv' /\ InSystem(t)' \in Nat
<1>1. TypeInv'
  BY TypeNext
<1>2. GroupsFor(t)' \in SUBSET groups' /\ CarriersFor(t)' \in SUBSET Slots
  BY DEF GroupsFor, CarriersFor
<1>3. /\ IsFiniteSet(groups') /\ col' \in ColState /\ SpawnLocals'
  BY <1>1 DEF TypeInv, TypeOK, BufferTypeOK, CollectorTypeOK
<1>4. Cardinality(GroupsFor(t)') \in Nat /\ Cardinality(CarriersFor(t)') \in Nat
  BY <1>2, <1>3, Constants, FS_Subset, FS_CardinalityType
<1>5. ToSpawn(t)' \in Nat
  BY <1>3, Constants DEF ToSpawn, ColState, SpawnLocals
<1>6. InSystem(t)' = Cardinality(GroupsFor(t)') + Cardinality(CarriersFor(t)') + ToSpawn(t)'
  BY DEF InSystem, GroupsFor, CarriersFor
<1> QED
  BY <1>1, <1>4, <1>5, <1>6

\* What was given to the trainer for a target is a number.
LEMMA GivenNat == ASSUME NEW t PROVE Given(t) \in Nat
BY Constants DEF Given

\* What a step of the collector may do to the groups of each target.
LEMMA CollectorMoved ==
  ASSUME GroupsInv, CollectorStep
  PROVE  /\ \A t \in Targets : Moved(t) /\ Given(t)' = Given(t)
         /\ failures <= failures' /\ failures' \in Nat
         /\ col.pc = "stopped" => col'.pc = "stopped"
         /\ tpc' = tpc
<1>c. failures \in Nat /\ UNCHANGED trainerVars
  BY GroupsFacts DEF CollectorStep
<1>1. \A t : Given(t)' = Given(t)
  BY <1>c DEF Given, Taken, trainerVars
<1>2. CASE CollectionThread
  <2>1. col.pc # "stopped" /\ failures' = failures
    BY <1>2 DEF CollectionThread, Fetch, Exhausted, ManualGate, RefitGate,
       LimitReadVersion, LimitReadLast, LimitCheck, LimitWarn, LimitClear,
       LimitWait, ProcessBatch, ReadLastTarget, Reserve, NothingToReserve,
       NextPrompt, RefitWait, AcquirePermit, AddThread, StartThread, BatchDone,
       ColMoves
  <2> QED
    BY <1>c, <1>1, <1>2, <2>1, CollectionMoved DEF trainerVars
<1>3. CASE ActorThread
  <2>1. failures' = failures
    BY <1>3 DEF ActorThread, StartCollection, SetWeightVersion, ClearLimitPause,
       Pause, Resume, PrepareForRefit, WaitForPending, ResumeAfterRefit,
       GetDataloaderState, threadVars
  <2>2. col.pc = "stopped" => col'.pc = "stopped"
    BY <1>c, <1>3, ActorMoved
  <2> QED
    BY <1>c, <1>1, <1>3, <2>1, <2>2, ActorMoved DEF trainerVars
<1>4. ASSUME NEW w \in Slots, WorkerThread(w)
      PROVE  /\ \A t \in Targets : Moved(t)
             /\ failures <= failures' /\ failures' \in Nat /\ col' = col
  <2>1. failures' \in {failures, failures + 1} /\ col' = col
    BY <1>4 DEF WorkerThread, Rollout, RolloutRaises, PushLoop, PushGroup, PushFull,
       ReleaseReservation, CleanupReservation, DetachThread, ReleasePermit
  <2> QED
    BY <1>c, <1>4, <2>1, WorkerMoved
<1> QED
  BY <1>c, <1>1, <1>2, <1>3, <1>4 DEF CollectorStep, trainerVars

\* So it keeps the claims.
LEMMA CollectorCounts ==
  ASSUME GroupsInv, [Next]_vars, CollectorStep
  PROVE  Claims' /\ NoGroupLost'
<1>1. /\ failures <= failures' /\ failures' \in Nat /\ failures \in Nat
      /\ col.pc = "stopped" => col'.pc = "stopped"
      /\ tpc' = tpc /\ NumPrompts \in Nat /\ TypeInv /\ TypeInv'
  BY CollectorMoved, GroupsFacts, Constants, TypeNext
<1>2. ASSUME NEW t \in Targets
      PROVE  /\ InSystem(t) \in Nat /\ InSystem(t)' \in Nat
             /\ claimed[t] \in Nat /\ claimed'[t] \in Nat
             /\ Given(t) \in Nat /\ Given(t)' = Given(t) /\ Moved(t)
             /\ NumPrompts * claimed[t] \in Nat
             /\ NumPrompts * (claimed[t] + 1) = NumPrompts * claimed[t] + NumPrompts
  <2>1. claimed \in [Targets -> Nat] /\ claimed' \in [Targets -> Nat]
    BY <1>1 DEF TypeInv, TypeOK, CollectorTypeOK
  <2>2. InSystem(t)' \in Nat
    BY <1>1, CountedNext
  <2>3. \A n \in Nat : NumPrompts * n \in Nat /\ NumPrompts * (n + 1) = NumPrompts * n + NumPrompts
    BY Constants
  <2> QED
    BY <1>1, <2>1, <2>2, <2>3, Counts, GivenNat, CollectorMoved
<1>3. Claims'
  <2> SUFFICES ASSUME NEW t \in Targets
               PROVE  InSystem(t)' + Given(t)' <= NumPrompts * claimed'[t]
    BY DEF Claims
  <2>1. InSystem(t) + Given(t) <= NumPrompts * claimed[t]
    BY DEF GroupsInv, Claims
  <2> QED
    BY <1>1, <1>2, <2>1 DEF Moved
<1>4. NoGroupLost'
  <2> SUFFICES ASSUME failures' = 0, col'.pc # "stopped", tpc' # "aborted",
                      NEW t \in Targets
               PROVE  InSystem(t)' + Given(t)' = NumPrompts * claimed'[t]
    BY DEF NoGroupLost, Given
  <2>1. InSystem(t) + Given(t) = NumPrompts * claimed[t]
    BY <1>1 DEF GroupsInv, NoGroupLost, Given
  <2> QED
    BY <1>1, <1>2, <2>1 DEF Moved
<1> QED
  BY <1>3, <1>4

\* A sample hands the groups of its step to the trainer.
LEMMA SampleCounts ==
  ASSUME GroupsInv, Sample, NEW t
  PROVE  InSystem(t)' + Given(t)' = InSystem(t) + Given(t)
<1>c. /\ TypeInv /\ version \in Nat /\ NumPrompts \in Nat
      /\ IsFiniteSet(GroupsFor(t)) /\ Cardinality(GroupsFor(t)) \in Nat
      /\ Cardinality(CarriersFor(t)) \in Nat /\ ToSpawn(t) \in Nat
  BY GroupsFacts, Counts, Constants
<1>1. PICK sel \in Oldest(Intended(version, MaxAge), NumPrompts) :
        SampleReturns(NumPrompts, version, MaxAge, sel)
  BY DEF Sample
<1>2. /\ groups' = groups \ sel /\ sel \subseteq groups
      /\ Cardinality(sel) = NumPrompts /\ \A g \in sel : g.tgt = version
  BY <1>1 DEF SampleReturns, Oldest, Intended
<1>3. /\ UNCHANGED <<col, worker, version>> /\ tpc = "sample" /\ tpc' = "train"
  BY DEF Sample, Goto, QuietCollector, threadVars
<1>4. CarriersFor(t)' = CarriersFor(t) /\ ToSpawn(t)' = ToSpawn(t)
  BY <1>3 DEF CarriersFor, Carries, ToSpawn, Spawning
<1>5. InSystem(t) = Cardinality(GroupsFor(t)) + Cardinality(CarriersFor(t)) + ToSpawn(t)
  BY DEF InSystem, GroupsFor, CarriersFor
<1>6. InSystem(t)' = Cardinality(GroupsFor(t)') + Cardinality(CarriersFor(t)') + ToSpawn(t)'
  BY DEF InSystem, GroupsFor, CarriersFor
<1>7. CASE t = version
  <2>1. Given(t) = 0 /\ Given(t)' = NumPrompts
    BY <1>c, <1>3, <1>7 DEF Given, Taken
  <2>2. GroupsFor(t)' = GroupsFor(t) \ sel /\ GroupsFor(t) \cap sel = sel
    BY <1>2, <1>7 DEF GroupsFor
  <2>3. Cardinality(GroupsFor(t) \ sel) = Cardinality(GroupsFor(t)) - NumPrompts
    <3>1. IsFiniteSet(GroupsFor(t))
      BY <1>c
    <3>2. PICK S : S = GroupsFor(t)
      OBVIOUS
    <3>3. Cardinality(S \ sel) = Cardinality(S) - Cardinality(S \cap sel)
      BY ONLY <3>1, <3>2, FS_Difference
    <3> QED
      BY <1>2, <2>2, <3>2, <3>3
  <2> QED
    BY <1>c, <1>4, <1>5, <1>6, <2>1, <2>2, <2>3
<1>8. CASE t # version
  <2>1. Given(t)' = Given(t)
    BY <1>3, <1>8 DEF Given, Taken
  <2>2. GroupsFor(t)' = GroupsFor(t)
    BY <1>2, <1>8 DEF GroupsFor
  <2> QED
    BY <1>4, <1>5, <1>6, <2>1, <2>2
<1> QED
  BY <1>7, <1>8

\* The trainer takes the groups of a target, or aborts.
LEMMA TrainerMoved ==
  ASSUME GroupsInv, Trainer, NEW t \in Targets
  PROVE  \/ InSystem(t)' + Given(t)' = InSystem(t) + Given(t)
         \/ /\ InSystem(t)' = InSystem(t) /\ Given(t)' <= Given(t)
            /\ tpc' = "aborted"
<1>c. version \in Nat /\ Targets \subseteq Nat
  BY GroupsFacts, CollectorAssumption
<1>1. CASE Sample
  BY <1>1, SampleCounts
<1>2. CASE ~Sample
  <2>1. UNCHANGED <<groups, col, worker>>
    BY <1>2 DEF Trainer, Boot, InitialRefit, TrainerRaises, InitialValidation,
       InitialValidationDone, BufferReady, SampleFails, Train, ReadyForRefit, Refit,
       Validation, ValidationDone, Save, SkipSave, SaveDone, PauseFor, ResumeAfter,
       Submit, QuietCollector, threadVars, bufferVars
  <2>2. InSystem(t)' = InSystem(t)
    BY <2>1 DEF InSystem, Carries, ToSpawn, Spawning
  <2>3. CASE TrainerRaises \/ SampleFails
    <3>1. tpc' = "aborted" /\ version' = version
      BY <2>3 DEF TrainerRaises, SampleFails, Goto
    <3>2. Given(t)' <= Given(t)
      BY <3>1, Constants DEF Given, Taken
    <3> QED
      BY <2>2, <3>1, <3>2
  <2>4. CASE Refit
    <3>1. tpc = "refit" /\ tpc' \in {"val", "save"} /\ version' = version + 1
      BY <2>4 DEF Refit, Goto
    <3>2. Taken(t)' <=> Taken(t)
      BY <1>c, <3>1 DEF Taken
    <3> QED
      BY <2>2, <3>2 DEF Given
  <2>5. CASE ~Refit /\ ~TrainerRaises /\ ~SampleFails
    <3>1. /\ version' = version
          /\ \/ tpc \in {"train", "prep"} /\ tpc' \in {"prep", "refit"}
             \/ /\ tpc \notin {"train", "prep", "refit"}
                /\ tpc' \notin {"train", "prep", "refit"}
      BY <1>2, <2>5 DEF Trainer, Boot, InitialRefit, InitialValidation,
         InitialValidationDone, BufferReady, Train, ReadyForRefit, Validation,
         ValidationDone, Save, SkipSave, SaveDone, PauseFor, ResumeAfter, EndStep,
         Goto
    <3>2. Taken(t)' <=> Taken(t)
      BY <3>1 DEF Taken
    <3> QED
      BY <2>2, <3>2 DEF Given
  <2> QED
    BY <2>3, <2>4, <2>5
<1> QED
  BY <1>1, <1>2

\* So it keeps the claims.
LEMMA TrainerCounts ==
  ASSUME GroupsInv, [Next]_vars, Trainer
  PROVE  Claims' /\ NoGroupLost'
<1>1. UNCHANGED <<col, claimed, failures>> /\ tpc # "aborted"
  BY DEF Trainer, Boot, InitialRefit, TrainerRaises, InitialValidation,
     InitialValidationDone, BufferReady, Sample, SampleFails, Train,
     ReadyForRefit, Refit, Validation, ValidationDone, Save, SkipSave, SaveDone,
     PauseFor, ResumeAfter, Submit, QuietCollector, threadVars
<1>2. ASSUME NEW t \in Targets
      PROVE  /\ InSystem(t) \in Nat /\ InSystem(t)' \in Nat
             /\ Given(t) \in Nat /\ Given(t)' \in Nat
             /\ NumPrompts * claimed[t] \in Nat
  <2>1. /\ TypeInv /\ claimed[t] \in Nat /\ NumPrompts \in Nat
    BY GroupsFacts, Constants
  <2>2. Given(t)' \in Nat
    BY <2>1 DEF Given
  <2>3. \A n \in Nat : NumPrompts * n \in Nat
    BY <2>1
  <2> QED
    BY <2>1, <2>2, <2>3, Counts, CountedNext, GivenNat
<1>3. Claims'
  <2> SUFFICES ASSUME NEW t \in Targets
               PROVE  InSystem(t)' + Given(t)' <= NumPrompts * claimed'[t]
    BY DEF Claims
  <2>1. InSystem(t) + Given(t) <= NumPrompts * claimed[t]
    BY DEF GroupsInv, Claims
  <2> QED
    BY <1>1, <1>2, <2>1, TrainerMoved
<1>4. NoGroupLost'
  <2> SUFFICES ASSUME failures' = 0, col'.pc # "stopped", tpc' # "aborted",
                      NEW t \in Targets
               PROVE  InSystem(t)' + Given(t)' = NumPrompts * claimed'[t]
    BY DEF NoGroupLost, Given
  <2>1. InSystem(t) + Given(t) = NumPrompts * claimed[t]
    BY <1>1 DEF GroupsInv, NoGroupLost, Given
  <2> QED
    BY <1>1, <1>2, <2>1, TrainerMoved
<1> QED
  BY <1>3, <1>4

-----------------------------------------------------------------------------
(* The invariant.                                                          *)

\* The invariant holds at the start.
LEMMA GroupsInit == Init => GroupsInv
<1> SUFFICES ASSUME Init PROVE GroupsInv
  OBVIOUS
<1>1. LabelInv /\ ReservationInv /\ StepwiseInv
  BY LabelInit, ReservationInit, StepwiseInit
<1>2. /\ groups = {} /\ \A w \in Slots : worker[w] = IdleWorker
      /\ col.pc = "off" /\ col.tgt = StartStep /\ col.ver = StartStep
      /\ version = StartStep /\ tpc = "boot"
      /\ \A t \in Targets : claimed[t] = 0
  BY DEF Init, BufferInit, CollectorInit, TrainerInit
<1>3. TargetsKnown
  BY <1>2, Constants, TargetRange DEF TargetsKnown, IdleWorker, LastVersion
<1>4. RunningInv
  BY <1>2 DEF RunningInv, IdleWorker
<1>5. ASSUME NEW t \in Targets PROVE InSystem(t) + Given(t) = NumPrompts * claimed[t]
  <2>1. GroupsFor(t) = {} /\ CarriersFor(t) = {}
    BY <1>2 DEF GroupsFor, CarriersFor, Carries, IdleWorker
  <2>2. Cardinality(GroupsFor(t)) = 0 /\ Cardinality(CarriersFor(t)) = 0
    BY <2>1, FS_EmptySet
  <2>3. ToSpawn(t) = 0
    BY <1>2 DEF ToSpawn, Spawning
  <2>4. InSystem(t) = 0
    BY <2>2, <2>3 DEF InSystem, GroupsFor, CarriersFor
  <2>5. StartStep <= t /\ t \in Nat
    BY Constants, TargetRange
  <2>6. Given(t) = 0
    BY <1>2, <2>5, Constants DEF Given, Taken
  <2> QED
    BY <1>2, <2>4, <2>6, Constants
<1>6. Claims /\ NoGroupLost
  <2>1. \A t \in Targets : NumPrompts * claimed[t] = 0
    BY <1>2, Constants
  <2> QED
    BY <1>5, <2>1 DEF Claims, NoGroupLost, Given
<1> QED
  BY <1>1, <1>3, <1>4, <1>6 DEF GroupsInv

\* Every step keeps it.
LEMMA GroupsNext == GroupsInv /\ [Next]_vars => GroupsInv'
<1> SUFFICES ASSUME GroupsInv, [Next]_vars PROVE GroupsInv'
  OBVIOUS
<1>1. LabelInv' /\ ReservationInv' /\ StepwiseInv'
  BY LabelNext, TypeNext, StartedNext, HeldNext, StepwiseStep
  DEF GroupsInv, ReservationInv
<1>2. RunningInv'
  BY RunningNext
<1>3. CASE Trainer
  BY <1>1, <1>2, <1>3, TargetsTrainer, TrainerCounts DEF GroupsInv
<1>4. CASE CollectorStep
  <2>1. TargetsKnown'
    BY <1>4, TargetsCollection, TargetsActor, TargetsWorker DEF CollectorStep
  <2> QED
    BY <1>1, <1>2, <1>4, <2>1, CollectorCounts DEF GroupsInv
<1>5. CASE UNCHANGED vars
  <2>1. UNCHANGED <<groups, worker, col, version, tpc, claimed, failures>>
    BY <1>5 DEF vars, bufferVars, collectorVars, threadVars, trainerVars
  <2>2. TargetsKnown'
    BY <2>1 DEF GroupsInv, TargetsKnown
  <2>3. \A t : InSystem(t)' = InSystem(t) /\ Given(t)' = Given(t)
    BY <2>1 DEF InSystem, Given, Taken, Carries, ToSpawn, Spawning
  <2>4. Claims' /\ NoGroupLost'
    BY <2>1, <2>3 DEF GroupsInv, Claims, NoGroupLost, Given
  <2> QED
    BY <1>1, <1>2, <2>2, <2>4 DEF GroupsInv
<1> QED
  BY <1>3, <1>4, <1>5 DEF Next

-----------------------------------------------------------------------------
(* What follows from it.                                                   *)

\* However rollouts are delayed, wait for a refit or for room in the buffer,
\* groups only disappear when a rollout raises, collection stops or the run is
\* aborted (_process_batch, _run_prompt_group_worker).
THEOREM NothingDisappears == Spec => []NoGroupLost
<1>1. GroupsInv => NoGroupLost
  BY DEF GroupsInv
<1> QED
  BY <1>1, GroupsInit, GroupsNext, PTL DEF Spec

\* A target that was claimed once has no more groups than a step needs.
LEMMA ClaimedAtMostOnce ==
  ASSUME GroupsInv, ~DoubleClaim, NEW t \in Targets
  PROVE  /\ InSystem(t) + Given(t) <= NumPrompts
         /\ Cardinality(GroupsFor(t)) + Cardinality(CarriersFor(t)) <= NumPrompts
<1>1. /\ claimed[t] \in Nat /\ NumPrompts \in Nat /\ TypeInv
      /\ InSystem(t) + Given(t) <= NumPrompts * claimed[t]
  BY GroupsFacts, Constants DEF GroupsInv, Claims
<1>2. claimed[t] \in {0, 1}
  <2>1. ~(claimed[t] > 1)
    BY DEF DoubleClaim
  <2>2. claimed[t] \in Nat
    BY <1>1
  <2> QED
    BY <2>1, <2>2
<1>3. NumPrompts * 0 = 0 /\ NumPrompts * 1 = NumPrompts
  BY <1>1
<1>4. InSystem(t) + Given(t) <= NumPrompts
  BY <1>1, <1>2, <1>3, GivenNat, Counts
<1> QED
  BY <1>1, <1>4, GivenNat, Counts

\* A target whose turn has passed has no groups left in the buffer.
LEMMA Overtaking == GroupsInv => NotOvertaken
<1> SUFFICES ASSUME GroupsInv, ~DoubleClaim
             PROVE  /\ \A g \in groups : version <= g.tgt
                    /\ \A w \in Slots : Carries(w) => version <= worker[w].tgt
                    /\ ToSpawn(col.tgt) > 0 => version <= col.tgt
  BY DEF NotOvertaken
<1>c. /\ TypeInv /\ version \in Nat /\ Targets \subseteq Nat /\ TargetsKnown
  BY GroupsFacts, CollectorAssumption DEF GroupsInv
<1>1. ASSUME NEW t \in Targets, t < version
      PROVE  GroupsFor(t) = {} /\ CarriersFor(t) = {} /\ ToSpawn(t) = 0
  <2>1. Given(t) = NumPrompts
    BY <1>1 DEF Given, Taken
  <2>2. /\ IsFiniteSet(GroupsFor(t)) /\ Cardinality(GroupsFor(t)) = 0
        /\ IsFiniteSet(CarriersFor(t)) /\ Cardinality(CarriersFor(t)) = 0
        /\ ToSpawn(t) = 0
    BY <1>c, <2>1, Counts, ClaimedAtMostOnce, Constants
  <2> QED
    BY <2>2, FS_EmptySet
<1>2. ASSUME NEW g \in groups PROVE version <= g.tgt
  <2>1. g.tgt \in Targets /\ g.tgt \in Nat /\ g \in GroupsFor(g.tgt)
    BY <1>c DEF GroupsFor, TargetsKnown
  <2>2. ~(g.tgt < version)
    BY <1>1, <2>1
  <2> QED
    BY <1>c, <2>1, <2>2
<1>3. ASSUME NEW w \in Slots, Carries(w) PROVE version <= worker[w].tgt
  <2>1. /\ worker[w].tgt \in Targets /\ worker[w].tgt \in Nat
        /\ w \in CarriersFor(worker[w].tgt)
    BY <1>c, <1>3 DEF CarriersFor, TargetsKnown
  <2>2. ~(worker[w].tgt < version)
    BY <1>1, <2>1
  <2> QED
    BY <1>c, <2>1, <2>2
<1>4. ToSpawn(col.tgt) > 0 => version <= col.tgt
  <2>1. col.tgt \in Targets /\ col.tgt \in Nat
    BY <1>c DEF TargetsKnown
  <2>2. col.tgt < version => ToSpawn(col.tgt) = 0
    BY <1>1, <2>1
  <2> QED
    BY <1>c, <2>1, <2>2
<1> QED
  BY <1>2, <1>3, <1>4

\* Unless a target is claimed twice, no group is for a step the trainer is past
\* (_get_next_target_for_generation, async_grpo_train).
THEOREM NeverOvertaken == Spec => []NotOvertaken
BY Overtaking, GroupsInit, GroupsNext, PTL DEF Spec

\* ... and no group is labelled with a version newer than its step: what the
\* collector knows is not ahead of the trainer.
THEOREM LabelsReachTheirStep == Spec => []LabelNotPastTarget
<1>1. ASSUME GroupsInv PROVE LabelNotPastTarget
  <2>1. /\ curVersion \in Nat /\ version \in Nat /\ curVersion <= version
        /\ \A g \in groups : g.ver \in Nat /\ g.ver <= curVersion /\ g.tgt \in Nat
        /\ \A w \in Slots : /\ worker[w].ver \in Nat /\ worker[w].ver <= curVersion
                            /\ worker[w].tgt \in Nat
    BY <1>1, GroupsFacts DEF GroupsInv, LabelInv, LabelsKnown, WorkerState, Group
  <2>2. NotOvertaken
    BY <1>1, Overtaking
  <2> QED
    BY <2>1, <2>2 DEF NotOvertaken, LabelNotPastTarget
<1> QED
  BY <1>1, GroupsInit, GroupsNext, PTL DEF Spec

\* ... and sample never meets an entry that is older than the age window.
THEOREM StaleNeedsDoubleClaim == Spec => []StaleOnlyAfterDoubleClaim
<1>1. ASSUME GroupsInv PROVE StaleOnlyAfterDoubleClaim
  <2> SUFFICES ASSUME ~DoubleClaim, NEW g \in groups, g.ver < MinValidVersion(version, MaxAge)
               PROVE  FALSE
    BY DEF StaleOnlyAfterDoubleClaim, SampleRaises, TooOld
  <2>1. /\ version \in Nat /\ g.ver \in Nat /\ g.tgt \in Nat /\ MaxAge \in Nat
        /\ g.tgt <= g.ver + MaxAge
    BY <1>1, GroupsFacts, Constants DEF GroupsInv, LabelInv, AgeWindow, Group
  <2>2. version <= g.tgt
    BY <1>1, Overtaking DEF NotOvertaken
  <2> QED
    BY <2>1, <2>2 DEF MinValidVersion
<1> QED
  BY <1>1, GroupsInit, GroupsNext, PTL DEF Spec

\* The place of a group: its target and how many groups for it came before.
Earlier(g) == {h \in groups : h.tgt = g.tgt /\ h.no <= g.no}
Place(g) == <<g.tgt, Cardinality(Earlier(g))>>

\* The groups of a target up to one of them are finitely many, that one
\* included.
LEMMA EarlierFacts ==
  ASSUME GroupsInv, NEW g \in groups
  PROVE  /\ IsFiniteSet(Earlier(g)) /\ Cardinality(Earlier(g)) \in Nat
         /\ Cardinality(Earlier(g)) > 0
         /\ Cardinality(Earlier(g)) <= Cardinality(GroupsFor(g.tgt))
<1>1. TypeInv /\ g.no \in Nat
  BY GroupsFacts DEF Group
<1>2. Earlier(g) \in SUBSET GroupsFor(g.tgt) /\ g \in Earlier(g)
  BY <1>1 DEF Earlier, GroupsFor
<1>3. IsFiniteSet(GroupsFor(g.tgt))
  BY <1>1, Counts
<1>4. /\ IsFiniteSet(Earlier(g)) /\ Cardinality(Earlier(g)) \in Nat
      /\ Cardinality(Earlier(g)) <= Cardinality(GroupsFor(g.tgt))
  BY <1>2, <1>3, FS_Subset, FS_CardinalityType
<1>5. Cardinality(Earlier(g)) # 0
  BY <1>2, <1>4, FS_EmptySet
<1> QED
  BY <1>4, <1>5

\* Two groups in the buffer have different places.
LEMMA PlacesDiffer ==
  ASSUME GroupsInv, NEW g \in groups, NEW h \in groups, Place(g) = Place(h)
  PROVE  g = h
<1>1. /\ g.no \in Nat /\ h.no \in Nat /\ NumbersKnown
      /\ g.tgt = h.tgt /\ Cardinality(Earlier(g)) = Cardinality(Earlier(h))
  BY GroupsFacts DEF Group, Place
<1>2. ASSUME NEW a \in groups, NEW b \in groups, a.tgt = b.tgt, a.no < b.no,
             a.no \in Nat, b.no \in Nat
      PROVE  Cardinality(Earlier(a)) # Cardinality(Earlier(b))
  <2>1. Earlier(a) \in SUBSET Earlier(b) /\ b \in Earlier(b) /\ b \notin Earlier(a)
    BY <1>2, GroupsFacts DEF Earlier, Group
  <2> QED
    BY <2>1, EarlierFacts, FS_Subset
<1>3. g.no = h.no
  BY <1>1, <1>2
<1> QED
  BY <1>1, <1>3 DEF NumbersKnown

\* A group that is carried has its own place, so the groups that are buffered
\* are fewer than the places of MaxAge + 1 targets.
LEMMA Room ==
  ASSUME GroupsInv, ~DoubleClaim, NEW w \in Slots, Carries(w)
  PROVE  ~BufferFull
<1> DEFINE T == version..version + MaxAge
           t == worker[w].tgt
           places == T \X (1..NumPrompts)
           f == [g \in groups |-> Place(g)]
<1>c. /\ TypeInv /\ version \in Nat /\ MaxAge \in Nat /\ MaxAge > 0
      /\ NumPrompts \in Nat /\ NumPrompts > 0 /\ NotOvertaken
      /\ IsFiniteSet(groups) /\ MaxSize = NumPrompts * MaxAge * 2
      /\ TargetsKnown
  BY GroupsFacts, Constants, TargetRange, Overtaking DEF GroupsInv
<1>1. \A g \in groups : g.tgt \in T
  <2> SUFFICES ASSUME NEW g \in groups PROVE g.tgt \in T
    OBVIOUS
  <2>1. /\ g.tgt <= g.ver + MaxAge /\ g.ver <= curVersion /\ curVersion <= version
        /\ g.tgt \in Nat /\ g.ver \in Nat /\ curVersion \in Nat
    BY GroupsFacts DEF GroupsInv, LabelInv, AgeWindow, LabelsKnown, Group
  <2> QED
    BY <1>c, <2>1 DEF NotOvertaken
<1>2. t \in T /\ t \in Targets
  <2>1. /\ t <= worker[w].ver + MaxAge /\ worker[w].ver <= curVersion
        /\ curVersion <= version /\ t \in Nat /\ worker[w].ver \in Nat
        /\ curVersion \in Nat
    BY GroupsFacts DEF GroupsInv, LabelInv, AgeWindow, LabelsKnown, WorkerState
  <2> QED
    BY <1>c, <2>1 DEF NotOvertaken, TargetsKnown
<1>3. IsFiniteSet(places) /\ Cardinality(places) = (MaxAge + 1) * NumPrompts
  <2>1. /\ IsFiniteSet(T) /\ Cardinality(T) = MaxAge + 1
        /\ IsFiniteSet(1..NumPrompts) /\ Cardinality(1..NumPrompts) = NumPrompts
    BY <1>c, FS_Interval
  <2>2. PICK S : S = T
    OBVIOUS
  <2>3. /\ IsFiniteSet(S \X (1..NumPrompts))
        /\ Cardinality(S \X (1..NumPrompts)) = Cardinality(S) * Cardinality(1..NumPrompts)
    BY <2>1, <2>2, FS_Product, Zenon
  <2> QED
    BY <2>1, <2>2, <2>3
<1>4. \A g \in groups : Place(g) \in places \ {<<t, NumPrompts>>}
  <2> SUFFICES ASSUME NEW g \in groups PROVE Place(g) \in places \ {<<t, NumPrompts>>}
    OBVIOUS
  <2>1. g.tgt \in Targets
    BY <1>c DEF TargetsKnown
  <2>2. /\ Cardinality(Earlier(g)) \in Nat /\ Cardinality(Earlier(g)) > 0
        /\ Cardinality(Earlier(g)) <= Cardinality(GroupsFor(g.tgt))
        /\ Cardinality(GroupsFor(g.tgt)) \in Nat
        /\ Cardinality(CarriersFor(g.tgt)) \in Nat
        /\ Cardinality(GroupsFor(g.tgt)) + Cardinality(CarriersFor(g.tgt)) <= NumPrompts
    BY <1>c, <2>1, EarlierFacts, Counts, ClaimedAtMostOnce
  <2>3. g.tgt = t => Cardinality(CarriersFor(g.tgt)) # 0
    <3>1. g.tgt = t => w \in CarriersFor(g.tgt)
      BY DEF CarriersFor
    <3>2. IsFiniteSet(CarriersFor(g.tgt))
      BY <1>c, Counts
    <3> QED
      BY <3>1, <3>2, FS_EmptySet
  <2>4. Cardinality(Earlier(g)) \in 1..NumPrompts
    BY <1>c, <2>2
  <2>5. g.tgt = t => Cardinality(Earlier(g)) # NumPrompts
    BY <1>c, <2>2, <2>3
  <2> HIDE DEF T, t
  <2> QED
    BY <1>1, <2>4, <2>5 DEF Place
<1> HIDE DEF t, places
<1>5. Cardinality(groups) <= Cardinality(places \ {<<t, NumPrompts>>})
  <2>1. f \in Injection(groups, places \ {<<t, NumPrompts>>})
    BY <1>4, PlacesDiffer DEF Injection, IsInjective
  <2>2. IsFiniteSet(places \ {<<t, NumPrompts>>})
    BY <1>3, FS_RemoveElement
  <2> QED
    BY <2>1, <2>2, FS_Injection
<1>6. Cardinality(places \ {<<t, NumPrompts>>}) = (MaxAge + 1) * NumPrompts - 1
  <2>1. <<t, NumPrompts>> \in places
    BY <1>c, <1>2 DEF t, places
  <2> QED
    BY <1>3, <2>1, FS_RemoveElement
<1>7. (MaxAge + 1) * NumPrompts <= NumPrompts * MaxAge * 2
  <2>1. (MaxAge + 1) * NumPrompts = NumPrompts * MaxAge + NumPrompts
    BY <1>c
  <2>2. NumPrompts <= NumPrompts * MaxAge /\ NumPrompts * MaxAge \in Nat
    BY <1>c
  <2> QED
    BY <1>c, <2>1, <2>2
<1>8. Cardinality(groups) \in Nat /\ (MaxAge + 1) * NumPrompts \in Nat
  BY <1>c, FS_CardinalityType
<1> QED
  BY <1>c, <1>5, <1>6, <1>7, <1>8 DEF BufferFull

\* ... and no worker ever finds the buffer full: its capacity is enough for all
\* groups of the steps in the age window.
THEOREM RoomForAll == Spec => []CapacityEnough
<1>1. GroupsInv => CapacityEnough
  BY Room DEF CapacityEnough
<1> QED
  BY <1>1, GroupsInit, GroupsNext, PTL DEF Spec

=============================================================================
