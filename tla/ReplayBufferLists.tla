------------------------- MODULE ReplayBufferLists -------------------------
(***************************************************************************)
(* The replay buffer as the code keeps it: three parallel lists that every *)
(* method indexes together (nemo_rl/algorithms/async_utils.py, class       *)
(* ReplayBuffer).  Its clients push, sample and clear in any order.  It    *)
(* implements ReplayBuffer, the set of labelled groups that the rest of    *)
(* the specification uses (ReplayBufferLists_proofs).                      *)
(*                                                                         *)
(* A trajectory is represented by its arrival number: it tells which group *)
(* a list position holds after the others have moved.                      *)
(***************************************************************************)
EXTENDS Integers, Sequences, SequencesExt

CONSTANTS
  MaxSize,        \* capacity, in prompt groups
  Versions,       \* versions the clients use, in labels and in sample
  Counts,         \* numbers of groups they sample
  MaxAge,         \* max_age_steps
  MaxArrivals     \* bound on the accepted pushes

ASSUME ListsAssumption ==
  /\ MaxSize \in Nat \ {0} /\ MaxAge \in Nat
  /\ Versions \subseteq Nat /\ Counts \subseteq Nat

VARIABLES
  trajectories, trajectory_versions, target_weight_versions,  \* the lists
  last_target_weight_already_generated,
  arrivals,       \* number of groups ever accepted
  reply           \* what the last call returned

lists == <<trajectories, trajectory_versions, target_weight_versions>>
listVars == <<lists, last_target_weight_already_generated, arrivals, reply>>

\* Answers other than the sampled groups.
NoGroups == <<>>

ListsInit ==
  /\ trajectories = <<>>
  /\ trajectory_versions = <<>>
  /\ target_weight_versions = <<>>
  /\ last_target_weight_already_generated = -1
  /\ arrivals = 0
  /\ reply = NoGroups

PushWithWaitSignal(ver, tgt) ==
  /\ arrivals < MaxArrivals
  /\ Len(trajectories) < MaxSize
  /\ trajectories' = Append(trajectories, arrivals + 1)
  /\ trajectory_versions' = Append(trajectory_versions, ver)
  /\ target_weight_versions' = Append(target_weight_versions, tgt)
  /\ last_target_weight_already_generated' =
       Max({last_target_weight_already_generated, tgt})
  /\ arrivals' = arrivals + 1
  /\ reply' = NoGroups

MinValid(cur) == Max({0, cur - MaxAge})

Stale(cur) ==
  \E i \in DOMAIN trajectories : trajectory_versions[i] < MinValid(cur)

\* The positions meant for the version, in ascending order.
IntendedIndices(cur) ==
  LET Meant(i) == /\ trajectory_versions[i] \in MinValid(cur) .. cur
                  /\ target_weight_versions[i] = cur
  IN  FoldLeftDomain(LAMBDA found, i : IF Meant(i) THEN Append(found, i) ELSE found,
                     <<>>, trajectories)

\* Mutant: the positions are popped in ascending order, so that every pop
\* shifts the positions still to be popped.
PopAscending(list, indices) ==
  FoldLeft(LAMBDA acc, i : RemoveAt(acc, i), list, indices)

\* for idx in sorted(selected, reverse=True): list.pop(idx)
PopAll(list, indices) ==
  LET m == Len(indices)
      left[k \in 0..m] ==
        IF k = 0 THEN list ELSE RemoveAt(left[k - 1], indices[m - k + 1])
  IN  left[m]

\* Mutant: one of the lists keeps the entries.
SampleForgetsTargets(n, cur) ==
  /\ ~Stale(cur)
  /\ Len(IntendedIndices(cur)) >= n
  /\ LET selected == SubSeq(IntendedIndices(cur), 1, n) IN
       /\ reply' = [i \in 1..n |-> trajectories[selected[i]]]
       /\ trajectories' = PopAll(trajectories, selected)
       /\ trajectory_versions' = PopAll(trajectory_versions, selected)
  /\ UNCHANGED <<target_weight_versions, last_target_weight_already_generated,
                 arrivals>>

Sample(n, cur) ==
  /\ ~Stale(cur)
  /\ Len(IntendedIndices(cur)) >= n
  /\ LET selected == SubSeq(IntendedIndices(cur), 1, n) IN
       /\ reply' = [i \in 1..n |-> trajectories[selected[i]]]
       /\ trajectories' = PopAll(trajectories, selected)
       /\ trajectory_versions' = PopAll(trajectory_versions, selected)
       /\ target_weight_versions' = PopAll(target_weight_versions, selected)
  /\ UNCHANGED <<last_target_weight_already_generated, arrivals>>

Clear ==
  /\ trajectories' = <<>>
  /\ trajectory_versions' = <<>>
  /\ target_weight_versions' = <<>>
  /\ reply' = NoGroups
  /\ UNCHANGED <<last_target_weight_already_generated, arrivals>>

ListsNext ==
  \/ \E ver, tgt \in Versions : PushWithWaitSignal(ver, tgt)
  \/ \E n \in Counts, cur \in Versions : Sample(n, cur)
  \/ Clear

ListsSpec == ListsInit /\ [][ListsNext]_listVars

-----------------------------------------------------------------------------
\* The labelled group at a position.
GroupAt(i) == [no |-> trajectories[i], ver |-> trajectory_versions[i],
               tgt |-> target_weight_versions[i]]

Buffer == INSTANCE ReplayBuffer WITH
            groups <- {GroupAt(i) : i \in DOMAIN trajectories},
            lastTarget <- last_target_weight_already_generated

\* The three lists have the same length at every step, whichever positions
\* were removed, and hold the groups in order of arrival.
ListsTypeOK ==
  /\ Len(trajectory_versions) = Len(trajectories)
  /\ Len(target_weight_versions) = Len(trajectories)
  /\ \A i, j \in DOMAIN trajectories : i < j => trajectories[i] < trajectories[j]
  /\ Buffer!BufferTypeOK

\* Every call on the lists is a call on the set of labelled groups: a push
\* adds one group, a sample removes exactly the groups it returned, the
\* oldest of those meant for the version, with the labels they were pushed
\* with, and nothing else touches the buffer.
ImplementsBuffer ==
  /\ Buffer!BufferInit
  /\ [][\/ \E ver, tgt \in Versions : Buffer!Push(ver, tgt)
        \/ \E n \in Counts, cur \in Versions :
             \E sel \in SUBSET {GroupAt(i) : i \in DOMAIN trajectories} :
               /\ Buffer!SampleReturns(n, cur, MaxAge, sel)
               /\ {g.no : g \in sel} = ToSet(reply')
        \/ Buffer!ClearBuffer]_(Buffer!bufferVars)
=============================================================================
