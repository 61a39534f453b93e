---------------------------- MODULE ReplayBuffer ----------------------------
(***************************************************************************)
(* The replay buffer actor of asynchronous GRPO                            *)
(* (nemo_rl/algorithms/async_utils.py, class ReplayBuffer).                *)
(*                                                                         *)
(* An entry is one prompt group: the rollouts of one prompt, labelled with *)
(* the weight version they were generated with (ver) and the trainer       *)
(* version they are meant for (tgt).  The code keeps three parallel lists; *)
(* here an entry is one record that also carries its arrival number, so    *)
(* that list order is order of arrival.  Module ReplayBufferLists models   *)
(* the three lists and is checked to implement this module.                *)
(*                                                                         *)
(* The actor runs one method at a time and every method holds _lock, so    *)
(* every operation is one action.                                          *)
(***************************************************************************)
EXTENDS Integers, FiniteSets

CONSTANT MaxSize        \* capacity, in prompt groups

ASSUME MaxSizeAssumption == MaxSize \in Nat \ {0}

VARIABLES
  groups,       \* the buffered prompt groups
  lastTarget,   \* last_target_weight_already_generated
  arrivals      \* number of groups ever accepted

bufferVars == <<groups, lastTarget, arrivals>>

NoTarget == -1

Group == [no : Nat, ver : Nat, tgt : Nat]

BufferInit ==
  /\ groups = {}
  /\ lastTarget = NoTarget
  /\ arrivals = 0

BufferTypeOK ==
  /\ groups \subseteq Group
  /\ IsFiniteSet(groups)
  /\ lastTarget \in Nat \cup {NoTarget}
  /\ arrivals \in Nat

-----------------------------------------------------------------------------
(* push_with_wait_signal: the "success" and the "full" answers.            *)

BufferFull == Cardinality(groups) >= MaxSize

Push(ver, tgt) ==
  /\ ~BufferFull
  /\ groups' = groups \cup {[no |-> arrivals + 1, ver |-> ver, tgt |-> tgt]}
  /\ lastTarget' = IF tgt > lastTarget THEN tgt ELSE lastTarget
  /\ arrivals' = arrivals + 1

(* sample: it raises when any entry is older than the age window, answers  *)
(* None when fewer than n entries are meant for the current version, and   *)
(* otherwise removes and returns the n of them that arrived first.         *)

\* Mutant: the window starts one version late.
LateWindow(cur, age) == IF cur - age >= 0 THEN cur - age + 1 ELSE 0

MinValidVersion(cur, age) == IF cur - age > 0 THEN cur - age ELSE 0

TooOld(cur, age) == {g \in groups : g.ver < MinValidVersion(cur, age)}

\* Mutant: any entry in the window is taken, whatever step it is meant for.
AnyInWindow(cur, age) ==
  {g \in groups : MinValidVersion(cur, age) <= g.ver /\ g.ver <= cur}

Intended(cur, age) ==
  {g \in groups : /\ MinValidVersion(cur, age) <= g.ver
                  /\ g.ver <= cur
                  /\ g.tgt = cur}

\* Mutant: when there are fewer than n entries, those are taken.
AtMostOldest(S, n) ==
  {sel \in SUBSET S : /\ sel # {}
                      /\ Cardinality(sel) = n \/ (sel = S /\ Cardinality(S) < n)
                      /\ \A g \in sel, h \in S \ sel : g.no < h.no}

Oldest(S, n) ==
  {sel \in SUBSET S : /\ Cardinality(sel) = n
                      /\ \A g \in sel, h \in S \ sel : g.no < h.no}

SampleRaises(cur, age) == TooOld(cur, age) # {}

\* Mutant: the returned entries stay in the buffer.
SampleKeeps(n, cur, age, sel) ==
  /\ ~SampleRaises(cur, age)
  /\ sel \in Oldest(Intended(cur, age), n)
  /\ UNCHANGED bufferVars

\* Intended is a subset of the entries in the window, so the code's earlier
\* test on the size of that larger set adds nothing to the last one.
SampleReturns(n, cur, age, sel) ==
  /\ ~SampleRaises(cur, age)
  /\ sel \in Oldest(Intended(cur, age), n)
  /\ groups' = groups \ sel
  /\ UNCHANGED <<lastTarget, arrivals>>

ClearBuffer ==
  /\ groups' = {}
  /\ UNCHANGED <<lastTarget, arrivals>>
=============================================================================
