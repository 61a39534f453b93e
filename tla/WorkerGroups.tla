---------------------------- MODULE WorkerGroups ----------------------------
(***************************************************************************)
(* NamedSharding and RayWorkerGroup of nemo_rl/distributed: workers laid   *)
(* out along named axes, the part of a sharded argument each is called     *)
(* with, and the workers whose results are returned.                       *)
(***************************************************************************)
EXTENDS Integers, Sequences, SequencesExt

CONSTANTS Axes,      \* the names of the axes, outermost first
          AxisSize   \* a function from the names to the sizes

\* The layout counts the workers row by row: how far neighbours along axis i
\* are apart, and for 0 how many workers there are.
Stride[i \in 0..Len(Axes)] ==
  IF i = Len(Axes) THEN 1 ELSE AxisSize[Axes[i + 1]] * Stride[i + 1]

Workers == 0..(Stride[0] - 1)

\* get_worker_coords
Coord(w, axis) ==
  LET i == CHOOSE i \in 1..Len(Axes) : Axes[i] = axis
  IN  (w \div Stride[i]) % AxisSize[axis]

\* get_ranks_by_coord: the workers that differ from w at most along the axes.
Along(w, axes) ==
  {v \in Workers : \A a \in {Axes[i] : i \in 1..Len(Axes)} \ axes :
                     Coord(v, a) = Coord(w, a)}

\* Mutant: replicate_on_axes is forgotten.
CalledAtZero(sharded, replicated) ==
  {w \in Workers : \A i \in 1..Len(Axes) :
     Axes[i] \in sharded \/ Coord(w, Axes[i]) = 0}

\* run_all_workers_sharded_data: of an axis neither sharded nor replicated
\* only the workers at 0 are called.
Called(sharded, replicated) ==
  {w \in Workers : \A i \in 1..Len(Axes) :
     Axes[i] \in sharded \cup replicated \/ Coord(w, Axes[i]) = 0}

\* The elements of a sequence that are in a set.
Kept(seq, set) ==
  FoldLeft(LAMBDA kept, x : IF x \in set THEN Append(kept, x) ELSE kept,
           <<>>, seq)

\* The called workers whose results are returned, in order.
Returning(sharded, replicated, outputReplicated) ==
  Kept([i \in 1..Stride[0] |-> i - 1],
       {w \in Called(sharded, replicated) :
          \A a \in outputReplicated : Coord(w, a) = 0})

\* MultiWorkerFuture.get_results followed by BatchedDataDict.from_batches.
Gathered(results, returning) ==
  FlattenSeq([i \in 1..Len(returning) |-> results[returning[i]]])

=============================================================================
