-------------------------- MODULE Programs_proofs ---------------------------
(***************************************************************************)
(* For every configuration, data loader, and number of crashes, of a       *)
(* training of module EpochTraining and of a program of module Programs,   *)
(* whose jobs are set up anew, may be killed while they come up, and are   *)
(* launched again:                                                         *)
(*   - what a training saves is what an uninterrupted one would have, and  *)
(*     the checkpoint of the time limit is begun in time;                  *)
(*   - for every machine and configuration a job comes up in order: its    *)
(*     placement groups share no GPU, its workers are where they should    *)
(*     be, and those that exchange weights find each other.                *)
(***************************************************************************)
EXTENDS Programs, SequenceLemmas, SequenceTheorems, FiniteSetTheorems, TLAPS

-----------------------------------------------------------------------------
(* The invariant.                                                          *)

\* The batches that precede a place of the loader, its own included.
Position(place) == (place[1] - 1) * Batches + place[2]

\* A place of the loader, before its first batch or at one of its batches.
Places == (Nat \ {0}) \X (0..Batches)

\* The steps the weights have been trained for.
TrainedFor(n) == weights = Uninterrupted(n) /\ optimizer = n

\* The batch that was fetched is the one the loader stands at; distillation's
\* responses are by the current weights.
BatchInHand ==
  /\ loader[2] > 0
  /\ \/ batch = loader
     \/ Distillation /\ batch = Append(loader, total)

\* What holds while a job runs, phase by phase.
JobInv ==
  /\ total \in Nat /\ loader \in Places
  /\ generation \in Nat /\ stale \in BOOLEAN
  /\ ~ stale => generation = Len(weights)
  /\ phase = "epoch" => TrainedFor(total) /\ Position(loader) = total
  /\ phase = "batch" => TrainedFor(total) /\ Position(loader) = total + 1 /\ BatchInHand
  /\ phase \in {"validate", "save"} =>
       TrainedFor(total + 1) /\ Position(loader) = total + 1

Phases == {"epoch", "batch", "validate", "save"}

\* The latest checkpoint.
DiskInv ==
  disk # None =>
    /\ disk.total \in Nat /\ disk.loader \in Places
    /\ CheckpointIsUninterrupted

EpochInv ==
  /\ setup \in Setups
  /\ phase \in Phases \cup {"down", "over"}
  /\ phase \in Phases => JobInv
  /\ DiskInv

-----------------------------------------------------------------------------
(* Places of the loader and numbers of batches.                            *)

\* The facts about the constants that the proofs use.
LEMMA Constants == Batches \in Nat /\ Batches > 0
BY TrainingAssumption

\* Division with remainder.
LEMMA QuotientAndRemainder ==
  ASSUME NEW n \in Nat, NEW B \in Nat, B > 0
  PROVE  /\ n \div B \in Nat /\ n % B \in Nat /\ n % B < B
         /\ n = (n \div B) * B + (n % B)
<1>1. n \div B \in Nat
  OBVIOUS
<1>2. n % B \in Nat /\ n % B < B
  OBVIOUS
<1>3. n = B * (n \div B) + (n % B)
  OBVIOUS
<1>4. B * (n \div B) = (n \div B) * B
  BY <1>1
<1> QED BY <1>1, <1>2, <1>3, <1>4

\* Quotient and remainder are the only ones there are.
LEMMA QuotientUnique ==
  ASSUME NEW B \in Nat, B > 0, NEW p \in Nat, NEW r \in Nat, r < B,
         NEW d \in Nat, NEW m \in Nat, m < B, p * B + r = d * B + m
  PROVE  d = p /\ m = r
<1>1. CASE d > p
  <2>1. PICK e \in Nat : d = p + 1 + e
    <3>1. d - p - 1 \in Nat /\ d = p + 1 + (d - p - 1)
      BY <1>1
    <3> QED BY <3>1
  <2>2. d * B = p * B + B + e * B /\ e * B \in Nat
    BY <2>1
  <2> QED BY <2>2
<1>2. CASE d < p
  <2>1. PICK e \in Nat : p = d + 1 + e
    <3>1. p - d - 1 \in Nat /\ p = d + 1 + (p - d - 1)
      BY <1>2
    <3> QED BY <3>1
  <2>2. p * B = d * B + B + e * B /\ e * B \in Nat
    BY <2>1
  <2> QED BY <2>2
<1>3. CASE d = p
  BY <1>3
<1> QED BY <1>1, <1>2, <1>3

\* The batch the loader stands at is the one of its number.
LEMMA PlaceOfPosition ==
  ASSUME NEW place \in Places, place[2] > 0
  PROVE  /\ Position(place) \in Nat \ {0}
         /\ ((Position(place) - 1) \div Batches) + 1 = place[1]
         /\ ((Position(place) - 1) % Batches) + 1 = place[2]
<1> DEFINE p == place[1] - 1
           r == place[2] - 1
           n == Position(place) - 1
<1>1. p \in Nat /\ r \in Nat /\ r < Batches
  BY Constants DEF Places
<1>2. n = p * Batches + r /\ p * Batches \in Nat
  BY <1>1, Constants DEF Position, Places
<1>3. n \in Nat
  BY <1>1, <1>2
<1> HIDE DEF p, r, n
<1>4. /\ n \div Batches \in Nat /\ n % Batches \in Nat /\ n % Batches < Batches
      /\ n = (n \div Batches) * Batches + (n % Batches)
  BY <1>3, Constants, QuotientAndRemainder
<1>5. n \div Batches = p /\ n % Batches = r
  BY <1>1, <1>2, <1>4, QuotientUnique, Constants
<1>6. Position(place) \in Int
  BY <1>2 DEF Position, Places, p
<1>7. Position(place) \in Nat \ {0}
  BY <1>3, <1>6 DEF n
<1>8. place[1] = p + 1 /\ place[2] = r + 1
  BY DEF Places, p, r
<1> QED BY <1>5, <1>7, <1>8 DEF n

\* The last place of one pass is where the next one begins.
LEMMA NextPass ==
  ASSUME NEW place \in Places, place[2] = Batches
  PROVE  <<place[1] + 1, 0>> \in Places /\ Position(<<place[1] + 1, 0>>) = Position(place)
BY Constants DEF Places, Position

\* The place after a place of the loader in one epoch is the one that follows
\* it.
LEMMA NextPlace ==
  ASSUME NEW place \in Places, place[2] < Batches
  PROVE  /\ [place EXCEPT ![2] = @ + 1] = <<place[1], place[2] + 1>>
         /\ <<place[1], place[2] + 1>> \in Places
         /\ Position(<<place[1], place[2] + 1>>) = Position(place) + 1
<1>1. /\ [place EXCEPT ![2] = @ + 1] = <<place[1], place[2] + 1>>
      /\ <<place[1], place[2] + 1>> \in Places
  BY Constants DEF Places
<1>2. (place[1] - 1) * Batches \in Int
  BY Constants DEF Places
<1> QED BY <1>1, <1>2 DEF Places, Position

-----------------------------------------------------------------------------
(* The batches of an uninterrupted training.                               *)

\* A function on 1..n is a sequence of length n.
LEMMA FunctionIsSequence ==
  ASSUME NEW n \in Nat, NEW S, NEW t \in [1..n -> S]
  PROVE  t \in Seq(S) /\ Len(t) = n
OBVIOUS

\* A prefix of a sequence and its next element are the next prefix.
LEMMA AppendNext ==
  ASSUME NEW n \in Nat, NEW S, NEW s \in [1..n -> S], NEW t \in [1..(n + 1) -> S],
         \A k \in 1..n : s[k] = t[k]
  PROVE  Append(s, t[n + 1]) = t
<1>1. s \in Seq(S) /\ Len(s) = n
  BY FunctionIsSequence
<1>2. t \in Seq(S) /\ Len(t) = n + 1 /\ t[n + 1] \in S
  BY FunctionIsSequence
<1>3. /\ Append(s, t[n + 1]) \in Seq(S)
      /\ Len(Append(s, t[n + 1])) = n + 1
      /\ \A k \in 1..n : Append(s, t[n + 1])[k] = s[k]
      /\ Append(s, t[n + 1])[n + 1] = t[n + 1]
  BY <1>1, <1>2, AppendProperties
<1>4. \A k \in 1..(n + 1) : Append(s, t[n + 1])[k] = t[k]
  BY <1>3
<1> QED BY <1>2, <1>3, <1>4, SeqEqual

\* Uninterrupted trainings agree on the batches they both have.
LEMMA UninterruptedFunction ==
  ASSUME NEW n \in Nat
  PROVE  \E S : /\ Uninterrupted(n) \in [1..n -> S]
                /\ Uninterrupted(n + 1) \in [1..(n + 1) -> S]
                /\ \A k \in 1..n : Uninterrupted(n)[k] = Uninterrupted(n + 1)[k]
<1> DEFINE S == {Uninterrupted(n + 1)[k] : k \in 1..(n + 1)}
<1>1. \A k \in 1..n : k \in 1..(n + 1)
  OBVIOUS
<1>2. \A k \in 1..n : Uninterrupted(n)[k] = Uninterrupted(n + 1)[k]
  BY <1>1 DEF Uninterrupted
<1>3. /\ Uninterrupted(n) = [k \in 1..n |-> Uninterrupted(n)[k]]
      /\ Uninterrupted(n + 1) = [k \in 1..(n + 1) |-> Uninterrupted(n + 1)[k]]
  BY DEF Uninterrupted
<1>4. /\ \A k \in 1..(n + 1) : Uninterrupted(n + 1)[k] \in S
      /\ \A k \in 1..n : Uninterrupted(n)[k] \in S
  BY <1>1, <1>2
<1>5. Uninterrupted(n + 1) \in [1..(n + 1) -> S]
  <2> HIDE DEF S
  <2> QED BY <1>3, <1>4
<1>6. Uninterrupted(n) \in [1..n -> S]
  <2> HIDE DEF S
  <2> QED BY <1>3, <1>4
<1> QED BY <1>2, <1>5, <1>6

\* The record of an uninterrupted training of n steps has n entries.
LEMMA UninterruptedLength ==
  ASSUME NEW n \in Nat
  PROVE  Len(Uninterrupted(n)) = n
<1>1. PICK S : Uninterrupted(n) \in [1..n -> S]
  BY UninterruptedFunction
<1> QED BY <1>1, FunctionIsSequence

\* One batch more is the next one of the uninterrupted training.
LEMMA OneBatchMore ==
  ASSUME NEW n \in Nat
  PROVE  Append(Uninterrupted(n), Uninterrupted(n + 1)[n + 1]) = Uninterrupted(n + 1)
<1>1. PICK S : /\ Uninterrupted(n) \in [1..n -> S]
               /\ Uninterrupted(n + 1) \in [1..(n + 1) -> S]
               /\ \A k \in 1..n : Uninterrupted(n)[k] = Uninterrupted(n + 1)[k]
  BY UninterruptedFunction
<1> QED BY <1>1, AppendNext

\* The batch that is trained on is that one.
LEMMA BatchIsNext ==
  ASSUME total \in Nat, loader \in Places, Position(loader) = total + 1, BatchInHand,
         Distillation => Len(batch) = 3
  PROVE  batch = Uninterrupted(total + 1)[total + 1]
<1> DEFINE place == << ((total + 1 - 1) \div Batches) + 1, ((total + 1 - 1) % Batches) + 1 >>
<1>1. loader[2] > 0
  BY DEF BatchInHand
<1>2. place = <<loader[1], loader[2]>>
  BY <1>1, PlaceOfPosition
<1>3. loader = <<loader[1], loader[2]>> /\ Len(loader) = 2
  BY DEF Places
<1>4. total + 1 \in 1..(total + 1) /\ total + 1 - 1 = total
  OBVIOUS
<1>5. Uninterrupted(total + 1)[total + 1] =
        IF Distillation THEN Append(place, total + 1 - 1) ELSE place
  BY <1>4 DEF Uninterrupted
<1>6. batch = IF Distillation THEN Append(loader, total) ELSE loader
  <2>1. batch = loader \/ (Distillation /\ batch = Append(loader, total))
    BY DEF BatchInHand
  <2>2. CASE Distillation
    <3>1. batch # loader
      BY <1>3, <2>2
    <3> QED BY <2>1, <2>2, <3>1
  <2>3. CASE ~ Distillation
    BY <2>1, <2>3
  <2> QED BY <2>2, <2>3
<1> QED BY <1>2, <1>3, <1>4, <1>5, <1>6

-----------------------------------------------------------------------------
(* The steps of a job. A step that does not save leaves the disk alone.    *)

USE DEF given, learnt, counters, clock

\* What does not save keeps what is said about the disk.
LEMMA DiskUnchanged ==
  ASSUME DiskInv, setup' = setup, disk' = disk
  PROVE  DiskInv'
BY DEF DiskInv, CheckpointIsUninterrupted, Uninterrupted, Distillation, Places

\* What a job starts from.
LEMMA LoadedIsUninterrupted ==
  ASSUME DiskInv
  PROVE  /\ LoadedState.total \in Nat /\ LoadedState.loader \in Places
         /\ LoadedState.weights = Uninterrupted(LoadedState.total)
         /\ LoadedState.optimizer = LoadedState.total
         /\ Position(LoadedState.loader) = LoadedState.total
<1>1. CASE disk = None
  <2>1. LoadedState = DefaultState
    BY <1>1 DEF LoadedState
  <2>2. Uninterrupted(0) = <<>>
    BY DEF Uninterrupted
  <2>3. <<1, 0>> \in Places /\ Position(<<1, 0>>) = 0
    BY Constants DEF Places, Position
  <2> QED BY <2>1, <2>2, <2>3 DEF DefaultState
<1>2. CASE disk # None
  <2>1. LoadedState = disk
    BY <1>2 DEF LoadedState
  <2> QED BY <1>2, <2>1 DEF DiskInv, CheckpointIsUninterrupted, Position
<1> QED BY <1>1, <1>2

\* A job that starts takes its place and its record from the same checkpoint.
LEMMA StartJobStep ==
  ASSUME EpochInv, StartJob
  PROVE  EpochInv'
<1> USE DEF EpochInv
<1>1. setup \in Setups /\ setup' = setup /\ disk' = disk /\ phase' = "epoch"
  BY DEF StartJob
<1>2. DiskInv'
  BY <1>1, DiskUnchanged
<1>3. /\ total' = LoadedState.total /\ loader' = LoadedState.loader
      /\ weights' = LoadedState.weights /\ optimizer' = LoadedState.optimizer
  BY <1>1, TrainingAssumption
     DEF StartJob, Resume, StartedWorker, DTensorWorker, AutomodelWorker, MegatronWorker,
         LoadCheckpoint, Workers
<1>4. /\ total' \in Nat /\ loader' \in Places /\ weights' = Uninterrupted(total')
      /\ optimizer' = total' /\ Position(loader') = total'
  BY <1>3, LoadedIsUninterrupted
<1>5. Len(weights') \in Nat
  BY <1>4, UninterruptedLength
<1>6. /\ generation' \in Nat /\ stale' \in BOOLEAN
      /\ ~ stale' => generation' = Len(weights')
  <2>1. CASE setup.valAtStart /\ total' = 0
    <3>1. generation' = Len(weights') /\ stale' = ~ Distillation
      BY <2>1 DEF StartJob, InitialValidation
    <3> QED BY <1>5, <3>1
  <2>2. CASE ~ (setup.valAtStart /\ total' = 0)
    <3>1. generation' = 0 /\ stale' = TRUE
      BY <2>2 DEF StartJob, InitialValidation
    <3> QED BY <3>1
  <2> QED BY <2>1, <2>2
<1>7. TrainedFor(total)' /\ Position(loader)' = total'
  BY <1>1, <1>4 DEF TrainedFor, Uninterrupted, Distillation, Position
<1> QED BY <1>1, <1>2, <1>4, <1>6, <1>7 DEF JobInv, Phases, Places

\* Leaving the loop keeps the invariant.
LEMMA LeaveLoopStep ==
  ASSUME EpochInv, LeaveLoop
  PROVE  EpochInv'
BY DiskUnchanged DEF EpochInv, LeaveLoop, Phases

\* The loader's next batch is the one that follows in the uninterrupted
\* training.
LEMMA NextBatchStep ==
  ASSUME EpochInv, NextBatch
  PROVE  EpochInv'
<1>1. /\ setup' = setup /\ disk' = disk /\ phase' = "batch" /\ total' = total
      /\ weights' = weights /\ optimizer' = optimizer
      /\ generation' = generation /\ stale' = stale
      /\ loader' = [loader EXCEPT ![2] = @ + 1]
      /\ batch' = <<loader[1], loader[2] + 1>>
  BY DEF NextBatch
<1>2. JobInv /\ TrainedFor(total) /\ Position(loader) = total /\ loader[2] < Batches
  BY DEF EpochInv, JobInv, NextBatch, Phases
<1>3. loader \in Places /\ total \in Nat
  BY <1>2 DEF JobInv
<1>4. /\ loader' = batch' /\ loader' \in Places
      /\ Position(loader') = total + 1 /\ loader'[2] > 0
  <2> DEFINE next == <<loader[1], loader[2] + 1>>
  <2>1. loader' = next /\ batch' = next
    BY <1>1, <1>2, <1>3, NextPlace
  <2>2. next \in Places /\ Position(next) = total + 1
    BY <1>2, <1>3, NextPlace
  <2>3. next[2] > 0
    BY <1>3 DEF Places
  <2> HIDE DEF next
  <2> QED BY <2>1, <2>2, <2>3
<1>5. BatchInHand' /\ TrainedFor(total)' /\ Position(loader)' = total' + 1
  BY <1>1, <1>2, <1>4
     DEF BatchInHand, TrainedFor, Uninterrupted, Distillation, Position
<1>6. JobInv'
  BY <1>1, <1>2, <1>4, <1>5 DEF JobInv, Places
<1>7. DiskInv'
  BY <1>1, DiskUnchanged DEF EpochInv
<1> QED BY <1>1, <1>6, <1>7 DEF EpochInv, Phases

\* The next epoch begins where the loader was used up.
LEMMA EndEpochStep ==
  ASSUME EpochInv, EndEpoch
  PROVE  EpochInv'
<1>1. /\ setup' = setup /\ disk' = disk /\ phase' = "epoch" /\ total' = total
      /\ weights' = weights /\ optimizer' = optimizer
      /\ generation' = generation /\ stale' = stale
      /\ loader' = <<loader[1] + 1, 0>>
  BY DEF EndEpoch
<1>2. JobInv /\ TrainedFor(total) /\ Position(loader) = total /\ loader[2] = Batches
  BY DEF EpochInv, JobInv, EndEpoch, Phases
<1>3. loader \in Places /\ total \in Nat
  BY <1>2 DEF JobInv
<1>4. loader' \in Places /\ Position(loader') = total
  BY <1>1, <1>2, <1>3, NextPass
<1>5. TrainedFor(total)' /\ Position(loader)' = total'
  BY <1>1, <1>2, <1>4 DEF TrainedFor, Uninterrupted, Distillation, Position
<1>6. JobInv'
  BY <1>1, <1>2, <1>4, <1>5 DEF JobInv, Places
<1>7. DiskInv'
  BY <1>1, DiskUnchanged DEF EpochInv
<1> QED BY <1>1, <1>6, <1>7 DEF EpochInv, Phases

\* A rollout is by the weights of this step, whether they had to be sent or not.
LEMMA RefittedIsCurrent ==
  ASSUME JobInv, NEW n \in Nat, TrainedFor(n)
  PROVE  Refitted = n
BY UninterruptedLength DEF JobInv, Refitted, TrainedFor

\* A fetched batch becomes a triple.
LEMMA AppendToPair ==
  ASSUME NEW a \in Nat, NEW b \in Nat, NEW c \in Nat
  PROVE  Len(Append(<<a, b>>, c)) = 3
OBVIOUS

\* Generation changes no batch and no place.
LEMMA GenerateStep ==
  ASSUME EpochInv, Generate
  PROVE  EpochInv'
<1>1. /\ setup' = setup /\ disk' = disk /\ phase = "batch" /\ phase' = "batch"
      /\ total' = total /\ weights' = weights /\ optimizer' = optimizer
      /\ generation' = Refitted /\ stale' = FALSE /\ loader' = loader
      /\ batch' = Append(batch, Refitted) /\ Len(batch) = 2 /\ Distillation
  BY DEF Generate
<1>2. /\ JobInv /\ TrainedFor(total) /\ Position(loader) = total + 1 /\ BatchInHand
      /\ total \in Nat /\ loader \in Places
  BY <1>1 DEF EpochInv, JobInv, Phases
<1>3. Refitted = total /\ Len(weights) = total
  BY <1>2, RefittedIsCurrent, UninterruptedLength DEF TrainedFor
<1>4. batch = loader
  <2>1. Len(Append(loader, total)) = 3
    <3>1. loader = <<loader[1], loader[2]>> /\ loader[1] \in Nat /\ loader[2] \in Nat
      BY <1>2 DEF Places
    <3> QED BY <1>2, <3>1, AppendToPair
  <2> QED BY <1>1, <1>2, <2>1 DEF BatchInHand
<1>5. BatchInHand'
  BY <1>1, <1>2, <1>3, <1>4 DEF BatchInHand, Distillation
<1>6. TrainedFor(total)' /\ Position(loader)' = total' + 1
  BY <1>1, <1>2 DEF TrainedFor, Uninterrupted, Distillation, Position
<1>7. JobInv'
  BY <1>1, <1>2, <1>3, <1>5, <1>6 DEF JobInv, Places
<1>8. DiskInv'
  BY <1>1, DiskUnchanged DEF EpochInv
<1> QED BY <1>1, <1>7, <1>8 DEF EpochInv, Phases

\* A training step appends the batch at hand; what it saves is consistent.
LEMMA TrainStep ==
  ASSUME EpochInv, Train
  PROVE  EpochInv'
<1>1. /\ setup' = setup /\ disk' = disk /\ phase = "batch"
      /\ phase' \in {"validate", "save"}
      /\ total' = total /\ loader' = loader
      /\ weights' = Append(weights, batch) /\ optimizer' = optimizer + 1
      /\ generation' = generation /\ stale' = TRUE
      /\ Distillation => Len(batch) = 3
  BY DEF Train
<1>2. /\ JobInv /\ TrainedFor(total) /\ Position(loader) = total + 1 /\ BatchInHand
      /\ total \in Nat /\ loader \in Places
  BY <1>1 DEF EpochInv, JobInv, Phases
<1>3. batch = Uninterrupted(total + 1)[total + 1]
  BY <1>1, <1>2, BatchIsNext
<1>4. weights' = Uninterrupted(total + 1) /\ optimizer' = total + 1
  BY <1>1, <1>2, <1>3, OneBatchMore DEF TrainedFor
<1>5. TrainedFor(total + 1)' /\ Position(loader)' = total' + 1
  BY <1>1, <1>2, <1>4 DEF TrainedFor, Uninterrupted, Distillation, Position
<1>6. JobInv'
  BY <1>1, <1>2, <1>5 DEF JobInv, Places
<1>7. DiskInv'
  BY <1>1, DiskUnchanged DEF EpochInv
<1> QED BY <1>1, <1>6, <1>7 DEF EpochInv, Phases

\* Both kinds of validation; that by rollouts leaves the engine refitted.
LEMMA ValidateStep ==
  ASSUME EpochInv, Validate \/ ValidateByRollouts
  PROVE  EpochInv'
<1>1. /\ setup' = setup /\ disk' = disk /\ phase = "validate" /\ phase' = "save"
      /\ total' = total /\ loader' = loader
      /\ weights' = weights /\ optimizer' = optimizer
  BY DEF Validate, ValidateByRollouts, Validated
<1>2. /\ JobInv /\ TrainedFor(total + 1) /\ Position(loader) = total + 1
      /\ total \in Nat /\ loader \in Places
  BY <1>1 DEF EpochInv, JobInv, Phases
<1>3. Refitted = total + 1 /\ Len(weights) = total + 1
  BY <1>2, RefittedIsCurrent, UninterruptedLength DEF TrainedFor
<1>4. /\ generation' \in Nat /\ stale' \in BOOLEAN
      /\ ~ stale' => generation' = Len(weights')
  <2>1. CASE Validate
    <3>1. generation' = generation /\ stale' = stale
      BY <2>1 DEF Validate
    <3> QED BY <1>1, <1>2, <3>1 DEF JobInv
  <2>2. CASE ValidateByRollouts
    <3>1. generation' = Refitted /\ stale' = FALSE
      BY <2>2 DEF ValidateByRollouts
    <3>2. generation' = total + 1 /\ Len(weights') = total + 1 /\ total + 1 \in Nat
      BY <1>1, <1>2, <1>3, <3>1
    <3>3. stale' \in BOOLEAN
      BY <3>1
    <3> QED BY <3>2, <3>3
  <2> QED BY <2>1, <2>2
<1>5. TrainedFor(total + 1)' /\ Position(loader)' = total' + 1
  BY <1>1, <1>2 DEF TrainedFor, Uninterrupted, Distillation, Position
<1>6. JobInv'
  BY <1>1, <1>2, <1>4, <1>5 DEF JobInv, Places
<1>7. DiskInv'
  BY <1>1, DiskUnchanged DEF EpochInv
<1> QED BY <1>1, <1>6, <1>7 DEF EpochInv, Phases

\* The checkpoint holds what was trained, whatever made it due.
LEMMA FinishStepStep ==
  ASSUME EpochInv, FinishStep
  PROVE  EpochInv'
<1>1. /\ setup' = setup /\ phase = "save" /\ phase' \in {"epoch", "down", "over"}
      /\ total' = total + 1 /\ loader' = loader
      /\ weights' = weights /\ optimizer' = optimizer
      /\ generation' = generation /\ stale' = stale
  BY DEF FinishStep, PhaseAfter
<1>2. /\ JobInv /\ TrainedFor(total + 1) /\ Position(loader) = total + 1
      /\ total \in Nat /\ loader \in Places
  BY <1>1 DEF EpochInv, JobInv, Phases
<1>3. TrainedFor(total)' /\ Position(loader)' = total'
  BY <1>1, <1>2 DEF TrainedFor, Uninterrupted, Distillation, Position
<1>4. JobInv'
  BY <1>1, <1>2, <1>3 DEF JobInv, Places
<1>5. DiskInv'
  <2>1. CASE disk' = disk
    BY <1>1, <2>1, DiskUnchanged DEF EpochInv
  <2>2. CASE SaveCheckpoint
    <3>1. /\ disk'.total = total + 1 /\ disk'.loader = loader
          /\ disk'.weights = weights /\ disk'.optimizer = optimizer
          /\ disk'.metric \in {0, total + 1}
      BY <2>2 DEF SaveCheckpoint, SavedModel, MetricSaved
    <3>2. disk'.weights = Uninterrupted(disk.total)' /\ disk'.optimizer = disk'.total
      BY <1>1, <1>2, <3>1 DEF TrainedFor, Uninterrupted, Distillation
    <3>3. (disk'.loader[1] - 1) * Batches + disk'.loader[2] = disk'.total
      BY <1>2, <3>1 DEF Position
    <3>4. disk'.total \in Nat /\ disk'.loader \in Places
      BY <1>2, <3>1
    <3> QED BY <3>1, <3>2, <3>3, <3>4 DEF DiskInv, CheckpointIsUninterrupted, Places
  <2> QED BY <2>1, <2>2 DEF FinishStep
<1> QED BY <1>1, <1>4, <1>5 DEF EpochInv, Phases

\* A crash takes what the job had in memory and leaves the disk as it is.
LEMMA CrashStep ==
  ASSUME EpochInv, Crash
  PROVE  EpochInv'
BY DiskUnchanged DEF EpochInv, Crash, Phases

\* What EpochInv is about may stay while something else changes.
LEMMA IdleStep ==
  ASSUME EpochInv, setup' = setup, phase' = phase, total' = total, loader' = loader,
         batch' = batch, learnt' = learnt, generation' = generation, stale' = stale,
         disk' = disk
  PROVE  EpochInv'
<1>1. DiskInv'
  BY DiskUnchanged DEF EpochInv
<1>2. ASSUME JobInv
      PROVE  JobInv'
  BY <1>2 DEF JobInv, TrainedFor, Position, BatchInHand, Places, Uninterrupted, Distillation
<1> QED BY <1>1, <1>2 DEF EpochInv, Phases

\* The invariant holds at the start.
LEMMA InitEstablishes == Init => EpochInv
BY DEF Init, EpochInv, DiskInv, Phases

\* Every step keeps it.
LEMMA StepPreserves == EpochInv /\ [Next]_vars => EpochInv'
<1> SUFFICES ASSUME EpochInv, [Next]_vars
             PROVE  EpochInv'
  OBVIOUS
<1>1. CASE StartJob
  BY <1>1, StartJobStep
<1>2. CASE JobStep
  BY <1>2, LeaveLoopStep, NextBatchStep, EndEpochStep, GenerateStep, TrainStep,
     ValidateStep, FinishStepStep
     DEF JobStep
<1>3. CASE Crash
  BY <1>3, CrashStep
<1>4. CASE UNCHANGED vars
  BY <1>4, IdleStep DEF vars
<1> QED BY <1>1, <1>2, <1>3, <1>4 DEF Next

-----------------------------------------------------------------------------
\* A checkpoint of step n is that of the first n batches, trained on once and in
\* order, with the optimizer, the place of the loader and the metric of that
\* step, however often jobs end or crash before (sft.py:499-572, dpo.py:618-707,
\* rm.py:542-632, distillation.py:764-847).
THEOREM CheckpointsAreUninterrupted == Spec => []CheckpointIsUninterrupted
<1>1. EpochInv => CheckpointIsUninterrupted
  BY DEF EpochInv, DiskInv, CheckpointIsUninterrupted
<1> QED BY <1>1, InitEstablishes, StepPreserves, PTL DEF Spec

-----------------------------------------------------------------------------
(* The same within a program.                                              *)

\* Every step of a program is one of the training, or leaves it alone.
LEMMA ProgramStep ==
  ASSUME ProgramNext
  PROVE  [Next]_vars \/ (CrashInSetup /\ crashes' = crashes + 1)
<1>1. CASE Goes
  BY <1>1 DEF Goes, Start, TrainingStep, EvaluationStep, Relaunch, SetsUp, TrainingIdle, Next
<1>2. CASE PortClash \/ CrashInLoop
  BY <1>2 DEF PortClash, CrashInLoop, TrainingIdle, Next
<1>3. CASE CrashInSetup
  BY <1>3 DEF CrashInSetup
<1> QED BY <1>1, <1>2, <1>3 DEF ProgramNext

\* The checkpoints of a program are those of an uninterrupted training, however
\* its jobs come up, crash, or are killed before they have come up
\* (sft.py:499-572, dpo.py:618-707, rm.py:542-632, distillation.py:764-847).
THEOREM ProgramsSaveUninterrupted == ProgramSpec => []CheckpointIsUninterrupted
<1>1. ProgramInit => EpochInv
  BY InitEstablishes DEF ProgramInit
<1>2. EpochInv /\ [ProgramNext]_programVars => EpochInv'
  <2> SUFFICES ASSUME EpochInv, [ProgramNext]_programVars
               PROVE  EpochInv'
    OBVIOUS
  <2>1. CASE [Next]_vars
    BY <2>1, StepPreserves
  <2>2. CASE CrashInSetup
    BY <2>2, IdleStep DEF CrashInSetup, given, counters
  <2>3. CASE UNCHANGED programVars
    BY <2>3, StepPreserves DEF programVars
  <2> QED BY <2>1, <2>2, <2>3, ProgramStep
<1>3. EpochInv => CheckpointIsUninterrupted
  BY DEF EpochInv, DiskInv, CheckpointIsUninterrupted
<1> QED BY <1>1, <1>2, <1>3, PTL DEF ProgramSpec

-----------------------------------------------------------------------------
(* The time limit. What is saved at the limit is begun in time if the last  *)
(* iteration was no slower than the average: when the one before it ended,  *)
(* the checker still saw room for one more of average length.               *)

\* Total adds up.
LEMMA TotalIsTotal ==
  ASSUME NEW d \in Seq(Int)
  PROVE  IsTotal(d, Total(d))
<1> DEFINE n == Len(d)
           Is(g) == g = [s \in SUBSET DOMAIN d |->
                           IF s = {} THEN 0 ELSE g[s \ {Max(s)}] + d[Max(s)]]
           F == [p \in (1..n) \X Int |-> p[2] + d[p[1]]]
<1>1. n \in Nat /\ DOMAIN d = 1..n /\ F \in [(1..n) \X Int -> Int]
  OBVIOUS
<1>2. PICK g \in [SUBSET (1..n) -> Int] : Folds(g, n, 0, F)
  <2>1. n \in Nat /\ F \in [(1..n) \X Int -> Int] /\ 0 \in Int
    BY <1>1
  <2> HIDE DEF F, n
  <2> QED BY <2>1, FoldExists, Zenon
<1>3. ASSUME NEW s \in SUBSET (1..n), s # {}
      PROVE  F[<<Max(s), g[s \ {Max(s)}]>>] = g[s \ {Max(s)}] + d[Max(s)]
  <2>1. Max(s) \in 1..n
    <3> HIDE DEF n
    <3> QED BY <1>1, <1>3, MaxOfSet
  <2>2. g[s \ {Max(s)}] \in Int
    OBVIOUS
  <2> QED BY <2>1, <2>2
<1>4. Is(g)
  <2> HIDE DEF F, n
  <2> QED BY <1>1, <1>2, <1>3 DEF Folds
<1> DEFINE iter == CHOOSE h : Is(h)
<1>5. Is(iter)
  <2> HIDE DEF Is
  <2> QED BY <1>4
<1>6. Total(d) = iter[DOMAIN d]
  BY Zenon DEF Total, FoldLeft, MapThenFoldSet
<1>7. \A s \in SUBSET (1..n) :
        iter[s] = IF s = {} THEN 0 ELSE iter[s \ {Max(s)}] + d[Max(s)]
  <2> HIDE DEF iter
  <2> QED BY <1>1, <1>5
<1> HIDE DEF iter, Is, n
<1>8. IsTotal(d, iter[1..Len(d)])
  BY <1>7, SumByFold DEF n
<1> QED BY <1>1, <1>6, <1>8 DEF n

\* The total of one number more.
LEMMA TotalOfAppended ==
  ASSUME NEW d \in Seq(Int), NEW x \in Int
  PROVE  Total(d) \in Int /\ Total(Append(d, x)) = Total(d) + x
<1>1. Append(d, x) \in Seq(Int)
  OBVIOUS
<1>2. IsTotal(d, Total(d)) /\ IsTotal(Append(d, x), Total(Append(d, x)))
  BY <1>1, TotalIsTotal
<1>3. IsTotal(Append(d, x), Total(d) + x)
  BY <1>2, TotalOfAppend
<1>4. Total(d) \in Int
  BY <1>2, TotalIsInt
<1>5. Total(Append(d, x)) = Total(d) + x
  BY <1>1, <1>2, <1>3, TotalUnique
<1> QED BY <1>4, <1>5

\* Room was left for one more iteration of average length.
RoomLeft ==
  Total(times) * Len(times) + Total(times) < setup.deadline[1] * Len(times)

\* lastSaved is the end of a job, and the iterations are only timed if there is
\* a deadline; until then, there was room at the end of each.
TimerInv ==
  /\ setup \in Setups
  /\ times \in Seq(Int) /\ elapsed \in Int
  /\ lastSaved => phase = "down"
  /\ setup.deadline = None => times = <<>> /\ ~ lastSaved
  /\ ~ lastSaved /\ times # <<>> => RoomLeft
  /\ BeginsInTime

\* The front and the last of a sequence that was appended to.
LEMMA FrontAndLast ==
  ASSUME NEW d \in Seq(Int), NEW x \in Int
  PROVE  /\ Len(Append(d, x)) = Len(d) + 1
         /\ Front(Append(d, x)) = d /\ Last(Append(d, x)) = x
<1>1. Len(Append(d, x)) = Len(d) + 1 /\ Append(d, x)[Len(d) + 1] = x
  OBVIOUS
<1>2. SubSeq(Append(d, x), 1, Len(d)) = d
  OBVIOUS
<1> QED BY <1>1, <1>2 DEF Front, Last

\* The arithmetic: T is the time before, x that of the last of n + 1 iterations.
LEMMA LastIterationFits ==
  ASSUME NEW T \in Int, NEW n \in Nat \ {0}, NEW D \in Int, NEW x \in Int,
         T * n + T < D * n, x * n <= T
  PROVE  T + x < D
<1>1. (T + x) * n = T * n + x * n
  OBVIOUS
<1>2. T * n \in Int /\ x * n \in Int /\ D * n \in Int
  OBVIOUS
<1>3. (T + x) * n < D * n
  BY <1>1, <1>2
<1> SUFFICES ASSUME T + x >= D PROVE FALSE
  OBVIOUS
<1>4. PICK e \in Nat : T + x = D + e
  <2>1. (T + x) - D \in Nat /\ T + x = D + ((T + x) - D)
    OBVIOUS
  <2> QED BY <2>1
<1>5. (D + e) * n = D * n + e * n /\ e * n \in Nat
  OBVIOUS
<1> QED BY <1>2, <1>3, <1>4, <1>5

\* The invariant of the timer holds at the start.
LEMMA TimerInit == Init => TimerInv
<1> SUFFICES ASSUME Init PROVE TimerInv
  OBVIOUS
<1>1. times \in Seq(Int)
  BY DEF Init
<1> QED BY <1>1 DEF Init, TimerInv, BeginsInTime, None

\* It is about the samples and the flag alone, so other steps keep it.
LEMMA TimerUnchanged ==
  ASSUME TimerInv, setup' = setup, times' = times, lastSaved' = lastSaved,
         elapsed' \in Int, lastSaved' => phase' = "down"
  PROVE  TimerInv'
BY DEF TimerInv, RoomLeft, BeginsInTime

\* How the checker judges at the end of a step.
LEMMA FinishStepTimes ==
  ASSUME TimerInv, FinishStep
  PROVE  TimerInv'
<1>1. setup' = setup /\ phase = "save" /\ times' = MarkIteration /\ ~ lastSaved
  BY DEF FinishStep, given, TimerInv
<1>2. /\ lastSaved' <=> CheckSave(elapsed, times')
      /\ CheckSave(elapsed, times') => phase' = "down"
  <2>1. /\ lastSaved' = (lastSaved \/ CheckSave(elapsed, MarkIteration))
        /\ phase' = PhaseAfter(CheckSave(elapsed, MarkIteration))
    BY DEF FinishStep
  <2>2. lastSaved' <=> CheckSave(elapsed, times')
    BY <1>1, <2>1
  <2>3. CheckSave(elapsed, MarkIteration) => phase' = "down"
    <3>1. CheckSave(elapsed, MarkIteration) \in BOOLEAN
      BY DEF CheckSave
    <3>2. PhaseAfter(TRUE) = "down"
      BY DEF PhaseAfter
    <3> QED BY <2>1, <3>1, <3>2
  <2> QED BY <1>1, <2>2, <2>3
<1>3. elapsed' \in Int
  BY TrainingAssumption DEF FinishStep, SaveCheckpoint, Later, TimerInv
<1>4. CASE setup.deadline = None
  <2>1. times' = <<>> /\ ~ lastSaved'
    BY <1>1, <1>2, <1>4 DEF MarkIteration, CheckSave, TimerInv
  <2> QED BY <1>1, <1>3, <1>4, <2>1 DEF TimerInv, BeginsInTime
<1>5. CASE setup.deadline # None
  <2> DEFINE x == elapsed - Total(times)
             D == setup.deadline[1]
  <2>1. times \in Seq(Int) /\ elapsed \in Int /\ D \in Int
    BY <1>5, TrainingAssumption DEF TimerInv, None
  <2>2. Total(times) \in Int /\ x \in Int
    BY <2>1, TotalOfAppended
  <2>3. times' = Append(times, x)
    BY <1>1, <1>5 DEF MarkIteration
  <2>4. Total(times') = elapsed
    <3>1. Total(times') = Total(times) + x
      BY <2>1, <2>2, <2>3, TotalOfAppended
    <3> QED BY <2>1, <2>2, <3>1
  <2>5. /\ times' \in Seq(Int) /\ Len(times') = Len(times) + 1 /\ times' # <<>>
        /\ Front(times') = times /\ Last(times') = x
    BY <2>1, <2>2, <2>3, FrontAndLast
  <2>6. ~ lastSaved' => RoomLeft'
    <3> SUFFICES ASSUME ~ CheckSave(elapsed, times')
                 PROVE  RoomLeft'
      BY <1>2
    <3>1. ~ (elapsed * Len(times') + Total(times') >= D * Len(times'))
      BY <1>1, <1>5 DEF CheckSave
    <3>2. elapsed * Len(times') \in Int /\ D * Len(times') \in Int
      BY <2>1, <2>5
    <3>3. elapsed * Len(times') + elapsed < D * Len(times')
      BY <2>1, <2>4, <3>1, <3>2
    <3> QED BY <1>1, <2>4, <3>3 DEF RoomLeft
  <2>7. BeginsInTime'
    <3> SUFFICES ASSUME Len(times') > 1,
                        Last(times') * Len(Front(times')) <= Total(Front(times'))
                 PROVE  Total(times') < D
      BY <1>1 DEF BeginsInTime
    <3>1. Len(times) \in Nat \ {0} /\ times # <<>>
      BY <2>1, <2>5
    <3>2. RoomLeft
      BY <1>1, <3>1 DEF TimerInv
    <3>3. x * Len(times) <= Total(times)
      BY <2>5
    <3>4. Total(times) * Len(times) + Total(times) < D * Len(times)
      BY <3>2 DEF RoomLeft
    <3> HIDE DEF x, D
    <3>5. Total(times) + x < D
      BY <2>1, <2>2, <3>1, <3>3, <3>4, LastIterationFits
    <3>6. Total(times) + x = elapsed
      BY <2>1, <2>2 DEF x
    <3> QED BY <2>4, <3>5, <3>6
  <2> QED BY <1>1, <1>2, <1>3, <1>5, <2>5, <2>6, <2>7 DEF TimerInv
<1> QED BY <1>4, <1>5

\* Every step keeps it.
LEMMA TimerStep == TimerInv /\ [Next]_vars => TimerInv'
<1> SUFFICES ASSUME TimerInv, [Next]_vars
             PROVE  TimerInv'
  OBVIOUS
<1>1. CASE StartJob
  <2>1. times' = <<>> /\ lastSaved' = FALSE /\ elapsed' \in Int /\ setup' = setup
    BY <1>1 DEF StartJob, InitialValidation
  <2>2. times' \in Seq(Int)
    BY <2>1
  <2> QED BY <2>1, <2>2 DEF TimerInv, BeginsInTime
<1>2. CASE FinishStep
  BY <1>2, FinishStepTimes
<1>3. CASE LeaveLoop \/ NextBatch \/ EndEpoch \/ Generate
  BY <1>3, TimerUnchanged
     DEF LeaveLoop, NextBatch, EndEpoch, Generate, clock, given, TimerInv
<1>4. CASE Train \/ Validate \/ ValidateByRollouts
  <2>1. setup' = setup /\ times' = times /\ lastSaved' = lastSaved /\ elapsed' \in Int
    BY <1>4, TrainingAssumption
       DEF Train, Validate, ValidateByRollouts, Validated, Later, given, TimerInv
  <2>2. ~ lastSaved
    BY <1>4 DEF Train, Validate, ValidateByRollouts, Validated, TimerInv
  <2> QED BY <2>1, <2>2, TimerUnchanged
<1>5. CASE Crash
  BY <1>5, TimerUnchanged DEF Crash, clock, given, TimerInv
<1>6. CASE UNCHANGED vars
  BY <1>6, TimerUnchanged DEF vars, TimerInv
<1> QED BY <1>1, <1>2, <1>3, <1>4, <1>5, <1>6 DEF Next, JobStep

\* If the last iteration of a job took no longer than those before it on
\* average, the checkpoint of the time limit was begun before the deadline
\* (timer.py:285-308).
THEOREM CheckpointBeginsInTime == Spec => []BeginsInTime
<1>1. TimerInv => BeginsInTime
  BY DEF TimerInv
<1> QED BY <1>1, TimerInit, TimerStep, PTL DEF Spec

\* The same within a program, whose jobs may be killed before they have come up.
THEOREM ProgramsBeginInTime == ProgramSpec => []BeginsInTime
<1>1. ProgramInit => TimerInv
  BY TimerInit DEF ProgramInit
<1>2. TimerInv /\ [ProgramNext]_programVars => TimerInv'
  <2> SUFFICES ASSUME TimerInv, [ProgramNext]_programVars
               PROVE  TimerInv'
    OBVIOUS
  <2>1. CASE [Next]_vars
    BY <2>1, TimerStep
  <2>2. CASE CrashInSetup
    BY <2>2, TimerUnchanged DEF CrashInSetup, given, clock, TimerInv
  <2>3. CASE UNCHANGED programVars
    BY <2>3, TimerStep DEF programVars
  <2> QED BY <2>1, <2>2, <2>3, ProgramStep
<1>3. TimerInv => BeginsInTime
  BY DEF TimerInv
<1> QED BY <1>1, <1>2, <1>3, PTL DEF ProgramSpec

-----------------------------------------------------------------------------
(* Sets in order.                                                          *)

\* The elements with a lower key.
Below(S, key, x) == {y \in S : key[y] < key[x]}

\* Keys that tell the elements of S apart.
IsKey(S, key) ==
  /\ \A x \in S : key[x] \in Int
  /\ \A x, y \in S : key[x] = key[y] => x = y

\* The number of elements below one is its place, and every place is taken.
LEMMA PlacesAreTaken ==
  ASSUME NEW S, IsFiniteSet(S), NEW key, IsKey(S, key)
  PROVE  /\ Cardinality(S) \in Nat
         /\ \A x \in S : Cardinality(Below(S, key, x)) \in 0..(Cardinality(S) - 1)
         /\ \A x, y \in S : key[x] < key[y] =>
              Cardinality(Below(S, key, x)) < Cardinality(Below(S, key, y))
         /\ \A i \in 0..(Cardinality(S) - 1) :
              \E x \in S : Cardinality(Below(S, key, x)) = i
<1> DEFINE n == Cardinality(S)
           f == [x \in S |-> Cardinality(Below(S, key, x))]
<1>1. n \in Nat
  BY FS_CardinalityType
<1>2. ASSUME NEW x \in S
      PROVE  IsFiniteSet(Below(S, key, x)) /\ Cardinality(Below(S, key, x)) \in 0..(n - 1)
  <2>1. Below(S, key, x) \in SUBSET S /\ x \notin Below(S, key, x)
    BY DEF Below, IsKey
  <2>2. /\ IsFiniteSet(Below(S, key, x)) /\ Cardinality(Below(S, key, x)) <= n
        /\ Cardinality(Below(S, key, x)) # n
    BY <2>1, FS_Subset
  <2>3. Cardinality(Below(S, key, x)) \in Nat
    BY <2>2, FS_CardinalityType
  <2> QED BY <1>1, <2>2, <2>3
<1>3. ASSUME NEW x \in S, NEW y \in S, key[x] < key[y]
      PROVE  Cardinality(Below(S, key, x)) < Cardinality(Below(S, key, y))
  <2>1. Below(S, key, x) \in SUBSET Below(S, key, y)
    <3>1. \A z \in S : key[z] \in Int
      BY DEF IsKey
    <3>2. \A z \in S : key[z] < key[x] => key[z] < key[y]
      BY <1>3, <3>1
    <3> QED BY <3>2 DEF Below
  <2>2. x \in Below(S, key, y) /\ x \notin Below(S, key, x)
    BY <1>3 DEF Below, IsKey
  <2>3. /\ Cardinality(Below(S, key, x)) <= Cardinality(Below(S, key, y))
        /\ Cardinality(Below(S, key, x)) # Cardinality(Below(S, key, y))
    BY <1>2, <2>1, <2>2, FS_Subset
  <2>4. Cardinality(Below(S, key, x)) \in Nat /\ Cardinality(Below(S, key, y)) \in Nat
    BY <1>2
  <2> QED BY <2>3, <2>4
<1>4. f \in Injection(S, 0..(n - 1))
  <2>1. f \in [S -> 0..(n - 1)]
    BY <1>2
  <2>2. ASSUME NEW x \in S, NEW y \in S, f[x] = f[y] PROVE x = y
    <3>1. f[x] \in Int /\ f[y] \in Int
      BY <1>1, <2>1
    <3>2. ~ key[x] < key[y] /\ ~ key[y] < key[x]
      BY <1>3, <2>2, <3>1
    <3> QED BY <3>2 DEF IsKey
  <2> HIDE DEF f
  <2> QED BY <2>1, <2>2 DEF Injection, IsInjective
<1>5. IsFiniteSet(0..(n - 1)) /\ Cardinality(0..(n - 1)) = n
  <2>1. IsFiniteSet(0..(n - 1))
        /\ Cardinality(0..(n - 1)) = IF 0 > n - 1 THEN 0 ELSE (n - 1) - 0 + 1
    <3> DEFINE z == n - 1
    <3>1. 0 \in Int /\ z \in Int
      BY <1>1
    <3> HIDE DEF z
    <3>2. IsFiniteSet(0..z) /\ Cardinality(0..z) = IF 0 > z THEN 0 ELSE z - 0 + 1
      BY ONLY <3>1, FS_Interval
    <3> QED BY ONLY <3>2 DEF z
  <2> QED BY <1>1, <2>1
<1>6. f \in Surjection(S, 0..(n - 1))
  <2> HIDE DEF f
  <2> QED BY <1>4, <1>5, FS_Injection
<1>7. \A i \in 0..(n - 1) : \E x \in S : f[x] = i
  <2> HIDE DEF f
  <2> QED BY <1>6 DEF Surjection
<1> QED BY <1>1, <1>2, <1>3, <1>7

\* A sequence of the elements of S, each at its place.
IsOrderOf(q, S, key) ==
  /\ Len(q) = Cardinality(S) /\ q \in [1..Len(q) -> S] /\ Len(q) \in Nat
  /\ \A i \in 1..Len(q) : Cardinality(Below(S, key, q[i])) = i - 1
  /\ \A i, j \in 1..Len(q) : i < j => key[q[i]] < key[q[j]]
  /\ \A x \in S : \E i \in 1..Len(q) : q[i] = x

\* A sequence that has at each place the element that has as many below it.
LEMMA OrderByPlaces ==
  ASSUME NEW S, IsFiniteSet(S), NEW key, IsKey(S, key), NEW q,
         q \in [1..Cardinality(S) -> S],
         \A i \in 1..Cardinality(S) : Cardinality(Below(S, key, q[i])) = i - 1
  PROVE  IsOrderOf(q, S, key)
<1> DEFINE n == Cardinality(S)
           rank == [x \in S |-> Cardinality(Below(S, key, x))]
<1>1. /\ n \in Nat
      /\ \A x \in S : rank[x] \in 0..(n - 1)
      /\ \A x, y \in S : key[x] < key[y] => rank[x] < rank[y]
      /\ \A i \in 0..(n - 1) : \E x \in S : rank[x] = i
  BY PlacesAreTaken
<1>3. \A i \in 1..n : q[i] \in S /\ rank[q[i]] = i - 1
  OBVIOUS
<1>8. \A i \in 1..n : Cardinality(Below(S, key, q[i])) = i - 1
  OBVIOUS
<1>4. q \in [1..n -> S]
  OBVIOUS
<1> HIDE DEF rank, n
<1>5. Len(q) = n
  BY <1>1, <1>4, FunctionIsSequence
<1>6. \A i, j \in 1..n : i < j => key[q[i]] < key[q[j]]
  <2> SUFFICES ASSUME NEW i \in 1..n, NEW j \in 1..n, i < j PROVE key[q[i]] < key[q[j]]
    OBVIOUS
  <2>1. PICK x \in S : x = q[i] /\ rank[x] = i - 1
    BY <1>3
  <2>2. PICK y \in S : y = q[j] /\ rank[y] = j - 1
    BY <1>3
  <2>3. i \in Int /\ j \in Int
    BY <1>1
  <2>4. ~ key[y] < key[x] /\ x # y
    BY <1>1, <2>1, <2>2, <2>3
  <2> QED BY <2>1, <2>2, <2>4 DEF IsKey
<1>7. \A x \in S : \E i \in 1..n : q[i] = x
  <2> TAKE x \in S
  <2>1. PICK i \in 1..n : rank[x] = i - 1
    <3>1. rank[x] \in 0..(n - 1) /\ rank[x] + 1 \in 1..n /\ rank[x] = rank[x] + 1 - 1
      BY <1>1
    <3> QED BY <3>1
  <2>2. PICK y \in S : y = q[i] /\ rank[y] = i - 1
    BY <1>3
  <2>3. i \in Int
    BY <1>1
  <2>4. ~ key[x] < key[y] /\ ~ key[y] < key[x]
    BY <1>1, <2>1, <2>2, <2>3
  <2> QED BY <2>2, <2>4 DEF IsKey
<1> QED BY <1>1, <1>4, <1>5, <1>6, <1>7, <1>8 DEF IsOrderOf, n

\* The places of numbers are those of Numbered.
LEMMA NumberedInOrder ==
  ASSUME NEW S \in SUBSET Int, IsFiniteSet(S)
  PROVE  IsOrderOf(Numbered(S), S, [x \in S |-> x])
<1> DEFINE n == Cardinality(S)
           key == [x \in S |-> x]
           q == Numbered(S)
<1>1. IsKey(S, key)
  BY DEF IsKey
<1>2. \A x \in S : Below(S, key, x) = {m \in S : m < x}
  BY DEF Below
<1>3. /\ n \in Nat
      /\ \A i \in 0..(n - 1) : \E x \in S : Cardinality(Below(S, key, x)) = i
  <2> HIDE DEF key
  <2> QED BY <1>1, PlacesAreTaken
<1> HIDE DEF key
<1>4. q = [i \in 1..n |-> CHOOSE x \in S : Cardinality({m \in S : m < x}) = i - 1]
  BY DEF Numbered
<1>5. \A i \in 1..n : q[i] \in S /\ Cardinality(Below(S, key, q[i])) = i - 1
  <2> TAKE i \in 1..n
  <2>1. i - 1 \in 0..(n - 1)
    BY <1>3
  <2>2. PICK x \in S : Cardinality({m \in S : m < x}) = i - 1
    BY <1>2, <1>3, <2>1
  <2>3. q[i] \in S /\ Cardinality({m \in S : m < q[i]}) = i - 1
    <3>1. q[i] = CHOOSE y \in S : Cardinality({m \in S : m < y}) = i - 1
      BY <1>4
    <3> QED BY <2>2, <3>1, Zenon
  <2> QED BY <1>2, <2>3
<1>6. q \in [1..n -> S]
  <2> DEFINE e(i) == CHOOSE x \in S : Cardinality({m \in S : m < x}) = i - 1
  <2>1. q = [i \in 1..n |-> e(i)]
    BY <1>4
  <2> HIDE DEF q, n, e
  <2> QED BY <1>5, <2>1
<1>7. IsOrderOf(q, S, key)
  <2> HIDE DEF q
  <2> QED BY <1>1, <1>5, <1>6, OrderByPlaces
<1> QED BY <1>7 DEF key

-----------------------------------------------------------------------------
(* GPUs in order.                                                          *)

\* The GPUs of machines with G GPUs per node.
Machine(G) == Nat \X (1..G)

\* Their number, node by node.
GpuKey(S, G) == [gpu \in S |-> gpu[1] * (G + 1) + gpu[2]]

\* A GPU comes before another if its number is lower.
LEMMA BeforeByNumber ==
  ASSUME NEW G \in Nat, NEW S \in SUBSET Machine(G)
  PROVE  /\ IsKey(S, GpuKey(S, G))
         /\ \A a, b \in S : GpuKey(S, G)[a] < GpuKey(S, G)[b] <=> Before(a, b)
<1> DEFINE H == G + 1
           key == GpuKey(S, G)
<1>1. \A a \in S : a = <<a[1], a[2]>> /\ a[1] \in Nat /\ a[2] \in 1..G
  BY DEF Machine
<1>2. \A a \in S : key[a] = a[1] * H + a[2]
  BY DEF GpuKey
<1>3. H \in Nat \ {0} /\ H = G + 1
  OBVIOUS
<1> HIDE DEF H
<1>4. \A x, y \in Nat : x < y => x * H + H <= y * H
  <2> TAKE x \in Nat, y \in Nat
  <2> HAVE x < y
  <2>1. (x + 1) * H <= y * H
    BY <1>3, MultiplyMonotonic
  <2>2. (x + 1) * H = x * H + H
    BY <1>3
  <2> QED BY <2>1, <2>2
<1>5. \A x \in Nat : x * H \in Nat
  BY <1>3
<1>6. ASSUME NEW a \in S, NEW b \in S
      PROVE  /\ key[a] \in Int
             /\ key[a] < key[b] <=> Before(a, b)
             /\ key[a] = key[b] => a = b
  <2>1. PICK n, m \in Nat, x, y \in 1..G : a = <<n, x>> /\ b = <<m, y>>
    BY <1>1
  <2>2. a[1] = n /\ a[2] = x /\ b[1] = m /\ b[2] = y
    BY <2>1
  <2>3. key[a] = n * H + x /\ key[b] = m * H + y
    BY <1>2, <2>2
  <2>4. n * H \in Nat /\ m * H \in Nat /\ x < H /\ y < H /\ x > 0 /\ y > 0
    BY <1>3, <1>5
  <2>5. Before(a, b) <=> n < m \/ (n = m /\ x < y)
    BY <2>2 DEF Before
  <2> DEFINE p == n * H
             r == m * H
  <2>6. p \in Nat /\ r \in Nat /\ key[a] = p + x /\ key[b] = r + y
    BY <2>3, <2>4
  <2>7. (n < m => p + H <= r) /\ (m < n => r + H <= p) /\ (n = m => p = r)
    BY <1>4
  <2> HIDE DEF p, r
  <2>8. CASE n < m
    BY <1>3, <2>4, <2>5, <2>6, <2>7, <2>8
  <2>9. CASE m < n
    BY <1>3, <2>4, <2>5, <2>6, <2>7, <2>9
  <2>10. CASE n = m
    BY <2>1, <2>4, <2>5, <2>6, <2>7, <2>10
  <2> QED BY <2>8, <2>9, <2>10
<1> QED BY <1>6 DEF IsKey

\* The places of GPUs are those of InOrder.
LEMMA GpusInOrder ==
  ASSUME NEW G \in Nat, NEW S \in SUBSET Machine(G), IsFiniteSet(S)
  PROVE  IsOrderOf(InOrder(S), S, GpuKey(S, G))
<1> DEFINE n == Cardinality(S)
           key == GpuKey(S, G)
           q == InOrder(S)
<1>1. IsKey(S, key)
  BY BeforeByNumber
<1>2. \A x \in S : Below(S, key, x) = {m \in S : Before(m, x)}
  BY BeforeByNumber DEF Below
<1> HIDE DEF key
<1>3. /\ n \in Nat
      /\ \A i \in 0..(n - 1) : \E x \in S : Cardinality(Below(S, key, x)) = i
  BY <1>1, PlacesAreTaken
<1>4. q = [i \in 1..n |-> CHOOSE x \in S : Cardinality({m \in S : Before(m, x)}) = i - 1]
  BY DEF InOrder
<1>5. \A i \in 1..n : q[i] \in S /\ Cardinality(Below(S, key, q[i])) = i - 1
  <2> TAKE i \in 1..n
  <2>1. i - 1 \in 0..(n - 1)
    BY <1>3
  <2>2. PICK x \in S : Cardinality({m \in S : Before(m, x)}) = i - 1
    BY <1>2, <1>3, <2>1
  <2>3. q[i] \in S /\ Cardinality({m \in S : Before(m, q[i])}) = i - 1
    <3>1. q[i] = CHOOSE y \in S : Cardinality({m \in S : Before(m, y)}) = i - 1
      BY <1>4
    <3> QED BY <2>2, <3>1, Zenon
  <2> QED BY <1>2, <2>3
<1>6. q \in [1..n -> S]
  <2> DEFINE e(i) == CHOOSE x \in S : Cardinality({m \in S : Before(m, x)}) = i - 1
  <2>1. q = [i \in 1..n |-> e(i)]
    BY <1>4
  <2> HIDE DEF q, n, e
  <2> QED BY <1>5, <2>1
<1>7. IsOrderOf(q, S, key)
  <2> HIDE DEF q
  <2> QED BY <1>1, <1>5, <1>6, OrderByPlaces
<1> QED BY <1>7 DEF key

\* No GPU is twice in a placement group.
Distinct(pg) == \A a, b \in 1..Len(pg) : pg[a] = pg[b] => a = b

\* The number of a node's bundles is that of its GPUs.
LEMMA AsManyGpus ==
  ASSUME NEW V, NEW pg \in Seq(V), Distinct(pg)
  PROVE  IsFiniteSet(ToSet(pg)) /\ Cardinality(ToSet(pg)) = Len(pg)
<1> DEFINE n == Len(pg)
           f == [i \in 1..n |-> pg[i]]
<1>1. n \in Nat /\ DOMAIN pg = 1..n
  OBVIOUS
<1>2. ToSet(pg) = {pg[i] : i \in 1..n}
  BY <1>1 DEF ToSet
<1>3. f \in Bijection(1..n, ToSet(pg))
  <2>1. \A i \in 1..n : f[i] = pg[i]
    OBVIOUS
  <2>2. f \in [1..n -> ToSet(pg)]
    BY <1>2
  <2> HIDE DEF f
  <2> QED BY <1>2, <2>1, <2>2 DEF Distinct, Bijection, Injection, Surjection, IsInjective
<1>4. ExistsBijection(1..n, ToSet(pg))
  <2> HIDE DEF f
  <2> QED BY <1>3 DEF ExistsBijection
<1> HIDE DEF n
<1> QED BY <1>1, <1>4, FS_NatBijection, FS_CountingElements DEF n

\* _get_sorted_bundle_indices gives the bundles in the order of their GPUs.
LEMMA BundlesSorted ==
  ASSUME NEW G \in Nat, NEW pg \in Seq(Machine(G)), Distinct(pg)
  PROVE  LET gpus == ToSet(pg)
         IN  /\ IsFiniteSet(gpus) /\ Cardinality(gpus) = Len(pg) /\ gpus \in SUBSET Machine(G)
             /\ IsOrderOf(InOrder(gpus), gpus, GpuKey(gpus, G))
             /\ SortedBundles(pg) \in [1..Len(pg) -> 0..(Len(pg) - 1)]
             /\ Len(SortedBundles(pg)) = Len(pg)
             /\ \A i \in 1..Len(pg) : pg[SortedBundles(pg)[i] + 1] = InOrder(gpus)[i]
<1> DEFINE gpus == ToSet(pg)
           n == Len(pg)
           q == InOrder(gpus)
           t == SortedBundles(pg)
<1>1. IsFiniteSet(gpus) /\ Cardinality(gpus) = n
  BY AsManyGpus
<1>2. gpus = {pg[i] : i \in 1..n} /\ gpus \in SUBSET Machine(G) /\ n \in Nat
  BY DEF ToSet
<1>3. IsOrderOf(q, gpus, GpuKey(gpus, G))
  <2> HIDE DEF gpus
  <2> QED BY <1>1, <1>2, GpusInOrder
<1> DEFINE e(i) == CHOOSE b \in 0..(Len(pg) - 1) : pg[b + 1] = InOrder(ToSet(pg))[i]
<1>4. t = [i \in 1..n |-> e(i)]
  BY DEF SortedBundles
<1>5. ASSUME NEW i \in 1..n
      PROVE  e(i) \in 0..(n - 1) /\ pg[e(i) + 1] = q[i]
  <2>1. q[i] \in gpus
    BY <1>1, <1>3 DEF IsOrderOf
  <2>2. PICK a \in 1..n : pg[a] = q[i]
    <3> HIDE DEF q, n
    <3> QED BY <1>2, <2>1
  <2>3. a - 1 \in 0..(n - 1) /\ (a - 1) + 1 = a
    BY <1>2
  <2>4. \E b \in 0..(n - 1) : pg[b + 1] = q[i]
    <3>1. pg[(a - 1) + 1] = q[i]
      BY <2>2, <2>3
    <3> HIDE DEF q, n
    <3> QED BY <2>3, <3>1
  <2> QED BY <2>4, Zenon
<1> HIDE DEF e, q, gpus
<1>6. t \in [1..n -> 0..(n - 1)] /\ \A i \in 1..n : t[i] = e(i)
  <2> HIDE DEF t, n
  <2> QED BY <1>4, <1>5
<1>7. Len(t) = n
  <2> HIDE DEF t, n
  <2> QED BY <1>2, <1>6, FunctionIsSequence
<1> QED BY <1>1, <1>2, <1>3, <1>5, <1>6, <1>7 DEF q, gpus

-----------------------------------------------------------------------------
(* Where the workers of a group are.                                       *)

\* Workers of `size` bundles each in placement groups of q workers each.
Tied(n, q, size) ==
  [k \in 1..n |-> [index |-> (k - 1) \div q,
                   bundles |-> [b \in 1..size |-> ((k - 1) % q) * size + b - 1]]]

\* The k-th worker of placement group i.
KthWorker(i, k, size) ==
  [index |-> i - 1, bundles |-> [b \in 1..size |-> (k - 1) * size + b - 1]]

IsKthWorker(n, q, size, i, k, p) ==
  p \in 1..n /\ Tied(n, q, size)[p] = KthWorker(i, k, size)

\* It is where all workers of the placement groups before it have been counted.
LEMMA TiedAt ==
  ASSUME NEW m \in Nat, NEW q \in Nat, NEW size \in Nat, NEW i \in 1..m, NEW k \in 1..q,
         NEW n, n = m * q, NEW p, p = (i - 1) * q + k
  PROVE  IsKthWorker(n, q, size, i, k, p)
<1>1. (i - 1) \in Nat /\ (i - 1) * q \in Nat /\ m * q \in Nat /\ i * q \in Nat
  OBVIOUS
<1>2. i * q = (i - 1) * q + q
  OBVIOUS
<1>3. i * q <= m * q
  BY MultiplyMonotonic
<1>4. p \in 1..n
  <2> DEFINE x == (i - 1) * q
             y == i * q
             z == m * q
  <2>1. x \in Nat /\ z \in Nat /\ y = x + q /\ y <= z
    BY <1>1, <1>2, <1>3
  <2> HIDE DEF x, y, z
  <2>2. x + k \in 1..z
    BY <2>1
  <2> QED BY <2>2 DEF x, z
<1>5. p - 1 = (i - 1) * q + (k - 1) /\ k - 1 \in 0..(q - 1) /\ q \in Nat \ {0}
  BY <1>1
<1>6. (p - 1) \div q = i - 1 /\ (p - 1) % q = k - 1
  <2> DEFINE a == i - 1
             r == k - 1
  <2>1. a \in Nat /\ r \in 0..(q - 1) /\ q \in Nat \ {0} /\ p - 1 = a * q + r
    BY <1>1, <1>5
  <2> HIDE DEF a, r
  <2>2. (a * q + r) \div q = a /\ (a * q + r) % q = r
    BY ONLY <2>1, DivisionOf
  <2>3. (p - 1) \div q = a /\ (p - 1) % q = r
    BY ONLY <2>1, <2>2
  <2> QED BY ONLY <2>3 DEF a, r
<1>7. Tied(n, q, size)[p]
      = [index |-> (p - 1) \div q, bundles |-> [b \in 1..size |-> ((p - 1) % q) * size + b - 1]]
  BY <1>4 DEF Tied
<1>8. Tied(n, q, size)[p]
      = [index |-> i - 1, bundles |-> [b \in 1..size |-> (k - 1) * size + b - 1]]
  BY ONLY <1>6, <1>7
<1> QED BY <1>4, <1>8 DEF KthWorker, IsKthWorker

\* m placement groups of G bundles.
AlikeGroups(pgs, m, G) ==
  /\ m \in Nat /\ G \in Nat /\ Len(pgs) = m /\ \A i \in 1..m : Len(pgs[i]) = G

\* Groups of workers that are tied in every placement group.
LEMMA TiedGroups ==
  ASSUME NEW m, NEW G, NEW size \in Nat \ {0}, NEW pgs, AlikeGroups(pgs, m, G)
  PROVE  TiedPerGroup(pgs, size) = Tied(m * (G \div size), G \div size, size)
<1> DEFINE q == G \div size
           W == [index : Nat, bundles : [1..size -> Nat]]
           f == Tied(m * q, q, size)
           B == [i \in 0..m |-> i * q]
           parts == [i \in 1..m |-> TiedIn(i - 1, pgs[i], size)]
           cut == [i \in 1..m |-> [k \in 1..(B[i] - B[i - 1]) |-> f[B[i - 1] + k]]]
<1>1. m \in Nat /\ G \in Nat /\ Len(pgs) = m /\ \A i \in 1..m : Len(pgs[i]) = G
  BY DEF AlikeGroups
<1>2. q \in Nat
  BY <1>1
<1>3. TiedPerGroup(pgs, size) = FlattenSeq(parts)
  BY <1>1 DEF TiedPerGroup
<1>4. \A i \in 1..m : TiedIn(i - 1, pgs[i], size)
        = [k \in 1..q |-> [index |-> i - 1,
                           bundles |-> [b \in 1..size |-> (k - 1) * size + b - 1]]]
  BY <1>1 DEF TiedIn
<1> HIDE DEF q
<1>5. CASE m = 0
  <2>1. 1..0 = {} /\ m * q = 0
    BY <1>2, <1>5
  <2>2. parts = <<>> /\ Len(parts) = 0
    BY <1>5
  <2>3. FlattenSeq(parts) = parts
    <3> HIDE DEF parts
    <3> QED BY <2>2 DEF FlattenSeq
  <2>4. f = <<>>
    BY <2>1 DEF Tied
  <2> QED BY <1>3, <2>2, <2>3, <2>4 DEF q
<1>6. CASE m # 0
  <2>1. m \in Nat \ {0} /\ m * q \in Nat
    BY <1>1, <1>2, <1>6
  <2>2. f \in [1..(m * q) -> W]
    <3>1. ASSUME NEW k \in 1..(m * q)
          PROVE  (k - 1) \div q \in Nat /\ \A b \in 1..size : ((k - 1) % q) * size + b - 1 \in Nat
      <4>1. q \in Nat \ {0}
        BY <1>2, <2>1
      <4>2. k - 1 \in Nat
        BY <2>1
      <4>3. (k - 1) \div q \in Nat /\ (k - 1) % q \in Nat
        <5> DEFINE j == k - 1
        <5> HIDE DEF j
        <5>1. j \in Nat
          BY <4>2 DEF j
        <5>2. j \div q \in Nat /\ j % q \in 0..(q - 1)
          BY <4>1, <5>1, Division
        <5>3. j \div q \in Nat /\ j % q \in Nat
          BY <4>1, <5>2
        <5> QED BY <5>3 DEF j
      <4> DEFINE r == (k - 1) % q
      <4>4. r \in Nat
        BY <4>3
      <4> HIDE DEF r
      <4>5. r * size \in Nat
        BY <4>4
      <4>6. \A b \in 1..size : r * size + b - 1 \in Nat
        BY <4>5
      <4> QED BY <4>3, <4>6 DEF r
    <3> QED BY <3>1 DEF Tied
  <2>3. /\ B \in [0..m -> 0..(m * q)] /\ B[0] = 0 /\ B[m] = m * q
        /\ \A i \in 1..m : B[i - 1] <= B[i] /\ B[i] - B[i - 1] = q /\ B[i - 1] = (i - 1) * q
    <3>1. ASSUME NEW i \in 0..m PROVE i * q \in 0..(m * q)
      <4>1. i * q \in Nat /\ i * q <= m * q
        BY <1>1, <1>2, MultiplyMonotonic
      <4> QED BY <2>1, <4>1
    <3>2. ASSUME NEW i \in 1..m PROVE (i - 1) * q <= i * q /\ i * q - (i - 1) * q = q
      <4>1. (i - 1) * q \in Nat /\ i * q = (i - 1) * q + q
        BY <1>2
      <4> QED BY <1>2, <4>1
    <3>3. \A i \in 1..m : i \in 0..m /\ i - 1 \in 0..m
      BY <1>1
    <3>4. 0 \in 0..m /\ m \in 0..m /\ 0 * q = 0
      BY <1>1, <1>2
    <3> QED BY <3>1, <3>2, <3>3, <3>4
  <2>4. parts = cut
    <3>1. ASSUME NEW i \in 1..m
          PROVE  TiedIn(i - 1, pgs[i], size) = [k \in 1..q |-> f[(i - 1) * q + k]]
      <4>1. \A k \in 1..q : f[(i - 1) * q + k]
              = [index |-> i - 1, bundles |-> [b \in 1..size |-> (k - 1) * size + b - 1]]
        <5> TAKE k \in 1..q
        <5> DEFINE n == m * q
                   p == (i - 1) * q + k
        <5>1. /\ n = m * q /\ p = (i - 1) * q + k /\ m \in Nat /\ q \in Nat
              /\ size \in Nat /\ i \in 1..m /\ k \in 1..q
          BY <1>1, <1>2
        <5> HIDE DEF n, p
        <5>2. IsKthWorker(n, q, size, i, k, p)
          BY ONLY <5>1, TiedAt
        <5> QED BY <5>2 DEF n, p, KthWorker, IsKthWorker
      <4> HIDE DEF f
      <4> QED BY <1>4, <4>1
    <3> HIDE DEF f, B
    <3> QED BY <2>3, <3>1
  <2>5. CutInto(f, m * q, parts, m, B)
    <3> HIDE DEF f, B, parts
    <3> QED BY <2>3, <2>4 DEF CutInto
  <2>6. FlattenSeq(parts) = f
    <3> HIDE DEF f, B, parts, W
    <3> QED BY <2>1, <2>2, <2>5, FlattenParts
  <2> QED BY <1>3, <2>6 DEF q
<1> QED BY <1>1, <1>5, <1>6

\* One worker per bundle is a group of one worker.
LEMMA TiedAlone ==
  ASSUME NEW m, NEW G, NEW pgs, AlikeGroups(pgs, m, G)
  PROVE  PerBundle(pgs) = Tied(m * G, G, 1)
<1>1. m \in Nat /\ G \in Nat /\ Len(pgs) = m /\ \A i \in 1..m : Len(pgs[i]) = G
  BY DEF AlikeGroups
<1>2. G \div 1 = G
  BY <1>1
<1>3. TiedPerGroup(pgs, 1) = Tied(m * G, G, 1)
  BY <1>2, TiedGroups
<1> DEFINE One(i) == [b \in 1..Len(pgs[i]) |-> [index |-> i - 1, bundles |-> <<b - 1>>]]
<1>4. ASSUME NEW i \in 1..m
      PROVE  One(i) = TiedIn(i - 1, pgs[i], 1)
  <2>1. \A k \in Int : <<k - 1>> = [b \in 1..1 |-> (k - 1) * 1 + b - 1]
    OBVIOUS
  <2>2. Len(pgs[i]) \div 1 = Len(pgs[i]) /\ \A k \in 1..Len(pgs[i]) : k \in Int
    BY <1>1
  <2> QED BY <2>1, <2>2 DEF TiedIn
<1>5. [i \in 1..Len(pgs) |-> One(i)] = [i \in 1..Len(pgs) |-> TiedIn(i - 1, pgs[i], 1)]
  <2> HIDE DEF One
  <2> QED BY <1>1, <1>4
<1> QED BY <1>3, <1>5 DEF PerBundle, TiedPerGroup

\* Worker k is worker r + 1 of a placement group i.
HasPlace(w, k, m, q, size) ==
  \E i \in 1..m, r \in 0..(q - 1) :
    /\ k - 1 = (i - 1) * q + r
    /\ i - 1 = (k - 1) \div q /\ r = (k - 1) % q
    /\ w = [index |-> i - 1, bundles |-> [b \in 1..size |-> r * size + b - 1]]

\* Every worker is one of a placement group.
LEMMA TiedPlace ==
  ASSUME NEW m \in Nat, NEW q \in Nat, NEW size \in Nat, NEW n, n = m * q, NEW k \in 1..n
  PROVE  HasPlace(Tied(n, q, size)[k], k, m, q, size)
<1> DEFINE j == k - 1
           d == j \div q
           r == j % q
<1>1. n \in Nat /\ k \in Nat \ {0} /\ k <= n
  OBVIOUS
<1>2. q \in Nat \ {0}
  BY <1>1
<1>3. j \in Nat /\ j + 1 = k /\ j < n
  BY <1>1
<1> HIDE DEF j
<1>4. d \in Nat /\ r \in 0..(q - 1) /\ j = d * q + r
  BY <1>2, <1>3, Division
<1>5. Tied(n, q, size)[k]
      = [index |-> d, bundles |-> [b \in 1..size |-> r * size + b - 1]]
  BY DEF Tied, j
<1> HIDE DEF d, r
<1>6. d < m
  <2>1. d * q \in Nat /\ d * q <= j
    BY <1>2, <1>4
  <2>2. d * q < m * q
    BY <1>1, <1>3, <2>1
  <2> QED BY <1>2, <1>4, <2>2, MultiplyStrictly
<1> DEFINE i == d + 1
<1>7. i \in 1..m /\ i - 1 = d
  BY <1>4, <1>6
<1> HIDE DEF i
<1>8. k - 1 = (i - 1) * q + r /\ i - 1 = (k - 1) \div q /\ r = (k - 1) % q
  BY <1>4, <1>7 DEF j, d, r
<1>9. Tied(n, q, size)[k]
      = [index |-> i - 1, bundles |-> [b \in 1..size |-> r * size + b - 1]]
  BY <1>5, <1>7
<1> QED BY <1>4, <1>7, <1>8, <1>9 DEF HasPlace

\* The GPU of a bundle of one of the placement groups, or of the only one.
GpuAt(pgs, index, bundle) ==
  IF Len(pgs) = 1 THEN pgs[1][bundle + 1] ELSE pgs[index + 1][bundle + 1]

\* m placement groups of G bundles, no GPU in two of them.
DistinctGroups(pgs, m, G) ==
  /\ AlikeGroups(pgs, m, G)
  /\ \A i, j \in 1..m : \A a, b \in 1..G : pgs[i][a] = pgs[j][b] => i = j /\ a = b

\* n workers of `size` bundles, each on GPUs of its own, in one placement group.
Apart(ws, n, size, pgs) ==
  /\ \A k \in 1..n : DOMAIN ws[k].bundles = 1..size
  /\ \A k \in 1..n : \E i \in 1..Len(pgs) : \A b \in 1..size : \E a \in 1..Len(pgs[i]) :
       GpuAt(pgs, ws[k].index, ws[k].bundles[b]) = pgs[i][a]
  /\ \A k, l \in 1..n : \A b, d \in 1..size :
       GpuAt(pgs, ws[k].index, ws[k].bundles[b]) = GpuAt(pgs, ws[l].index, ws[l].bundles[d])
         => k = l /\ b = d

\* The a-th of the G bundles of placement group i.
IsBundle(pgs, i, a, G) == a \in 1..G /\ GpuAt(pgs, i - 1, a - 1) = pgs[i][a]

\* The GPU of a bundle of a tied worker.
LEMMA TiedGpu ==
  ASSUME NEW m \in Nat, NEW G \in Nat, NEW size \in Nat \ {0}, NEW pgs, AlikeGroups(pgs, m, G),
         NEW q, q = G \div size, NEW i \in 1..m, NEW r \in 0..(q - 1), NEW b \in 1..size,
         NEW a, a = r * size + b
  PROVE  IsBundle(pgs, i, a, G)
<1>1. Len(pgs) = m
  BY DEF AlikeGroups
<1>2. q \in Nat /\ q * size <= G
  <2>1. q \in Nat /\ G % size \in 0..(size - 1) /\ G = q * size + (G % size)
    BY Division
  <2>2. q * size \in Nat
    BY <2>1
  <2> QED BY <2>1, <2>2
<1>3. r \in Nat /\ r + 1 <= q
  BY <1>2
<1>4. (r + 1) * size <= q * size
  BY <1>2, <1>3, MultiplyMonotonic
<1>5. (r + 1) * size = r * size + size /\ r * size \in Nat /\ q * size \in Nat
  BY <1>2, <1>3
<1> DEFINE x == r * size
<1>6. x \in Nat /\ x + size <= G
  BY <1>2, <1>4, <1>5
<1> HIDE DEF x
<1>7. x + b \in 1..G /\ (x + b - 1) + 1 = x + b
  BY <1>6
<1>8. (i - 1) + 1 = i /\ (m = 1 => i = 1)
  OBVIOUS
<1>9. GpuAt(pgs, i - 1, x + b - 1) = pgs[i][x + b]
  BY <1>1, <1>7, <1>8 DEF GpuAt
<1> QED BY <1>7, <1>9 DEF x, IsBundle

\* Tied workers share no GPU.
LEMMA TiedApart ==
  ASSUME NEW m \in Nat, NEW G \in Nat, NEW size \in Nat \ {0}, NEW pgs, DistinctGroups(pgs, m, G),
         NEW q, q = G \div size, NEW n, n = m * q
  PROVE  Apart(Tied(n, q, size), n, size, pgs)
<1> DEFINE ws == Tied(n, q, size)
<1>1. /\ AlikeGroups(pgs, m, G) /\ Len(pgs) = m /\ \A i \in 1..m : Len(pgs[i]) = G
      /\ \A i, j \in 1..m : \A a, b \in 1..G : pgs[i][a] = pgs[j][b] => i = j /\ a = b
  BY DEF DistinctGroups, AlikeGroups
<1>2. q \in Nat
  BY Division
<1>3. ASSUME NEW k \in 1..n
      PROVE  \E i \in 1..m, r \in 0..(q - 1) :
               /\ k - 1 = (i - 1) * q + r
               /\ ws[k] = [index |-> i - 1, bundles |-> [b \in 1..size |-> r * size + b - 1]]
  <2>1. HasPlace(ws[k], k, m, q, size)
    <3>1. m \in Nat /\ size \in Nat /\ n = m * q /\ k \in 1..n
      OBVIOUS
    <3> QED BY ONLY <1>2, <3>1, TiedPlace
  <2> HIDE DEF ws
  <2> QED BY <2>1, Zenon DEF HasPlace
<1> HIDE DEF ws
<1>4. ASSUME NEW k \in 1..n
      PROVE  /\ DOMAIN ws[k].bundles = 1..size
             /\ \E i \in 1..m, r \in 0..(q - 1) :
                  /\ k - 1 = (i - 1) * q + r
                  /\ \A b \in 1..size :
                       /\ r * size + b \in 1..G
                       /\ GpuAt(pgs, ws[k].index, ws[k].bundles[b]) = pgs[i][r * size + b]
  <2>1. PICK i \in 1..m, r \in 0..(q - 1) :
          /\ k - 1 = (i - 1) * q + r
          /\ ws[k] = [index |-> i - 1, bundles |-> [b \in 1..size |-> r * size + b - 1]]
    BY <1>3
  <2>2. /\ ws[k].index = i - 1 /\ DOMAIN ws[k].bundles = 1..size
        /\ \A b \in 1..size : ws[k].bundles[b] = r * size + b - 1
    BY ONLY <2>1
  <2>3. \A b \in 1..size :
          /\ r * size + b \in 1..G
          /\ GpuAt(pgs, i - 1, r * size + b - 1) = pgs[i][r * size + b]
    <3> TAKE b \in 1..size
    <3> DEFINE a == r * size + b
    <3>1. a = r * size + b
      OBVIOUS
    <3> HIDE DEF a
    <3>2. IsBundle(pgs, i, a, G)
      <4>1. /\ m \in Nat /\ G \in Nat /\ size \in Nat \ {0} /\ q = G \div size
            /\ i \in 1..m /\ r \in 0..(q - 1) /\ b \in 1..size
        OBVIOUS
      <4> QED BY ONLY <1>1, <3>1, <4>1, TiedGpu
    <3> QED BY <3>2 DEF a, IsBundle
  <2>4. \A b \in 1..size :
          /\ r * size + b \in 1..G
          /\ GpuAt(pgs, ws[k].index, ws[k].bundles[b]) = pgs[i][r * size + b]
    BY <2>2, <2>3
  <2> QED BY ONLY <2>1, <2>2, <2>4, i \in 1..m, r \in 0..(q - 1)
<1>5. ASSUME NEW k \in 1..n, NEW l \in 1..n, NEW b \in 1..size, NEW d \in 1..size,
             GpuAt(pgs, ws[k].index, ws[k].bundles[b]) = GpuAt(pgs, ws[l].index, ws[l].bundles[d])
      PROVE  k = l /\ b = d
  <2>1. PICK i \in 1..m, r \in 0..(q - 1) :
          /\ k - 1 = (i - 1) * q + r /\ r * size + b \in 1..G
          /\ GpuAt(pgs, ws[k].index, ws[k].bundles[b]) = pgs[i][r * size + b]
    BY <1>4
  <2>2. PICK j \in 1..m, s \in 0..(q - 1) :
          /\ l - 1 = (j - 1) * q + s /\ s * size + d \in 1..G
          /\ GpuAt(pgs, ws[l].index, ws[l].bundles[d]) = pgs[j][s * size + d]
    BY <1>4
  <2> DEFINE x == r * size + b
             y == s * size + d
  <2>3. i = j /\ x = y
    <3>1. pgs[i][x] = pgs[j][y] /\ x \in 1..G /\ y \in 1..G
      BY <1>5, <2>1, <2>2
    <3>2. i \in 1..m /\ j \in 1..m
      OBVIOUS
    <3> HIDE DEF x, y
    <3> QED BY ONLY <1>1, <3>1, <3>2
  <2>4. r * size + (b - 1) = s * size + (d - 1)
    <3>1. r \in Nat /\ s \in Nat
      BY <1>2
    <3>2. r * size \in Nat /\ s * size \in Nat
      BY <3>1
    <3> QED BY <2>3, <3>2
  <2>5. r = s /\ b = d
    <3> DEFINE u == b - 1
               v == d - 1
    <3>1. /\ r \in Nat /\ s \in Nat /\ u \in Nat /\ v \in Nat /\ u < size /\ v < size
          /\ size \in Nat /\ size > 0 /\ s * size + v = r * size + u
      BY <1>2, <2>4
    <3>2. u = v => b = d
      OBVIOUS
    <3> HIDE DEF u, v
    <3>3. r = s /\ u = v
      BY ONLY <3>1, QuotientUnique
    <3> QED BY <3>2, <3>3
  <2>6. k - 1 = l - 1
    BY <2>1, <2>2, <2>3, <2>5
  <2>7. k \in Int /\ l \in Int
    <3>1. n \in Nat
      BY <1>2
    <3> QED BY <3>1
  <2> QED BY <2>5, <2>6, <2>7
<1>6. ASSUME NEW k \in 1..n
      PROVE  \E i \in 1..Len(pgs) : \A b \in 1..size : \E a \in 1..Len(pgs[i]) :
               GpuAt(pgs, ws[k].index, ws[k].bundles[b]) = pgs[i][a]
  <2>1. PICK i \in 1..m, r \in 0..(q - 1) :
          \A x \in 1..size :
            /\ r * size + x \in 1..G
            /\ GpuAt(pgs, ws[k].index, ws[k].bundles[x]) = pgs[i][r * size + x]
    BY <1>4
  <2>2. i \in 1..Len(pgs) /\ \A b \in 1..size : r * size + b \in 1..Len(pgs[i])
    BY <1>1, <2>1
  <2>3. \A b \in 1..size : \E a \in 1..Len(pgs[i]) :
          GpuAt(pgs, ws[k].index, ws[k].bundles[b]) = pgs[i][a]
    BY <2>1, <2>2
  <2> QED BY <2>2, <2>3
<1>7. \A k \in 1..n : DOMAIN ws[k].bundles = 1..size
  BY <1>4
<1>8. \A k \in 1..n : \E i \in 1..Len(pgs) : \A b \in 1..size : \E a \in 1..Len(pgs[i]) :
          GpuAt(pgs, ws[k].index, ws[k].bundles[b]) = pgs[i][a]
  BY <1>6
<1>9. \A k, l \in 1..n : \A b, d \in 1..size :
        GpuAt(pgs, ws[k].index, ws[k].bundles[b]) = GpuAt(pgs, ws[l].index, ws[l].bundles[d])
          => k = l /\ b = d
  BY <1>5
<1> QED BY <1>7, <1>8, <1>9 DEF Apart, ws

\* The workers of a policy in the order of the GPUs of a single placement group
\* share no GPU.
LEMMA SortedApart ==
  ASSUME NEW G \in Nat, NEW pgs, Len(pgs) = 1, pgs[1] \in Seq(Machine(G)), Distinct(pgs[1]),
         NEW h
  PROVE  LET t == SortedBundles(pgs[1])
         IN  Apart([i \in 1..Len(t) |-> [index |-> (i - 1) \div h, bundles |-> <<t[i]>>]],
                   Len(pgs[1]), 1, pgs)
<1> DEFINE pg == pgs[1]
           n == Len(pg)
           t == SortedBundles(pg)
           q == InOrder(ToSet(pg))
           ws == [i \in 1..Len(t) |-> [index |-> (i - 1) \div h, bundles |-> <<t[i]>>]]
<1>1. /\ t \in [1..n -> 0..(n - 1)] /\ Len(t) = n
      /\ \A i \in 1..n : pg[t[i] + 1] = q[i]
      /\ IsOrderOf(q, ToSet(pg), GpuKey(ToSet(pg), G))
      /\ Cardinality(ToSet(pg)) = n
  BY BundlesSorted
<1>2. n \in Nat
  OBVIOUS
<1> HIDE DEF t, q, n, pg
<1>3. ASSUME NEW k \in 1..n
      PROVE  /\ DOMAIN ws[k].bundles = 1..1
             /\ \A b \in 1..1 : ws[k].bundles[b] = t[k]
  BY <1>1
<1>4. ASSUME NEW k \in 1..n, NEW b \in 1..1
      PROVE  GpuAt(pgs, ws[k].index, ws[k].bundles[b]) = q[k]
  <2>1. ws[k].bundles[b] = t[k]
    BY <1>3
  <2> HIDE DEF ws
  <2> QED BY <1>1, <2>1 DEF GpuAt, pg
<1> HIDE DEF ws
<1>5. ASSUME NEW k \in 1..n
      PROVE  \E i \in 1..Len(pgs) : \A b \in 1..1 : \E a \in 1..Len(pgs[i]) :
               GpuAt(pgs, ws[k].index, ws[k].bundles[b]) = pgs[i][a]
  <2>1. t[k] + 1 \in 1..n /\ pg[t[k] + 1] = q[k]
    <3>1. t[k] \in 0..(n - 1)
      BY <1>1
    <3>2. t[k] + 1 \in 1..n
      BY <1>2, <3>1
    <3> QED BY <1>1, <3>2
  <2>2. 1 \in 1..Len(pgs)
    OBVIOUS
  <2>3. t[k] + 1 \in 1..Len(pgs[1]) /\ pgs[1][t[k] + 1] = q[k]
    BY <2>1 DEF pg, n
  <2> QED BY <1>4, <2>2, <2>3
<1>6. ASSUME NEW k \in 1..n, NEW l \in 1..n, q[k] = q[l]
      PROVE  k = l
  <2>1. /\ \A i \in 1..n : q[i] \in ToSet(pg)
        /\ \A i \in 1..n : Cardinality(Below(ToSet(pg), GpuKey(ToSet(pg), G), q[i])) = i - 1
    BY <1>1 DEF IsOrderOf
  <2>2. k - 1 = l - 1
    BY <1>6, <2>1
  <2> QED BY <1>2, <2>2
<1>7. \A b, d \in 1..1 : b = d
  OBVIOUS
<1>8. Apart(ws, n, 1, pgs)
  BY <1>3, <1>4, <1>5, <1>6, <1>7 DEF Apart
<1> QED BY <1>8 DEF ws, n, t, pg

\* In an ascending sequence of numbers, those that are d places later are
\* higher by d at least.
LEMMA AscendingBy ==
  ASSUME NEW n \in Nat, NEW q \in [1..n -> Int],
         \A i, j \in 1..n : i < j => q[i] < q[j],
         NEW i \in 1..n, NEW d \in 0..(n - i)
  PROVE  q[i] + d <= q[i + d]
<1> DEFINE T == {k \in 0..(n - i) : q[i] + k <= q[i + k]}
<1>1. n - i \in Nat
  OBVIOUS
<1>2. 0 \in T
  OBVIOUS
<1>3. ASSUME NEW k \in 0..((n - i) - 1), k \in T PROVE k + 1 \in T
  <2>1. i + k \in 1..n /\ i + (k + 1) \in 1..n /\ i + k < i + (k + 1)
    OBVIOUS
  <2>2. q[i + k] < q[i + (k + 1)] /\ q[i + k] \in Int /\ q[i + (k + 1)] \in Int /\ q[i] \in Int
    BY <2>1
  <2>3. q[i] + k <= q[i + k]
    BY <1>3
  <2>4. q[i] + (k + 1) <= q[i + (k + 1)]
    BY <2>2, <2>3
  <2>5. k + 1 \in 0..(n - i)
    OBVIOUS
  <2> QED BY <2>4, <2>5
<1> HIDE DEF T
<1>4. \A k \in 0..(n - i) : k \in T
  BY <1>1, <1>2, <1>3, InductionTo
<1> QED BY <1>4 DEF T

\* The bundles of a placement group that are on a node, and all of them node by
\* node (allocate_worker_groups).
BundlesOn(pg, node) == {b \in 0..(Len(pg) - 1) : pg[b + 1][1] = node}
NodesInOrder(pg) == Numbered(NodesOf(pg))
Flat(pg) ==
  FlattenSeq([i \in 1..Len(NodesInOrder(pg)) |-> Numbered(BundlesOn(pg, NodesInOrder(pg)[i]))])

\* Every node has equally many bundles.
EvenNodes(pg) == \A n, m \in NodesOf(pg) : On(n, ToSet(pg)) = On(m, ToSet(pg))

\* Bundle number p of Flat is bundle v of node number i.
FlatPlace(pg, m, h, i, v, p) ==
  /\ i \in 1..m /\ v \in 1..h /\ p - 1 = (i - 1) * h + (v - 1)
  /\ NodesInOrder(pg)[i] \in NodesOf(pg)
  /\ Flat(pg)[p] = Numbered(BundlesOn(pg, NodesInOrder(pg)[i]))[v]

\* m nodes of h bundles each: their numbers go up node by node, every bundle comes once.
EvenlyFlat(pg, m, h) ==
  /\ m \in Nat /\ h \in Nat
  /\ IsOrderOf(NodesInOrder(pg), NodesOf(pg), [n \in NodesOf(pg) |-> n])
  /\ Len(NodesInOrder(pg)) = m
  /\ \A n \in NodesOf(pg) : /\ Len(Numbered(BundlesOn(pg, n))) = h
                            /\ IsOrderOf(Numbered(BundlesOn(pg, n)), BundlesOn(pg, n),
                                         [b \in BundlesOn(pg, n) |-> b])
  /\ Flat(pg) \in [1..(m * h) -> 0..(Len(pg) - 1)] /\ Len(Flat(pg)) = m * h
  /\ \A p \in 1..(m * h) : \E i \in 1..m, v \in 1..h : FlatPlace(pg, m, h, i, v, p)

\* The number of bundles on a node is that of its GPUs.
LEMMA BundlesOnNode ==
  ASSUME NEW G \in Nat, NEW pg \in Seq(Machine(G)), Distinct(pg), NEW node
  PROVE  /\ IsFiniteSet(BundlesOn(pg, node)) /\ BundlesOn(pg, node) \in SUBSET Int
         /\ Cardinality(BundlesOn(pg, node)) = On(node, ToSet(pg))
<1> DEFINE S == BundlesOn(pg, node)
           T == {gpu \in ToSet(pg) : gpu[1] = node}
           f == [b \in S |-> pg[b + 1]]
<1>1. Len(pg) \in Nat /\ ToSet(pg) = {pg[i] : i \in 1..Len(pg)}
  BY DEF ToSet
<1>2. S \in SUBSET (0..(Len(pg) - 1)) /\ IsFiniteSet(0..(Len(pg) - 1))
  <2>1. 0 \in Int /\ Len(pg) - 1 \in Int
    BY <1>1
  <2>2. IsFiniteSet(0..(Len(pg) - 1))
    BY ONLY <2>1, FS_Interval
  <2> QED BY <2>2 DEF BundlesOn
<1>3. IsFiniteSet(S)
  BY <1>2, FS_Subset
<1>4. f \in Bijection(S, T)
  <2>1. \A b \in S : b + 1 \in 1..Len(pg) /\ pg[b + 1][1] = node /\ f[b] = pg[b + 1]
    BY <1>1 DEF BundlesOn
  <2>2. f \in [S -> T]
    BY <1>1, <2>1
  <2>3. \A a, b \in S : f[a] = f[b] => a = b
    <3> SUFFICES ASSUME NEW a \in S, NEW b \in S, f[a] = f[b] PROVE a = b
      OBVIOUS
    <3>1. a + 1 \in 1..Len(pg) /\ b + 1 \in 1..Len(pg) /\ pg[a + 1] = pg[b + 1]
      BY <2>1
    <3>2. a + 1 = b + 1 /\ a \in Int /\ b \in Int
      BY <1>2, <3>1 DEF Distinct
    <3> QED BY <3>2
  <2>4. \A gpu \in T : \E b \in S : f[b] = gpu
    <3> SUFFICES ASSUME NEW gpu \in T PROVE \E b \in S : f[b] = gpu
      OBVIOUS
    <3>1. PICK i \in 1..Len(pg) : pg[i] = gpu
      BY <1>1
    <3>2. i - 1 \in 0..(Len(pg) - 1) /\ (i - 1) + 1 = i /\ pg[i][1] = node
      BY <3>1
    <3>3. i - 1 \in S
      BY <3>2 DEF BundlesOn
    <3>4. f[i - 1] = gpu
      BY <2>1, <3>1, <3>2, <3>3
    <3> QED BY <3>3, <3>4
  <2> HIDE DEF f, S, T
  <2> QED BY <2>2, <2>3, <2>4 DEF Bijection, Injection, Surjection, IsInjective
<1>5. Cardinality(T) = Cardinality(S)
  <2>1. ExistsBijection(S, T)
    <3> HIDE DEF f, S, T
    <3> QED BY <1>4 DEF ExistsBijection
  <2> HIDE DEF f, S, T
  <2> QED BY <1>3, <2>1, FS_Bijection
<1> HIDE DEF f
<1>6. S \in SUBSET Int
  BY <1>1, <1>2
<1> QED BY <1>3, <1>5, <1>6 DEF On

\* What EvenlyFlat says of the places.
LEMMA FlatEvenly ==
  ASSUME NEW G \in Nat, NEW pg \in Seq(Machine(G)), Distinct(pg), EvenNodes(pg)
  PROVE  \E m, h : EvenlyFlat(pg, m, h)
<1> DEFINE N == NodesOf(pg)
           nodes == NodesInOrder(pg)
           m == Cardinality(N)
           h == IF m = 0 THEN 0 ELSE On(nodes[1], ToSet(pg))
           S(n) == BundlesOn(pg, n)
           part(i) == Numbered(S(nodes[i]))
           parts == [i \in 1..Len(nodes) |-> part(i)]
           f == [k \in 1..(m * h) |-> part((k - 1) \div h + 1)[((k - 1) % h) + 1]]
           B == [i \in 0..m |-> i * h]
           V == 0..(Len(pg) - 1)
<1>1. DOMAIN pg = 1..Len(pg) /\ Len(pg) \in Nat /\ \A b \in 1..Len(pg) : pg[b][1] \in Nat
  BY DEF Machine
<1>2. N \in SUBSET Nat /\ IsFiniteSet(N)
  <2> DEFINE g == [b \in 1..Len(pg) |-> pg[b][1]]
  <2>1. g \in Surjection(1..Len(pg), N)
    BY <1>1 DEF NodesOf, Surjection
  <2>2. IsFiniteSet(1..Len(pg))
    BY <1>1, FS_Interval
  <2> HIDE DEF g, N
  <2>3. IsFiniteSet(N)
    BY <2>1, <2>2, FS_Surjection
  <2> QED BY <1>1, <2>3 DEF N, NodesOf
<1>3. IsOrderOf(nodes, N, [n \in N |-> n]) /\ Len(nodes) = m /\ m \in Nat
  <2>1. N \in SUBSET Int
    BY <1>2
  <2> HIDE DEF N
  <2>2. IsOrderOf(Numbered(N), N, [n \in N |-> n])
    BY <1>2, <2>1, NumberedInOrder
  <2>3. m \in Nat
    BY <1>2, FS_CardinalityType
  <2> QED BY <2>2, <2>3 DEF IsOrderOf, NodesInOrder, N
<1>4. \A i \in 1..m : nodes[i] \in N
  BY <1>3 DEF IsOrderOf
<1>5. \A n \in N : /\ IsFiniteSet(S(n)) /\ S(n) \in SUBSET Int
                   /\ Cardinality(S(n)) = On(n, ToSet(pg))
                   /\ Cardinality(S(n)) \in Nat
  <2> TAKE n \in N
  <2>1. IsFiniteSet(S(n)) /\ S(n) \in SUBSET Int /\ Cardinality(S(n)) = On(n, ToSet(pg))
    BY BundlesOnNode
  <2> QED BY <2>1, FS_CardinalityType
<1>6. \A n \in N : On(n, ToSet(pg)) = h
  <2> TAKE n \in N
  <2>1. m # 0
    BY <1>2, FS_EmptySet
  <2>2. nodes[1] \in N
    BY <1>3, <1>4, <2>1
  <2> QED BY <2>1, <2>2 DEF EvenNodes
<1>7. h \in Nat
  <2>1. CASE m = 0
    BY <2>1
  <2>2. CASE m # 0
    <3>1. nodes[1] \in N
      BY <1>3, <1>4, <2>2
    <3> QED BY <1>5, <1>6, <3>1
  <2> QED BY <2>1, <2>2
<1>8. \A n \in N : IsOrderOf(Numbered(S(n)), S(n), [b \in S(n) |-> b]) /\ Len(Numbered(S(n))) = h
  <2> TAKE n \in N
  <2> DEFINE s == S(n)
  <2>1. IsFiniteSet(s) /\ s \in SUBSET Int /\ Cardinality(s) = h
    BY <1>5, <1>6
  <2> HIDE DEF s, h
  <2>2. IsOrderOf(Numbered(s), s, [b \in s |-> b])
    BY <2>1, NumberedInOrder
  <2>3. Len(Numbered(s)) = h
    BY <2>1, <2>2 DEF IsOrderOf
  <2> QED BY <2>2, <2>3 DEF s
<1>9. \A i \in 1..m : part(i) \in [1..h -> V] /\ Len(part(i)) = h
  <2> TAKE i \in 1..m
  <2>1. nodes[i] \in N
    BY <1>4
  <2>2. Len(part(i)) = h /\ part(i) \in [1..h -> S(nodes[i])]
    BY <1>8, <2>1 DEF IsOrderOf
  <2>3. S(nodes[i]) \subseteq V
    BY DEF BundlesOn
  <2> QED BY <2>2, <2>3
<1> HIDE DEF N, nodes, m, h, S, part, V
<1>10. \A p \in 1..(m * h) : \E i \in 1..m, r \in 0..(h - 1) :
         p - 1 = (i - 1) * h + r /\ i - 1 = (p - 1) \div h /\ r = (p - 1) % h
  <2> TAKE p \in 1..(m * h)
  <2> DEFINE n == m * h
  <2>1. n = m * h /\ p \in 1..n /\ 1 \in Nat
    OBVIOUS
  <2> HIDE DEF n
  <2>2. HasPlace(Tied(n, h, 1)[p], p, m, h, 1)
    BY ONLY <1>3, <1>7, <2>1, TiedPlace
  <2> QED BY <2>2 DEF HasPlace
<1>11. \A p \in 1..(m * h) : \E i \in 1..m, v \in 1..h :
         p - 1 = (i - 1) * h + (v - 1) /\ f[p] = part(i)[v]
  <2> TAKE p \in 1..(m * h)
  <2>1. PICK i \in 1..m, r \in 0..(h - 1) :
          p - 1 = (i - 1) * h + r /\ i - 1 = (p - 1) \div h /\ r = (p - 1) % h
    BY <1>10
  <2>2. (p - 1) \div h + 1 = i /\ ((p - 1) % h) + 1 = r + 1
    BY <1>3, <2>1
  <2>3. f[p] = part(i)[r + 1]
    BY <2>2
  <2>4. r + 1 \in 1..h /\ (r + 1) - 1 = r
    BY <1>7
  <2> HIDE DEF f
  <2> QED BY <2>1, <2>3, <2>4
<1>12. f \in [1..(m * h) -> V]
  <2>1. \A p \in 1..(m * h) : f[p] \in V
    <3> HIDE DEF f
    <3> QED BY <1>9, <1>11
  <2>2. f = [p \in 1..(m * h) |-> f[p]]
    OBVIOUS
  <2> HIDE DEF f
  <2> QED BY <2>1, <2>2
<1>13. m * h \in Nat
  BY <1>3, <1>7
<1>14. Flat(pg) = FlattenSeq(parts) /\ parts = [i \in 1..m |-> part(i)]
  BY <1>3 DEF Flat, nodes, part, S
<1>15. Flat(pg) = f
  <2>1. CASE m = 0
    <3>1. m * h = 0 /\ 1..0 = {}
      BY <1>7, <2>1
    <3>2. parts = <<>> /\ Len(parts) = 0
      BY <1>3, <2>1
    <3>3. f = <<>>
      BY <3>1
    <3>4. FlattenSeq(parts) = parts
      <4> HIDE DEF parts
      <4> QED BY <3>2 DEF FlattenSeq
    <3> QED BY <1>14, <3>2, <3>3, <3>4
  <2>2. CASE m # 0
    <3>1. /\ B \in [0..m -> 0..(m * h)] /\ B[0] = 0 /\ B[m] = m * h
          /\ \A i \in 1..m : B[i - 1] <= B[i] /\ B[i] - B[i - 1] = h /\ B[i - 1] = (i - 1) * h
      <4>1. ASSUME NEW i \in 0..m PROVE i * h \in 0..(m * h)
        <5>1. i * h \in Nat /\ i * h <= m * h
          BY <1>3, <1>7, MultiplyMonotonic
        <5> QED BY <1>13, <5>1
      <4>2. ASSUME NEW i \in 1..m PROVE (i - 1) * h <= i * h /\ i * h - (i - 1) * h = h
        <5>1. (i - 1) * h \in Nat /\ i * h = (i - 1) * h + h
          BY <1>3, <1>7
        <5> QED BY <1>7, <5>1
      <4>3. \A i \in 1..m : i \in 0..m /\ i - 1 \in 0..m
        BY <1>3
      <4>4. 0 \in 0..m /\ m \in 0..m /\ 0 * h = 0
        BY <1>3, <1>7
      <4> QED BY <4>1, <4>2, <4>3, <4>4
    <3>2. ASSUME NEW i \in 1..m
          PROVE  part(i) = [k \in 1..h |-> f[(i - 1) * h + k]]
      <4>1. ASSUME NEW k \in 1..h
            PROVE  f[(i - 1) * h + k] = part(i)[k]
        <5> DEFINE n == m * h
                   p == (i - 1) * h + k
        <5>1. n = m * h /\ p = (i - 1) * h + k /\ 1 \in Nat
          OBVIOUS
        <5> HIDE DEF n, p
        <5>6. /\ m \in Nat /\ h \in Nat /\ 1 \in Nat /\ i \in 1..m /\ k \in 1..h
              /\ n = m * h /\ p = (i - 1) * h + k
          BY <1>3, <1>7, <5>1
        <5>2. IsKthWorker(n, h, 1, i, k, p)
          BY ONLY <5>6, TiedAt
        <5>3. (p - 1) \div h = i - 1 /\ (p - 1) % h = k - 1
          <6> DEFINE a == i - 1
                     r == k - 1
          <6>1. a \in Nat /\ r \in 0..(h - 1) /\ h \in Nat \ {0} /\ (i - 1) * h \in Nat
            BY <1>3, <1>7
          <6>2. p - 1 = a * h + r
            BY <5>1, <6>1
          <6> HIDE DEF a, r
          <6>3. (a * h + r) \div h = a /\ (a * h + r) % h = r
            BY ONLY <6>1, DivisionOf
          <6>4. (p - 1) \div h = a /\ (p - 1) % h = r
            BY ONLY <6>2, <6>3
          <6> QED BY ONLY <6>4 DEF a, r
        <5>4. (p - 1) \div h + 1 = i /\ ((p - 1) % h) + 1 = k
          BY <1>3, <1>7, <5>3
        <5>5. f[p] = part(i)[k]
          BY <5>1, <5>2, <5>4 DEF IsKthWorker
        <5> HIDE DEF f
        <5> QED BY <5>5 DEF p
      <4>2. part(i) = [k \in 1..h |-> part(i)[k]]
        BY <1>9
      <4> HIDE DEF f
      <4> QED BY <4>1, <4>2
    <3> HIDE DEF f, B
    <3>3. parts = [i \in 1..m |-> [k \in 1..(B[i] - B[i - 1]) |-> f[B[i - 1] + k]]]
      <4>1. \A i \in 1..m : part(i) = [k \in 1..(B[i] - B[i - 1]) |-> f[B[i - 1] + k]]
        <5> TAKE i \in 1..m
        <5>1. B[i] - B[i - 1] = h /\ B[i - 1] = (i - 1) * h
          BY <3>1
        <5> HIDE DEF part
        <5> QED BY <3>2, <5>1
      <4>2. parts = [i \in 1..m |-> part(i)]
        BY <1>14
      <4> HIDE DEF part, parts
      <4> QED BY <4>1, <4>2
    <3>4. CutInto(f, m * h, parts, m, B)
      <4> HIDE DEF parts
      <4> QED BY <3>1, <3>3 DEF CutInto
    <3>5. m \in Nat \ {0}
      BY <1>3, <2>2
    <3>6. FlattenSeq(parts) = f
      <4> HIDE DEF parts
      <4> QED BY <1>12, <1>13, <3>4, <3>5, FlattenParts
    <3> QED BY <1>14, <3>6
  <2> QED BY <2>1, <2>2
<1> HIDE DEF f, parts, B
<1>16. Len(Flat(pg)) = m * h
  BY <1>12, <1>13, <1>15, FunctionIsSequence
<1>17. \A p \in 1..(m * h) : \E i \in 1..m, v \in 1..h : FlatPlace(pg, m, h, i, v, p)
  <2> TAKE p \in 1..(m * h)
  <2>1. PICK i \in 1..m, v \in 1..h : p - 1 = (i - 1) * h + (v - 1) /\ f[p] = part(i)[v]
    BY <1>11
  <2>2. nodes[i] \in N
    BY <1>4
  <2>3. FlatPlace(pg, m, h, i, v, p)
    BY <1>15, <2>1, <2>2 DEF FlatPlace, part, S, nodes, N
  <2> QED BY <2>3
<1>18. EvenlyFlat(pg, m, h)
  BY <1>3, <1>7, <1>8, <1>12, <1>15, <1>16, <1>17 DEF EvenlyFlat, nodes, N, S, V
<1> QED BY <1>18

\* The facts about one place of Flat.
LEMMA FlatAt ==
  ASSUME NEW G \in Nat, NEW pg \in Seq(Machine(G)), NEW m, NEW h, EvenlyFlat(pg, m, h),
         NEW i, NEW v, NEW p, FlatPlace(pg, m, h, i, v, p)
  PROVE  LET node == NodesInOrder(pg)[i]
             q == Numbered(BundlesOn(pg, node))
         IN  /\ Flat(pg)[p] = q[v] /\ q[v] \in BundlesOn(pg, node)
             /\ pg[Flat(pg)[p] + 1][1] = node
             /\ q \in [1..h -> Int] /\ \A x, y \in 1..h : x < y => q[x] < q[y]
             /\ \A b \in BundlesOn(pg, node) : \E x \in 1..h : q[x] = b
             /\ v \in 1..h /\ i \in 1..m /\ p - 1 = (i - 1) * h + (v - 1)
<1> DEFINE node == NodesInOrder(pg)[i]
           S == BundlesOn(pg, node)
           q == Numbered(S)
<1>1. /\ i \in 1..m /\ v \in 1..h /\ p - 1 = (i - 1) * h + (v - 1)
      /\ node \in NodesOf(pg) /\ Flat(pg)[p] = q[v]
  BY DEF FlatPlace
<1>2. Len(q) = h /\ IsOrderOf(q, S, [b \in S |-> b])
  BY <1>1 DEF EvenlyFlat
<1>3. \A b \in S : b \in Int /\ pg[b + 1][1] = node
  BY DEF BundlesOn
<1> HIDE DEF q, S, node
<1>4. /\ q \in [1..h -> S]
      /\ \A x, y \in 1..h : x < y => [b \in S |-> b][q[x]] < [b \in S |-> b][q[y]]
      /\ \A b \in S : \E x \in 1..h : q[x] = b
  BY <1>2 DEF IsOrderOf
<1>5. \A x, y \in 1..h : x < y => q[x] < q[y]
  BY <1>4
<1>6. q \in [1..h -> Int]
  BY <1>3, <1>4
<1>7. q[v] \in S
  BY <1>1, <1>4
<1> QED BY <1>1, <1>3, <1>4, <1>5, <1>6, <1>7 DEF q, S, node

\* Every bundle comes once; those of a node that come d places later are higher
\* by d at least.
LEMMA FlatOnce ==
  ASSUME NEW G \in Nat, NEW pg \in Seq(Machine(G)), NEW m, NEW h, EvenlyFlat(pg, m, h)
  PROVE  /\ \A p, r \in 1..(m * h) : Flat(pg)[p] = Flat(pg)[r] => p = r
         /\ \A b \in 0..(Len(pg) - 1) : \E p \in 1..(m * h) : Flat(pg)[p] = b
         /\ \A p, r \in 1..(m * h) :
              p < r /\ pg[Flat(pg)[p] + 1][1] = pg[Flat(pg)[r] + 1][1]
                => Flat(pg)[p] + (r - p) <= Flat(pg)[r]
<1> DEFINE nodes == NodesInOrder(pg)
           q(i) == Numbered(BundlesOn(pg, nodes[i]))
           key == [n \in NodesOf(pg) |-> n]
           Meet(i, v, w, p, r) ==
             /\ Flat(pg)[p] = q(i)[v] /\ Flat(pg)[r] = q(i)[w]
             /\ p - 1 = (i - 1) * h + (v - 1) /\ r - 1 = (i - 1) * h + (w - 1)
             /\ q(i) \in [1..h -> Int] /\ \A x, y \in 1..h : x < y => q(i)[x] < q(i)[y]
<1>1. /\ m \in Nat /\ h \in Nat
      /\ \A p \in 1..(m * h) : \E i \in 1..m, v \in 1..h : FlatPlace(pg, m, h, i, v, p)
      /\ IsOrderOf(nodes, NodesOf(pg), key) /\ Len(nodes) = m
  BY DEF EvenlyFlat
<1>2. m * h \in Nat
  BY <1>1
<1>3. ASSUME NEW i \in 1..m, NEW j \in 1..m, nodes[i] = nodes[j]
      PROVE  i = j
  <2>1. \A x, y \in 1..m : x < y => key[nodes[x]] < key[nodes[y]]
    BY <1>1 DEF IsOrderOf
  <2>2. \A x \in 1..m : nodes[x] \in NodesOf(pg)
    BY <1>1 DEF IsOrderOf
  <2>3. \A n \in NodesOf(pg) : n \in Int
    BY DEF NodesOf, Machine
  <2>4. \A x, y \in 1..m : x < y => nodes[x] < nodes[y]
    BY <2>1, <2>2
  <2>5. ~ (i < j) /\ ~ (j < i)
    BY <1>3, <2>2, <2>3, <2>4
  <2> QED BY <1>1, <2>5
<1>4. ASSUME NEW p \in 1..(m * h), NEW r \in 1..(m * h),
             pg[Flat(pg)[p] + 1][1] = pg[Flat(pg)[r] + 1][1]
      PROVE  \E i \in 1..m : \E v, w \in 1..h : Meet(i, v, w, p, r)
  <2>1. PICK i \in 1..m, v \in 1..h : FlatPlace(pg, m, h, i, v, p)
    BY <1>1
  <2>2. PICK j \in 1..m, w \in 1..h : FlatPlace(pg, m, h, j, w, r)
    BY <1>1
  <2>3. /\ Flat(pg)[p] = q(i)[v] /\ p - 1 = (i - 1) * h + (v - 1)
        /\ pg[Flat(pg)[p] + 1][1] = nodes[i]
        /\ q(i) \in [1..h -> Int] /\ \A x, y \in 1..h : x < y => q(i)[x] < q(i)[y]
    BY ONLY <2>1, FlatAt, G \in Nat, pg \in Seq(Machine(G)), EvenlyFlat(pg, m, h)
       DEF q, nodes
  <2>4. /\ Flat(pg)[r] = q(j)[w] /\ r - 1 = (j - 1) * h + (w - 1)
        /\ pg[Flat(pg)[r] + 1][1] = nodes[j]
    BY ONLY <2>2, FlatAt, G \in Nat, pg \in Seq(Machine(G)), EvenlyFlat(pg, m, h)
       DEF q, nodes
  <2>5. i = j
    BY <1>3, <1>4, <2>3, <2>4
  <2> HIDE DEF q, nodes
  <2>6. Meet(i, v, w, p, r)
    BY <2>3, <2>4, <2>5
  <2> HIDE DEF Meet
  <2> QED BY ONLY <2>6, i \in 1..m, v \in 1..h, w \in 1..h
<1> HIDE DEF q, Meet
<1>5. ASSUME NEW p \in 1..(m * h), NEW r \in 1..(m * h), Flat(pg)[p] = Flat(pg)[r]
      PROVE  p = r
  <2>1. pg[Flat(pg)[p] + 1][1] = pg[Flat(pg)[r] + 1][1]
    BY <1>5
  <2>1a. PICK i \in 1..m : \E v, w \in 1..h : Meet(i, v, w, p, r)
    BY ONLY <1>4, <2>1, p \in 1..(m * h), r \in 1..(m * h)
  <2>1b. PICK v \in 1..h, w \in 1..h : Meet(i, v, w, p, r)
    BY ONLY <2>1a
  <2>2. /\ Flat(pg)[p] = q(i)[v] /\ Flat(pg)[r] = q(i)[w]
        /\ p - 1 = (i - 1) * h + (v - 1) /\ r - 1 = (i - 1) * h + (w - 1)
        /\ q(i) \in [1..h -> Int] /\ \A x, y \in 1..h : x < y => q(i)[x] < q(i)[y]
    BY ONLY <2>1b DEF Meet
  <2> DEFINE t == q(i)
  <2>2a. t \in [1..h -> Int] /\ (\A x, y \in 1..h : x < y => t[x] < t[y]) /\ t[v] = t[w]
    BY <1>5, <2>2
  <2> HIDE DEF t
  <2>3. ~ (v < w) /\ ~ (w < v)
    BY <2>2a
  <2>4. v = w
    BY <1>1, <2>3
  <2>5. p - 1 = r - 1 /\ p \in Int /\ r \in Int
    BY <1>2, <2>2, <2>4
  <2> QED BY <2>5
<1>6. ASSUME NEW p \in 1..(m * h), NEW r \in 1..(m * h), p < r,
             pg[Flat(pg)[p] + 1][1] = pg[Flat(pg)[r] + 1][1]
      PROVE  Flat(pg)[p] + (r - p) <= Flat(pg)[r]
  <2>1a. PICK i \in 1..m : \E v, w \in 1..h : Meet(i, v, w, p, r)
    BY ONLY <1>4, <1>6, p \in 1..(m * h), r \in 1..(m * h)
  <2>1b. PICK v \in 1..h, w \in 1..h : Meet(i, v, w, p, r)
    BY ONLY <2>1a
  <2>1. /\ Flat(pg)[p] = q(i)[v] /\ Flat(pg)[r] = q(i)[w]
        /\ p - 1 = (i - 1) * h + (v - 1) /\ r - 1 = (i - 1) * h + (w - 1)
        /\ q(i) \in [1..h -> Int] /\ \A x, y \in 1..h : x < y => q(i)[x] < q(i)[y]
    BY ONLY <2>1b DEF Meet
  <2> DEFINE t == q(i)
             d == w - v
             c == (i - 1) * h
  <2>2. c \in Nat
    <3>1. i - 1 \in Nat
      BY <1>1
    <3> QED BY <1>1, <3>1
  <2>3. /\ Flat(pg)[p] = t[v] /\ Flat(pg)[r] = t[w] /\ p - 1 = c + (v - 1) /\ r - 1 = c + (w - 1)
        /\ t \in [1..h -> Int] /\ \A x, y \in 1..h : x < y => t[x] < t[y]
    BY <2>1
  <2> HIDE DEF t, c
  <2>4. p \in Int /\ r \in Int /\ v \in Int /\ w \in Int
    BY <1>1, <1>2
  <2>5. r - p = d /\ d \in 0..(h - v) /\ v + d = w
    BY <1>1, <1>6, <2>2, <2>3, <2>4
  <2> HIDE DEF d
  <2>6. t[v] + d <= t[v + d]
    BY <1>1, <2>3, <2>5, AscendingBy
  <2> QED BY <2>3, <2>5, <2>6
<1>7. ASSUME NEW b \in 0..(Len(pg) - 1)
      PROVE  \E p \in 1..(m * h) : Flat(pg)[p] = b
  <2> DEFINE node == pg[b + 1][1]
  <2>1. node \in NodesOf(pg) /\ b \in BundlesOn(pg, node)
    <3>1. b + 1 \in DOMAIN pg
      OBVIOUS
    <3> QED BY <3>1 DEF NodesOf, BundlesOn
  <2> HIDE DEF node
  <2>2. PICK i \in 1..m : nodes[i] = node
    BY <1>1, <2>1 DEF IsOrderOf
  <2>3. IsOrderOf(q(i), BundlesOn(pg, node), [x \in BundlesOn(pg, node) |-> x]) /\ Len(q(i)) = h
    BY <2>1, <2>2 DEF EvenlyFlat, q
  <2>4. PICK v \in 1..h : q(i)[v] = b
    BY <2>1, <2>3 DEF IsOrderOf
  <2> DEFINE n == m * h
             p == (i - 1) * h + v
  <2>5. /\ n = m * h /\ p = (i - 1) * h + v /\ 1 \in Nat /\ m \in Nat /\ h \in Nat
        /\ i \in 1..m /\ v \in 1..h
    BY <1>1
  <2> HIDE DEF n, p
  <2>6. IsKthWorker(n, h, 1, i, v, p)
    BY ONLY <2>5, TiedAt
  <2>7. p \in 1..(m * h)
    BY <2>5, <2>6 DEF IsKthWorker
  <2>8. PICK j \in 1..m, w \in 1..h : FlatPlace(pg, m, h, j, w, p)
    BY <1>1, <2>7
  <2>9. Flat(pg)[p] = q(j)[w] /\ p - 1 = (j - 1) * h + (w - 1)
    BY <2>8 DEF FlatPlace, q
  <2>10. j = i /\ w = v
    <3> DEFINE a == i - 1
               d == j - 1
               r == v - 1
               s == w - 1
    <3>1. /\ a \in Nat /\ d \in Nat /\ r \in Nat /\ s \in Nat /\ r < h /\ s < h /\ h > 0
          /\ a * h \in Nat
      BY <1>1
    <3>2. a * h + r = d * h + s
      BY <2>5, <2>9, <3>1
    <3>3. (a = d => j = i) /\ (r = s => w = v)
      BY <1>1
    <3> HIDE DEF a, d, r, s
    <3>4. d = a /\ s = r
      BY ONLY <1>1, <3>1, <3>2, QuotientUnique
    <3> QED BY <3>3, <3>4
  <2> QED BY <2>4, <2>7, <2>9, <2>10
<1> QED BY <1>5, <1>6, <1>7

\* The bundles of the k-th group of workers that are cut from all of a placement group.
AcrossSlice(pg, size, k) == SubSeq(Flat(pg), (k - 1) * size + 1, k * size)

\* Its b-th bundle is number p of all.
IsSliced(pg, n, size, k, b, p) == p \in 1..n /\ AcrossSlice(pg, size, k)[b] = Flat(pg)[p]

\* Cutting goes through the bundles in their order.
LEMMA SliceAt ==
  ASSUME NEW pg, NEW m, NEW h, EvenlyFlat(pg, m, h), NEW n, n = m * h,
         NEW size \in Nat \ {0}, NEW k \in 1..(n \div size)
  PROVE  /\ DOMAIN AcrossSlice(pg, size, k) = 1..size /\ Len(AcrossSlice(pg, size, k)) = size
         /\ \A b \in 1..size : \A p : p = (k - 1) * size + b => IsSliced(pg, n, size, k, b, p)
<1>1. /\ m \in Nat /\ h \in Nat /\ n \in Nat /\ Flat(pg) \in [1..n -> 0..(Len(pg) - 1)]
  BY DEF EvenlyFlat
<1> DEFINE q == n \div size
           c == (k - 1) * size
           e == k * size
<1>2. q \in Nat /\ q * size <= n
  <2>1. q \in Nat /\ n % size \in 0..(size - 1) /\ n = q * size + (n % size)
    BY <1>1, Division
  <2> HIDE DEF q
  <2>2. q * size \in Nat
    BY <2>1
  <2> QED BY <2>1, <2>2
<1>3. c \in Nat /\ e = c + size /\ e <= n
  <2>1. k \in Nat /\ k - 1 \in Nat /\ k <= q
    BY <1>2
  <2>2. e <= q * size
    BY <1>2, <2>1, MultiplyMonotonic
  <2>3. c \in Nat /\ e = c + size
    BY <2>1
  <2>4. q * size \in Nat /\ e \in Nat
    BY <1>2, <2>1
  <2> QED BY <1>1, <1>2, <2>2, <2>3, <2>4
<1>4. AcrossSlice(pg, size, k) = SubSeq(Flat(pg), c + 1, e)
  BY DEF AcrossSlice
<1> HIDE DEF c, e, q
<1> DEFINE V == 0..(Len(pg) - 1)
           f == Flat(pg)
           t == SubSeq(f, c + 1, e)
<1>5. \A i \in (c + 1)..e : f[i] \in V
  BY <1>1, <1>3
<1>6. c + 1 \in Int /\ e \in Int
  BY <1>1, <1>3
<1> HIDE DEF V, f
<1>7. /\ t \in Seq(V) /\ Len(t) = IF c + 1 <= e THEN e - (c + 1) + 1 ELSE 0
      /\ \A i \in 1..(e - (c + 1) + 1) : t[i] = f[c + 1 + i - 1]
  BY ONLY <1>5, <1>6, SubSeqProperties
<1> HIDE DEF t
<1>8. Len(t) = size /\ DOMAIN t = 1..size /\ e - (c + 1) + 1 = size
  BY <1>3, <1>7
<1>9. ASSUME NEW b \in 1..size PROVE t[b] = f[c + b] /\ c + b \in 1..n
  BY <1>1, <1>3, <1>7, <1>8
<1>10. t = AcrossSlice(pg, size, k) /\ f = Flat(pg)
  BY <1>4 DEF t, f
<1> QED BY <1>8, <1>9, <1>10 DEF IsSliced, c

\* What allocate_worker_groups returns.
IsAcross(ws, pg, size, q) ==
  ws = [k \in 1..q |->
          [index |-> Cardinality({x \in NodesOf(pg) : x < pg[AcrossSlice(pg, size, k)[1] + 1][1]}),
           bundles |-> AcrossSlice(pg, size, k)]]

\* The groups of workers of an engine that spans nodes share no GPU.
LEMMA AcrossApart ==
  ASSUME NEW G \in Nat, NEW pgs, Len(pgs) = 1, pgs[1] \in Seq(Machine(G)), Distinct(pgs[1]),
         NEW m, NEW h, EvenlyFlat(pgs[1], m, h), NEW size \in Nat \ {0}, NEW n, n = m * h
  PROVE  /\ IsAcross(TiedAcross(pgs[1], size), pgs[1], size, n \div size)
         /\ Apart(TiedAcross(pgs[1], size), n \div size, size, pgs)
<1> DEFINE pg == pgs[1]
           q == n \div size
           Index(k) == Cardinality({x \in NodesOf(pg) : x < pg[AcrossSlice(pg, size, k)[1] + 1][1]})
           ws == [k \in 1..q |-> [index |-> Index(k), bundles |-> AcrossSlice(pg, size, k)]]
<1>1. TiedAcross(pg, size) = ws
  <2>1. Len(Flat(pg)) = n
    BY DEF EvenlyFlat
  <2> QED BY <2>1 DEF TiedAcross, AcrossSlice, Flat, NodesInOrder, BundlesOn
<1>2. /\ m \in Nat /\ h \in Nat /\ n \in Nat /\ Flat(pg) \in [1..n -> 0..(Len(pg) - 1)]
      /\ Len(pg) \in Nat /\ pg \in Seq(Machine(G))
  BY DEF EvenlyFlat
<1>3. ASSUME NEW k \in 1..q
      PROVE  /\ DOMAIN ws[k].bundles = 1..size
             /\ \A b \in 1..size : \E p \in 1..n :
                  /\ p - 1 = (k - 1) * size + (b - 1)
                  /\ GpuAt(pgs, ws[k].index, ws[k].bundles[b]) = pg[Flat(pg)[p] + 1]
  <2>1. ws[k].bundles = AcrossSlice(pg, size, k)
    OBVIOUS
  <2> DEFINE t == AcrossSlice(pg, size, k)
  <2>2. /\ DOMAIN t = 1..size
        /\ \A b \in 1..size : \A p : p = (k - 1) * size + b => IsSliced(pg, n, size, k, b, p)
    BY SliceAt
  <2>3. ASSUME NEW b \in 1..size
        PROVE  \E p \in 1..n :
                 /\ p - 1 = (k - 1) * size + (b - 1)
                 /\ GpuAt(pgs, ws[k].index, ws[k].bundles[b]) = pg[Flat(pg)[p] + 1]
    <3> DEFINE p == (k - 1) * size + b
               i == ws[k].index
    <3>1. IsSliced(pg, n, size, k, b, p)
      BY <2>2
    <3>2. p - 1 = (k - 1) * size + (b - 1)
      <4>1. k - 1 \in Nat /\ (k - 1) * size \in Nat
        BY <1>2, Division
      <4> QED BY <4>1
    <3> HIDE DEF p, i
    <3>3. p \in 1..n /\ ws[k].bundles[b] = Flat(pg)[p]
      BY <2>1, <3>1 DEF IsSliced
    <3> HIDE DEF ws
    <3>4. GpuAt(pgs, ws[k].index, ws[k].bundles[b]) = pg[Flat(pg)[p] + 1]
      BY <3>3 DEF GpuAt
    <3> QED BY <3>2, <3>3, <3>4
  <2> QED BY <2>1, <2>2, <2>3
<1> HIDE DEF ws
<1>4. ASSUME NEW k \in 1..q
      PROVE  \E i \in 1..Len(pgs) : \A b \in 1..size : \E a \in 1..Len(pgs[i]) :
               GpuAt(pgs, ws[k].index, ws[k].bundles[b]) = pgs[i][a]
  <2> SUFFICES ASSUME NEW b \in 1..size
               PROVE  \E a \in 1..Len(pg) :
                        GpuAt(pgs, ws[k].index, ws[k].bundles[b]) = pg[a]
    <3>1. 1 \in 1..Len(pgs)
      OBVIOUS
    <3> QED BY <3>1
  <2>1. PICK p \in 1..n : GpuAt(pgs, ws[k].index, ws[k].bundles[b]) = pg[Flat(pg)[p] + 1]
    BY <1>3
  <2> DEFINE b0 == Flat(pg)[p]
             top == Len(pg)
  <2>1a. b0 \in 0..(top - 1) /\ top \in Nat
    BY <1>2
  <2> HIDE DEF b0, top
  <2>1b. b0 + 1 \in 1..top
    BY <2>1a
  <2>2. Flat(pg)[p] + 1 \in 1..Len(pg) /\ 1 \in 1..Len(pgs)
    BY <2>1b DEF b0, top
  <2> QED BY <2>1, <2>2
<1>5. ASSUME NEW k \in 1..q, NEW l \in 1..q, NEW b \in 1..size, NEW d \in 1..size,
             GpuAt(pgs, ws[k].index, ws[k].bundles[b]) = GpuAt(pgs, ws[l].index, ws[l].bundles[d])
      PROVE  k = l /\ b = d
  <2>1. PICK p \in 1..n :
          /\ p - 1 = (k - 1) * size + (b - 1)
          /\ GpuAt(pgs, ws[k].index, ws[k].bundles[b]) = pg[Flat(pg)[p] + 1]
    BY <1>3
  <2>2. PICK r \in 1..n :
          /\ r - 1 = (l - 1) * size + (d - 1)
          /\ GpuAt(pgs, ws[l].index, ws[l].bundles[d]) = pg[Flat(pg)[r] + 1]
    BY <1>3
  <2>3. Flat(pg)[p] = Flat(pg)[r]
    <3>1. Flat(pg)[p] \in 0..(Len(pg) - 1) /\ Flat(pg)[r] \in 0..(Len(pg) - 1)
      BY <1>2
    <3> DEFINE top == Len(pg)
               x == Flat(pg)[p]
               y == Flat(pg)[r]
    <3>1a. x \in 0..(top - 1) /\ y \in 0..(top - 1) /\ top \in Nat
      BY <1>2, <3>1
    <3> HIDE DEF top, x, y
    <3>1b. x + 1 \in 1..top /\ y + 1 \in 1..top
      BY <3>1a
    <3>2. Flat(pg)[p] + 1 \in 1..Len(pg) /\ Flat(pg)[r] + 1 \in 1..Len(pg)
      BY <3>1b DEF top, x, y
    <3>3. Flat(pg)[p] + 1 = Flat(pg)[r] + 1
      BY <1>5, <2>1, <2>2, <3>2 DEF Distinct
    <3>4. x + 1 = y + 1
      BY ONLY <3>3 DEF x, y
    <3>5. x = y
      BY ONLY <3>1a, <3>4
    <3> QED BY ONLY <3>5 DEF x, y
  <2>4. p = r
    BY <1>2, <2>3, FlatOnce
  <2> DEFINE u == b - 1
             v == d - 1
             a == k - 1
             c == l - 1
  <2>5. /\ a \in Nat /\ c \in Nat /\ u \in Nat /\ v \in Nat /\ u < size /\ v < size
        /\ size \in Nat /\ size > 0 /\ c * size + v = a * size + u
    <3>1. q \in Nat
      BY <1>2, Division
    <3>2. a \in Nat /\ c \in Nat
      BY <3>1
    <3>3. p - 1 = a * size + u /\ r - 1 = c * size + v
      BY <2>1, <2>2
    <3>4. u \in Nat /\ v \in Nat /\ u < size /\ v < size
      OBVIOUS
    <3> QED BY <2>4, <3>2, <3>3, <3>4
  <2>6. (u = v => b = d) /\ (a = c => k = l)
    <3>1. q \in Nat
      BY <1>2, Division
    <3> QED BY <3>1
  <2> HIDE DEF u, v, a, c
  <2>7. a = c /\ u = v
    BY ONLY <2>5, QuotientUnique
  <2> QED BY <2>6, <2>7
<1>6. Apart(ws, q, size, pgs)
  <2>1. \A k \in 1..q : DOMAIN ws[k].bundles = 1..size
    BY <1>3
  <2> QED BY <1>4, <1>5, <2>1 DEF Apart
<1> QED BY <1>1, <1>6 DEF ws, IsAcross

\* The number of seeds that one index has, by name.
Stride == 1024

\* The seed of an engine: that of its index and its place there.
LEMMA SeedByStride ==
  ASSUME NEW w
  PROVE  Seed(w) = w.index * Stride + w.bundles[1] \div Len(w.bundles)
BY DEF Seed, Stride

\* No two of the first n workers, if they are no more than 1024, have one seed.
SeedsDiffer(ws, n) ==
  n <= Stride => \A k, l \in 1..n : k # l => Seed(ws[k]) # Seed(ws[l])

\* x is the seed of worker number k of m times q.
SeedPlace(x, k, m, q) ==
  \E i \in 1..m, r \in 0..(q - 1) : k - 1 = (i - 1) * q + r /\ x = (i - 1) * Stride + r

\* The seeds of groups of workers that are tied in every placement group.
LEMMA TiedSeeds ==
  ASSUME NEW m \in Nat, NEW q \in Nat, NEW size \in Nat \ {0}, NEW n, n = m * q
  PROVE  SeedsDiffer(Tied(n, q, size), n)
<1> DEFINE ws == Tied(n, q, size)
<1>0. n \in Nat
  BY Multiply
<1> SUFFICES ASSUME n <= Stride PROVE \A k, l \in 1..n : k # l => Seed(ws[k]) # Seed(ws[l])
  BY DEF SeedsDiffer
<1>1. ASSUME NEW k \in 1..n
      PROVE  SeedPlace(Seed(ws[k]), k, m, q)
  <2>1. HasPlace(ws[k], k, m, q, size)
    <3>1. m \in Nat /\ q \in Nat /\ size \in Nat /\ n = m * q /\ k \in 1..n
      OBVIOUS
    <3> QED BY ONLY <3>1, TiedPlace
  <2> HIDE DEF ws
  <2>2. PICK i \in 1..m, r \in 0..(q - 1) :
          /\ k - 1 = (i - 1) * q + r
          /\ ws[k] = [index |-> i - 1, bundles |-> [b \in 1..size |-> r * size + b - 1]]
    BY <2>1, Zenon DEF HasPlace
  <2> DEFINE w == ws[k]
  <2>3. /\ w.index = i - 1 /\ Len(w.bundles) = size /\ w.bundles[1] = r * size + 1 - 1
    BY <2>2
  <2>4. r \in Nat /\ r * size \in Nat /\ r * size + 1 - 1 = r * size /\ r * size = r * size + 0
    OBVIOUS
  <2>5. (r * size + 0) \div size = r
    <3>1. r \in Nat /\ size \in Nat \ {0} /\ 0 \in 0..(size - 1)
      OBVIOUS
    <3> QED BY ONLY <3>1, DivisionOf
  <2>6. w.bundles[1] \div Len(w.bundles) = r
    BY <2>3, <2>4, <2>5
  <2> HIDE DEF w
  <2> DEFINE y == Seed(w)
  <2>7. y = (i - 1) * Stride + r
    BY <2>3, <2>6, SeedByStride
  <2>8. y = Seed(ws[k])
    BY DEF w
  <2> HIDE DEF y
  <2>9. SeedPlace(y, k, m, q)
    BY <2>2, <2>7, Zenon DEF SeedPlace
  <2> QED BY <2>8, <2>9
<1> HIDE DEF ws
<1>2. ASSUME NEW k \in 1..n, NEW l \in 1..n, Seed(ws[k]) = Seed(ws[l])
      PROVE  k = l
  <2>1. PICK i \in 1..m, r \in 0..(q - 1) :
          k - 1 = (i - 1) * q + r /\ Seed(ws[k]) = (i - 1) * Stride + r
    BY <1>1, Zenon DEF SeedPlace
  <2>2. PICK j \in 1..m, s \in 0..(q - 1) :
          l - 1 = (j - 1) * q + s /\ Seed(ws[l]) = (j - 1) * Stride + s
    BY <1>1, Zenon DEF SeedPlace
  <2>3. q <= n
    <3>1. 1 <= m /\ 1 \in Nat
      OBVIOUS
    <3>2. 1 * q <= m * q
      BY <3>1, MultiplyMonotonic
    <3> QED BY <3>2
  <2>4. /\ r \in Nat /\ s \in Nat /\ r < Stride /\ s < Stride
        /\ Stride \in Nat /\ Stride > 0
    <3>1. Stride \in Nat /\ Stride > 0
      BY DEF Stride
    <3> QED BY <1>0, <2>3, <3>1
  <2>5. i - 1 = j - 1 /\ r = s
    <3> DEFINE a == i - 1
               b == j - 1
               x == Seed(ws[k])
               y == Seed(ws[l])
    <3>1. a \in Nat /\ b \in Nat
      OBVIOUS
    <3>2. x = a * Stride + r /\ y = b * Stride + s /\ x = y
      BY <1>2, <2>1, <2>2
    <3> HIDE DEF a, b, x, y
    <3>3. b * Stride + s = a * Stride + r
      BY <3>2
    <3>4. a = b /\ r = s
      BY ONLY <2>4, <3>1, <3>3, QuotientUnique
    <3> QED BY <3>4 DEF a, b
  <2>6. k - 1 = l - 1
    BY <2>1, <2>2, <2>5
  <2> QED BY <1>0, <2>6
<1> QED BY <1>2

\* Node by node, all bundles are taken.
LEMMA FlatOfAll ==
  ASSUME NEW G \in Nat, NEW pg \in Seq(Machine(G)), NEW m, NEW h, EvenlyFlat(pg, m, h)
  PROVE  Len(pg) = m * h
<1> DEFINE n == m * h
           f == [p \in 1..n |-> Flat(pg)[p]]
<1>1. n \in Nat /\ Len(pg) \in Nat /\ Flat(pg) \in [1..n -> 0..(Len(pg) - 1)]
  BY Multiply DEF EvenlyFlat
<1>2. /\ \A p, r \in 1..n : Flat(pg)[p] = Flat(pg)[r] => p = r
      /\ \A b \in 0..(Len(pg) - 1) : \E p \in 1..n : Flat(pg)[p] = b
  BY FlatOnce
<1> HIDE DEF n
<1>3. f \in Surjection(1..n, 0..(Len(pg) - 1)) /\ f \in Injection(1..n, 0..(Len(pg) - 1))
  BY <1>1, <1>2 DEF Surjection, Injection, IsInjective
<1>4. IsFiniteSet(1..n) /\ Cardinality(1..n) = n
  BY <1>1, FS_Interval
<1>5. Cardinality(0..(Len(pg) - 1)) = Len(pg)
  <2> DEFINE x == Len(pg)
             y == x - 1
  <2>1. 0 \in Int /\ y \in Int /\ (IF 0 > y THEN 0 ELSE y - 0 + 1) = x
    BY <1>1
  <2>2. Cardinality(0..y) = IF 0 > y THEN 0 ELSE y - 0 + 1
    BY ONLY <2>1, FS_Interval
  <2> QED BY <2>1, <2>2
<1>6. Cardinality(0..(Len(pg) - 1)) = Cardinality(1..n)
  BY <1>3, <1>4, FS_Surjection
<1> QED BY <1>4, <1>5, <1>6 DEF n

\* The seeds of groups of workers that are cut from a placement group without rest.
LEMMA AcrossSeeds ==
  ASSUME NEW G \in Nat, NEW pgs, Len(pgs) = 1, pgs[1] \in Seq(Machine(G)), Distinct(pgs[1]),
         NEW m, NEW h, EvenlyFlat(pgs[1], m, h), NEW size \in Nat \ {0}, NEW n, n = m * h,
         NEW q \in Nat, n = q * size
  PROVE  SeedsDiffer(TiedAcross(pgs[1], size), q)
<1> DEFINE pg == pgs[1]
           ws == TiedAcross(pg, size)
           Node(p) == pg[Flat(pg)[p] + 1][1]
           Index(p) == Cardinality({x \in NodesOf(pg) : x < Node(p)})
<1>1. /\ m \in Nat /\ h \in Nat /\ n \in Nat /\ Flat(pg) \in [1..n -> 0..(Len(pg) - 1)]
      /\ Len(pg) \in Nat /\ pg \in Seq(Machine(G)) /\ Len(pg) = n
      /\ IsOrderOf(NodesInOrder(pg), NodesOf(pg), [x \in NodesOf(pg) |-> x])
  <2>0. pg \in Seq(Machine(G)) /\ EvenlyFlat(pg, m, h)
    OBVIOUS
  <2> HIDE DEF pg
  <2>1a. Len(pg) = m * h
    BY <2>0, FlatOfAll
  <2>1b. m \in Nat /\ h \in Nat
    BY <2>0, Zenon DEF EvenlyFlat
  <2>1. m \in Nat /\ h \in Nat /\ Len(pg) = n /\ Len(pg) \in Nat
    BY <2>0, <2>1a, <2>1b
  <2> USE DEF pg
  <2> QED BY <2>1 DEF EvenlyFlat
<1>2. n \div size = q
  <2>1. n = q * size + 0
    BY <1>1
  <2>2. 0 \in 0..(size - 1)
    OBVIOUS
  <2> QED BY <2>1, <2>2, DivisionOf
<1>3. ASSUME NEW k \in 1..q
      PROVE  \E p \in 1..n :
               /\ p - 1 = (k - 1) * size
               /\ ws[k].index = Index(p) /\ ws[k].bundles[1] = Flat(pg)[p]
               /\ Len(ws[k].bundles) = size
  <2> DEFINE t == AcrossSlice(pg, size, k)
             p == (k - 1) * size + 1
  <2>1. ws[k] = [index |-> Cardinality({x \in NodesOf(pg) : x < pg[t[1] + 1][1]}),
                 bundles |-> t]
    <3>1. IsAcross(ws, pg, size, q)
      BY <1>2, AcrossApart
    <3> HIDE DEF ws
    <3> QED BY <3>1 DEF IsAcross
  <2>2. Len(t) = size /\ IsSliced(pg, n, size, k, 1, p)
    <3>1. 1 \in 1..size /\ k \in 1..(n \div size)
      BY <1>2
    <3> QED BY <3>1, SliceAt
  <2>3. p \in 1..n /\ t[1] = Flat(pg)[p]
    BY <2>2 DEF IsSliced
  <2>4. p - 1 = (k - 1) * size
    <3>1. k - 1 \in Nat /\ (k - 1) * size \in Nat
      OBVIOUS
    <3> QED BY <3>1
  <2> HIDE DEF ws, t, p
  <2>5. ws[k].index = Index(p) /\ ws[k].bundles = t
    BY <2>1, <2>3
  <2> QED BY <2>2, <2>3, <2>4, <2>5
<1>3a. ASSUME NEW p \in 1..n
       PROVE  \E i \in 1..Len(NodesInOrder(pg)) :
                NodesInOrder(pg)[i] = Node(p) /\ Index(p) = i - 1
  <2> DEFINE S == NodesOf(pg)
             key == [x \in S |-> x]
             a == Node(p)
  <2>1. a \in S
    <3> DEFINE b == Flat(pg)[p]
               top == Len(pg)
    <3>1. b \in 0..(top - 1) /\ top \in Nat
      BY <1>1
    <3>2. DOMAIN pg = 1..top
      BY <1>1
    <3> HIDE DEF b, top
    <3>3. b + 1 \in DOMAIN pg
      BY <3>1, <3>2
    <3>4. pg[b + 1][1] \in S
      BY <3>3 DEF NodesOf
    <3> QED BY <3>4 DEF b
  <2>2. Cardinality(Below(S, key, a)) = Index(p)
    <3> HIDE DEF S, a
    <3>1. \A x \in S : Below(S, key, x) = {y \in S : y < x}
      BY DEF Below
    <3> QED BY <2>1, <3>1 DEF a, S
  <2>3. PICK i \in 1..Len(NodesInOrder(pg)) : NodesInOrder(pg)[i] = a
    BY <1>1, <2>1 DEF IsOrderOf
  <2>4. Cardinality(Below(S, key, a)) = i - 1
    BY <1>1, <2>3 DEF IsOrderOf
  <2> QED BY <2>2, <2>3, <2>4
<1> HIDE DEF Node, Index
<1>4. ASSUME NEW p \in 1..n, NEW r \in 1..n, Index(p) = Index(r)
      PROVE  Node(p) = Node(r)
  <2>1. PICK i \in 1..Len(NodesInOrder(pg)) : NodesInOrder(pg)[i] = Node(p) /\ Index(p) = i - 1
    BY <1>3a
  <2>2. PICK j \in 1..Len(NodesInOrder(pg)) : NodesInOrder(pg)[j] = Node(r) /\ Index(r) = j - 1
    BY <1>3a
  <2>3. Len(NodesInOrder(pg)) \in Nat
    BY <1>1 DEF IsOrderOf
  <2>3a. i \in Int /\ j \in Int
    BY <2>3
  <2>3b. i - 1 = j - 1
    BY <1>4, <2>1, <2>2, Zenon
  <2>4. i - 1 = j - 1 /\ i \in Int /\ j \in Int
    BY <2>3a, <2>3b
  <2>5. i = j
    BY <2>4
  <2> QED BY <2>1, <2>2, <2>5
<1> HIDE DEF ws
<1>5. ASSUME NEW k \in 1..q
      PROVE  \E p \in 1..n : \E s \in 0..(q - 1) :
               /\ p - 1 = (k - 1) * size /\ ws[k].index = Index(p)
               /\ s = Flat(pg)[p] \div size /\ Seed(ws[k]) = Index(p) * Stride + s
  <2>1. PICK p \in 1..n :
          /\ p - 1 = (k - 1) * size
          /\ ws[k].index = Index(p) /\ ws[k].bundles[1] = Flat(pg)[p]
          /\ Len(ws[k].bundles) = size
    BY <1>3
  <2> DEFINE a == Flat(pg)[p]
             s == a \div size
  <2>2. a \in 0..(n - 1)
    BY <1>1
  <2> HIDE DEF a
  <2> DEFINE z == a % size
             u == s * size
  <2>2a. a \in Nat
    BY <1>1, <2>2
  <2>3. s \in Nat /\ z \in 0..(size - 1) /\ a = u + z /\ a \in Nat
    BY <2>2a, Division
  <2>3a. a < n
    BY <1>1, <2>2
  <2>4. s * size < q * size
    <3> HIDE DEF s, z
    <3>1. u \in Nat
      BY <2>3
    <3> HIDE DEF u
    <3>2. u < n
      BY <1>1, <2>3, <2>3a, <3>1
    <3> QED BY <3>2 DEF u
  <2> HIDE DEF s
  <2>5. s < q
    <3>1. s \in Nat /\ q \in Nat /\ size \in Nat \ {0}
      BY <2>3
    <3> QED BY ONLY <2>4, <3>1, MultiplyStrictly
  <2>6. s \in 0..(q - 1)
    BY <2>3, <2>5
  <2>7. Seed(ws[k]) = Index(p) * Stride + s
    BY <2>1, SeedByStride DEF s, a
  <2> QED BY <2>1, <2>6, <2>7 DEF s, a
<1>6. ASSUME NEW p \in 1..n, NEW r \in 1..n, p < r, size <= r - p, Node(p) = Node(r)
      PROVE  Flat(pg)[p] \div size # Flat(pg)[r] \div size
  <2> DEFINE a == Flat(pg)[p]
             c == Flat(pg)[r]
  <2>0. \A u, v \in 1..(m * h) :
          u < v /\ pg[Flat(pg)[u] + 1][1] = pg[Flat(pg)[v] + 1][1]
            => Flat(pg)[u] + (v - u) <= Flat(pg)[v]
    BY FlatOnce
  <2>1. a + (r - p) <= c
    BY <1>6, <2>0 DEF Node
  <2>2. a \in Nat /\ c \in Nat /\ p \in Int /\ r \in Int
    BY <1>1
  <2> HIDE DEF a, c
  <2>3. a + size <= c
    BY <1>6, <2>1, <2>2
  <2> DEFINE x == a \div size
             y == c \div size
             v == y * size
             z == c % size
             t == a % size
  <2>4. /\ x \in Nat /\ y \in Nat /\ z \in 0..(size - 1) /\ t \in 0..(size - 1)
        /\ a = x * size + t /\ c = v + z
    BY <2>2, Division
  <2>5. v \in Nat
    <3> HIDE DEF y
    <3> QED BY <2>4
  <2>6. x # y
    <3> SUFFICES ASSUME x = y PROVE FALSE
      OBVIOUS
    <3>1. a = v + t
      BY <2>4
    <3> HIDE DEF v, x, y, z, t
    <3> QED BY <2>3, <2>4, <2>5, <3>1
  <2> QED BY <2>6 DEF a, c
<1>7. ASSUME NEW k \in 1..q, NEW l \in 1..q, k < l, q <= Stride
      PROVE  Seed(ws[k]) # Seed(ws[l])
  <2>1. PICK p \in 1..n, s \in 0..(q - 1) :
          /\ p - 1 = (k - 1) * size /\ ws[k].index = Index(p)
          /\ s = Flat(pg)[p] \div size /\ Seed(ws[k]) = Index(p) * Stride + s
    BY <1>5
  <2>2. PICK r \in 1..n, t \in 0..(q - 1) :
          /\ r - 1 = (l - 1) * size /\ ws[l].index = Index(r)
          /\ t = Flat(pg)[r] \div size /\ Seed(ws[l]) = Index(r) * Stride + t
    BY <1>5
  <2>3. p < r /\ size <= r - p
    <3> DEFINE a == k - 1
               c == l - 1
    <3>1. a \in Nat /\ c \in Nat /\ a + 1 <= c /\ a + 1 \in Nat
      BY <1>7
    <3>2. p - 1 = a * size /\ r - 1 = c * size
      BY <2>1, <2>2
    <3> HIDE DEF a, c
    <3>3. (a + 1) * size <= c * size
      BY <3>1, MultiplyMonotonic
    <3>4. (a + 1) * size = a * size + size /\ a * size \in Nat /\ c * size \in Nat
      BY <3>1
    <3>5. p \in Int /\ r \in Int
      BY <1>1
    <3> QED BY <3>2, <3>3, <3>4, <3>5
  <2>4. Index(p) = Index(r) => s # t
    BY <1>4, <1>6, <2>1, <2>2, <2>3
  <2> DEFINE a == Index(p)
             c == Index(r)
  <2>5. a \in Nat /\ c \in Nat
    <3>1. Len(NodesInOrder(pg)) \in Nat
      BY <1>1 DEF IsOrderOf
    <3>2. \A u \in 1..n : Index(u) \in Nat
      BY <1>3a, <3>1
    <3> QED BY <3>2
  <2> HIDE DEF a, c
  <2>6. SUFFICES ASSUME Seed(ws[k]) = Seed(ws[l]) PROVE FALSE
    OBVIOUS
  <2>7. c * Stride + t = a * Stride + s
    BY <2>1, <2>2, <2>6 DEF a, c
  <2>8. Stride \in Nat /\ Stride > 0
    BY DEF Stride
  <2>9. s \in Nat /\ t \in Nat /\ s < Stride /\ t < Stride
    BY <1>7, <2>8
  <2>10. a = c /\ s = t
    BY ONLY <2>5, <2>7, <2>8, <2>9, QuotientUnique
  <2> QED BY <2>4, <2>10 DEF a, c
<1>8. ASSUME NEW k \in 1..q, NEW l \in 1..q, k # l, q <= Stride
      PROVE  Seed(ws[k]) # Seed(ws[l])
  <2>1. k < l \/ l < k
    BY <1>8
  <2> QED BY <1>7, <1>8, <2>1
<1> QED BY <1>8 DEF SeedsDiffer, ws

-----------------------------------------------------------------------------
(* The invariant of a job that comes up *)

\* The number and the size of the placement groups of a cluster.
GroupCount(c) == IF clusters[c].unified THEN 1 ELSE Max({0, Shape(c).nodes})
GroupSize(c) == IF clusters[c].unified THEN WorldSize(c) ELSE Shape(c).gpus

Whys == {"", "refused", "insufficient", "timeout", "layout", "unreadable", "mismatch", "port"}
Stages == {"idle", "asking", "placing", "created", "converting", "up", "failed"}

MachineInv == job \in Jobs /\ nodesUp \in 0..job.nodes

\* Groups of workers and clusters are records of the right kind.
IsGroup(r) == r = [at |-> r.at, why |-> r.why, workers |-> r.workers]
GroupsTyped ==
  /\ groups = [g \in GroupNames |-> groups[g]]
  /\ \A g \in GroupNames : IsGroup(groups[g])

Cluster(G) == [asked : BOOLEAN, unified : BOOLEAN, strategy : {"PACK", "SPREAD"}, tries : Nat,
               pgs : Seq(Seq(Machine(G)))]
ClustersTyped == clusters \in [ClusterNames -> Cluster(job.gpus)]

\* A cluster is asked for by a group of the plan, or by the reward model; it spans
\* nodes for an engine only.
UsedBy(g) == \/ g = "reward" /\ HasReward
             \/ g \in ToSet(Plan) /\ ~ SetupRefuses

\* A cluster has placement groups of its shape once it was asked for, by a group in
\* use.
ClusterInv(c) ==
  /\ ~ clusters[c].asked => clusters[c].pgs = <<>> /\ ~ clusters[c].unified
  /\ clusters[c].asked =>
       \E g \in GroupNames :
         /\ UsedBy(g) /\ ClusterOf(g) = c
         /\ clusters[c].strategy = IF clusters[c].unified THEN Strategy("engine") ELSE "PACK"
         /\ clusters[c].unified => g = "engine" /\ Unified("engine")
  /\ Len(clusters[c].pgs) <= GroupCount(c)
  /\ \A i \in 1..Len(clusters[c].pgs) : Len(clusters[c].pgs[i]) = GroupSize(c)

\* No GPU is two bundles.
GpusOnceIn(all) ==
  \A c, d \in ClusterNames :
    \A i \in 1..Len(all[c].pgs), j \in 1..Len(all[d].pgs) :
      \A a \in 1..Len(all[c].pgs[i]), b \in 1..Len(all[d].pgs[j]) :
        all[c].pgs[i][a] = all[d].pgs[j][b] => c = d /\ i = j /\ a = b
GpusOnce == GpusOnceIn(clusters)

\* A group that goes on is of the plan and was not refused; its workers are laid out
\* on the placement groups of its cluster.
GroupInv(g) ==
  /\ groups[g].at \in Stages
  /\ groups[g].at # "idle" => UsedBy(g)
  /\ groups[g].at \notin {"idle", "failed"} => ~ Refuses(g)
  /\ groups[g].at = "asking" => ~ clusters[ClusterOf(g)].asked
  /\ Placed(g) => /\ Ready(ClusterOf(g)) /\ groups[g].workers = Layout(g)
                  /\ g = "engine" => ~ LayoutFails(ClusterOf("engine"))

\* vLLM counts its engines as they come up.
EngineInv ==
  groups["engine"].at = "up" /\ job.backend = "vllm" =>
    Len(groups["engine"].workers) = WorldSize(ClusterOf("engine")) \div job.mp

\* The groups of a plan come up one after the other, or in two threads.
Earlier(h, g) == \E i, j \in DOMAIN Plan : Plan[i] = h /\ Plan[j] = g /\ i < j
OrderInv ==
  \A g, h \in GroupNames :
    ~ Parallel /\ Earlier(h, g) /\ groups[g].at # "idle" => groups[h].at = "up"

\* setup goes on with a configuration it did not refuse.
MainInv ==
  /\ main \in {"init", "ready", "running"} => ~ SetupRefuses
  /\ main \in {"ready", "running"} /\ Generates /\ ~ job.colocated =>
       job.backend = "vllm" /\ groups["engine"].at = "up" /\ groups["policy"].at = "up"

\* What holds of a job from the check of its configuration on.
SetupInv ==
  /\ MachineInv /\ GroupsTyped /\ ClustersTyped
  /\ \A c \in ClusterNames : ClusterInv(c)
  /\ GpusOnce
  /\ \A g \in GroupNames : GroupInv(g)
  /\ OrderInv /\ EngineInv /\ MainInv

-----------------------------------------------------------------------------
(* What a configuration is *)

\* The larger of a number and zero.
LEMMA MaxOfZero ==
  ASSUME NEW x \in Int
  PROVE  Max({0, x}) = IF x > 0 THEN x ELSE 0
<1> DEFINE y == IF x > 0 THEN x ELSE 0
<1>1. y \in {0, x} /\ \A z \in {0, x} : y >= z
  OBVIOUS
<1>2. \A u \in {0, x} : (\A z \in {0, x} : u >= z) => u = y
  OBVIOUS
<1> HIDE DEF y
<1>3. Max({0, x}) = y
  BY <1>1, <1>2 DEF Max
<1> QED BY <1>3 DEF y

\* What the job is made of.
LEMMA JobTyped ==
  ASSUME MachineInv
  PROVE  /\ job.nodes \in Nat \ {0} /\ job.gpus \in Nat \ {0} /\ nodesUp \in Nat
         /\ nodesUp <= job.nodes
         /\ job.infer.nodes \in Nat /\ job.infer.gpus \in Nat
         /\ job.reward.nodes \in Nat /\ job.reward.gpus \in Nat
         /\ job.mp \in Nat \ {0} /\ job.pp \in Nat \ {0} /\ job.cp \in Nat \ {0}
         /\ job.tp \in Nat \ {0}
         /\ job.colocated \in BOOLEAN /\ job.backend \in {"vllm", "sglang", "megatron"}
BY JobsAssumption DEF MachineInv

\* The size of a cluster is a number, negative if setup would refuse it.
LEMMA ShapesTyped ==
  ASSUME MachineInv, NEW c \in ClusterNames
  PROVE  Shape(c).nodes \in Int /\ Shape(c).gpus \in Int
<1> USE JobTyped
<1>1. PolicyNodes \in Int /\ RewardGpusHere \in Int
  BY DEF PolicyNodes, RewardGpusHere
<1>2. TrainShape.nodes \in Int /\ TrainShape.gpus \in Int
  BY <1>1 DEF TrainShape
<1>3. InferenceShape.nodes \in Int /\ InferenceShape.gpus \in Int
  BY <1>1 DEF InferenceShape
<1> QED BY <1>2, <1>3 DEF Shape, ClusterNames

\* The placement groups of a cluster have all of its GPUs.
LEMMA GroupsOfCluster ==
  ASSUME MachineInv, NEW c \in ClusterNames
  PROVE  /\ GroupCount(c) \in Nat /\ GroupSize(c) \in Int
         /\ WorldSize(c) \in Int /\ WorldSize(c) = GroupCount(c) * GroupSize(c)
         /\ Len(Bundles(c)) = GroupCount(c)
         /\ \A i \in 1..GroupCount(c) : Bundles(c)[i] = GroupSize(c)
<1> DEFINE n == Shape(c).nodes
           G == Shape(c).gpus
           p == Max({0, n})
<1>1. n \in Int /\ G \in Int
  BY ShapesTyped
<1>2. p \in Nat /\ (n > 0 => p = n) /\ (n <= 0 => p = 0)
  BY <1>1, MaxOfZero
<1>3. WorldSize(c) = p * G
  BY DEF WorldSize
<1> HIDE DEF p
<1>4. p * G \in Int
  BY <1>1, <1>2
<1>5. 1..n = 1..p
  BY <1>1, <1>2
<1>6. CASE clusters[c].unified
  <2>1. Bundles(c) = <<WorldSize(c)>> /\ GroupCount(c) = 1 /\ GroupSize(c) = WorldSize(c)
    BY <1>6 DEF Bundles, GroupCount, GroupSize
  <2>2. WorldSize(c) \in Int
    BY <1>3, <1>4
  <2> HIDE DEF n, G
  <2> QED BY <2>1, <2>2
<1>7. CASE ~ clusters[c].unified
  <2>1. Bundles(c) = [i \in 1..p |-> G] /\ GroupCount(c) = p /\ GroupSize(c) = G
    BY <1>5, <1>7 DEF Bundles, GroupCount, GroupSize, p
  <2> HIDE DEF n, G
  <2>2. Len(Bundles(c)) = p /\ \A i \in 1..p : Bundles(c)[i] = G
    BY <1>1, <1>2, <2>1
  <2> QED BY <1>1, <1>2, <1>3, <1>4, <2>1, <2>2
<1> QED BY <1>6, <1>7

-----------------------------------------------------------------------------
(* What does not change *)

\* The configuration decides shapes, plan and refusals.
SameJob ==
  /\ \A c \in ClusterNames : Shape(c)' = Shape(c) /\ WorldSize(c)' = WorldSize(c)
  /\ \A g \in GroupNames : ClusterOf(g)' = ClusterOf(g)
  /\ \A g \in GroupNames : Refuses(g)' = Refuses(g)
  /\ \A g \in GroupNames : UsedBy(g)' = UsedBy(g)
  /\ \A g \in GroupNames : Unified(g)' = Unified(g) /\ Strategy(g)' = Strategy(g)
  /\ \A g, h \in GroupNames : Earlier(h, g)' = Earlier(h, g)
  /\ Plan' = Plan /\ Parallel' = Parallel /\ SetupRefuses' = SetupRefuses
  /\ WholeNodes' = WholeNodes

\* A step that leaves the configuration leaves all it decides.
LEMMA JobKept ==
  ASSUME job' = job
  PROVE  SameJob
<1>1. TrainShape' = TrainShape /\ InferenceShape' = InferenceShape /\ HasReward' = HasReward
      /\ PolicyNodes' = PolicyNodes
  BY DEF TrainShape, InferenceShape, PolicyNodes, RewardGpusHere, Generates, HasReward
<1>2. \A c \in ClusterNames : Shape(c)' = Shape(c) /\ WorldSize(c)' = WorldSize(c)
  BY <1>1 DEF Shape, WorldSize
<1>3. \A g \in GroupNames : ClusterOf(g)' = ClusterOf(g)
  BY DEF ClusterOf, Generates
<1>4. \A g \in GroupNames : ClusterOf(g) \in ClusterNames
  BY DEF ClusterOf, ClusterNames
<1>5. Plan' = Plan /\ Parallel' = Parallel
  BY DEF Plan, Parallel
<1>6. SetupRefuses' = SetupRefuses
  <2>1. SeparateRefused' = SeparateRefused
    BY <1>1 DEF SeparateRefused, Generates
  <2>2. GrpoRefused' = GrpoRefused
    BY <1>1 DEF GrpoRefused, Has, DTensor
  <2>3. DistillationRefused' = DistillationRefused /\ DpoRefused' = DpoRefused
        /\ EvalRefused' = EvalRefused
    BY DEF DistillationRefused, DpoRefused, EvalRefused, Has, DTensor
  <2> QED BY <1>1, <2>1, <2>2, <2>3 DEF SetupRefuses
<1>7. \A g \in GroupNames : Refuses(g)' = Refuses(g)
  <2> TAKE g \in GroupNames
  <2>1. WorldSize(ClusterOf(g))' = WorldSize(ClusterOf(g))
    BY <1>1 DEF WorldSize, Shape, ClusterOf, Generates
  <2>2. PolicyRefuses(g)' = PolicyRefuses(g)
    BY <2>1 DEF PolicyRefuses, Has
  <2>3. WorldSize(ClusterOf("engine"))' = WorldSize(ClusterOf("engine"))
    BY <1>1 DEF WorldSize, Shape, ClusterOf, Generates
  <2>4. EngineRefuses' = EngineRefuses
    BY <2>3 DEF EngineRefuses, Has
  <2> QED BY <2>2, <2>4 DEF Refuses
<1>8. \A g \in GroupNames : UsedBy(g)' = UsedBy(g)
  BY <1>1, <1>5, <1>6 DEF UsedBy
<1>9. \A g \in GroupNames : Unified(g)' = Unified(g) /\ Strategy(g)' = Strategy(g)
  BY <1>1 DEF Unified, Strategy, Shape, ClusterOf, Generates
<1>10. \A g, h \in GroupNames : Earlier(h, g)' = Earlier(h, g)
  BY <1>5 DEF Earlier
<1>11. WholeNodes' = WholeNodes
  <2>1. \A g \in GroupNames : Shape(ClusterOf(g))' = Shape(ClusterOf(g))
    BY <1>1 DEF Shape, ClusterOf, Generates
  <2>2. ToSet(Plan) \subseteq GroupNames
    BY DEF ToSet, Plan, GroupNames
  <2> QED BY <1>1, <1>5, <1>9, <2>1, <2>2 DEF WholeNodes, GroupNames
<1> QED BY <1>2, <1>3, <1>5, <1>6, <1>7, <1>8, <1>9, <1>10, <1>11 DEF SameJob

\* The placement groups of a cluster decide its layouts.
SameCluster(c) ==
  /\ GroupCount(c)' = GroupCount(c) /\ GroupSize(c)' = GroupSize(c)
  /\ Bundles(c)' = Bundles(c) /\ Ready(c)' = Ready(c)
  /\ PolicyLayout(c)' = PolicyLayout(c) /\ EngineLayout(c)' = EngineLayout(c)
  /\ LayoutFails(c)' = LayoutFails(c)

\* A step that leaves a cluster leaves the layouts on it.
LEMMA ClusterKept ==
  ASSUME job' = job, NEW c \in ClusterNames, clusters'[c] = clusters[c]
  PROVE  SameCluster(c)
<1>1. Shape(c)' = Shape(c) /\ WorldSize(c)' = WorldSize(c)
  BY JobKept DEF SameJob
<1>2. GroupCount(c)' = GroupCount(c) /\ GroupSize(c)' = GroupSize(c)
  BY <1>1 DEF GroupCount, GroupSize
<1>3. Bundles(c)' = Bundles(c)
  BY <1>1 DEF Bundles
<1>4. Ready(c)' = Ready(c)
  BY <1>3 DEF Ready
<1>5. PolicyLayout(c)' = PolicyLayout(c)
  BY <1>1 DEF PolicyLayout
<1>6. EngineLayout(c)' = EngineLayout(c)
  BY DEF EngineLayout
<1>7. LayoutFails(c)' = LayoutFails(c)
  BY <1>1, <1>6 DEF LayoutFails
<1> QED BY <1>2, <1>3, <1>4, <1>5, <1>6, <1>7 DEF SameCluster

-----------------------------------------------------------------------------
(* The invariant holds *)

\* One group of workers goes on to a stage.
GroupMoves(g, to, ws) ==
  /\ GroupsTyped'
  /\ groups'[g].at = to /\ groups'[g].workers = ws
  /\ \A h \in GroupNames \ {g} :
       groups'[h].at = groups[h].at /\ groups'[h].workers = groups[h].workers

\* What a group is when it has reached a stage.
LEMMA GroupReaches ==
  ASSUME GroupsTyped, NEW g \in GroupNames, NEW to, Reaches(g, to)
  PROVE  GroupMoves(g, to, groups[g].workers)
<1>1. DOMAIN groups = GroupNames /\ \A h \in GroupNames : IsGroup(groups[h])
  BY DEF GroupsTyped
<1>2. groups' = [groups EXCEPT ![g].at = to]
  BY DEF Reaches
<1>3. /\ groups' = [h \in GroupNames |-> groups'[h]]
      /\ \A h \in GroupNames \ {g} : groups'[h] = groups[h]
      /\ groups'[g] = [groups[g] EXCEPT !.at = to]
  BY <1>1, <1>2
<1>4. groups'[g] = [at |-> to, why |-> groups[g].why, workers |-> groups[g].workers]
  BY <1>1, <1>3 DEF IsGroup
<1> QED BY <1>1, <1>3, <1>4 DEF GroupMoves, GroupsTyped, IsGroup

\* What a group is when it has failed.
LEMMA GroupFails ==
  ASSUME GroupsTyped, NEW g \in GroupNames, NEW reason, Fails(g, reason)
  PROVE  GroupMoves(g, "failed", groups[g].workers)
<1>1. DOMAIN groups = GroupNames /\ \A h \in GroupNames : IsGroup(groups[h])
  BY DEF GroupsTyped
<1>2. groups' = [groups EXCEPT ![g].at = "failed", ![g].why = reason]
  BY DEF Fails
<1>3. /\ groups' = [h \in GroupNames |-> groups'[h]]
      /\ \A h \in GroupNames \ {g} : groups'[h] = groups[h]
      /\ groups'[g] = [groups[g] EXCEPT !.at = "failed", !.why = reason]
  BY <1>1, <1>2
<1>4. groups'[g] = [at |-> "failed", why |-> reason, workers |-> groups[g].workers]
  BY <1>1, <1>3 DEF IsGroup
<1> QED BY <1>1, <1>3, <1>4 DEF GroupMoves, GroupsTyped, IsGroup

\* What a group is when it got its workers.
LEMMA GroupGets ==
  ASSUME GroupsTyped, NEW g \in GroupNames, NEW ws,
         groups' = [groups EXCEPT ![g].at = "created", ![g].workers = ws]
  PROVE  GroupMoves(g, "created", ws)
<1>1. DOMAIN groups = GroupNames /\ \A h \in GroupNames : IsGroup(groups[h])
  BY DEF GroupsTyped
<1>2. /\ groups' = [h \in GroupNames |-> groups'[h]]
      /\ \A h \in GroupNames \ {g} : groups'[h] = groups[h]
      /\ groups'[g] = [groups[g] EXCEPT !.at = "created", !.workers = ws]
  BY <1>1
<1>3. groups'[g] = [at |-> "created", why |-> groups[g].why, workers |-> ws]
  BY <1>1, <1>2 DEF IsGroup
<1> QED BY <1>1, <1>2, <1>3 DEF GroupMoves, GroupsTyped, IsGroup

\* What has to hold for a group to go on to a stage.
MayMove(g, to, ws) ==
  /\ groups[g].at # "up" /\ to \in Stages \ {"idle"}
  /\ UsedBy(g)
  /\ groups[g].at = "idle" =>
       \A h \in GroupNames : ~ Parallel /\ Earlier(h, g) => groups[h].at = "up"
  /\ to # "failed" => ~ Refuses(g)
  /\ to = "asking" => ~ clusters[ClusterOf(g)].asked
  /\ to \in {"created", "converting", "up"} =>
       /\ Ready(ClusterOf(g)) /\ ws = Layout(g)
       /\ g = "engine" => ~ LayoutFails(ClusterOf("engine"))
  /\ g = "engine" /\ to = "up" /\ job.backend = "vllm" =>
       Len(ws) = WorldSize(ClusterOf("engine")) \div job.mp

\* A group's layout is that of its cluster.
SameLayout(g) ==
  /\ Ready(ClusterOf(g))' = Ready(ClusterOf(g)) /\ Layout(g)' = Layout(g)
  /\ LayoutFails(ClusterOf(g))' = LayoutFails(ClusterOf(g))
  /\ (clusters[ClusterOf(g)].asked)' = clusters[ClusterOf(g)].asked

\* A step that leaves the cluster of a group leaves its layout.
LEMMA LayoutKept ==
  ASSUME job' = job, NEW g \in GroupNames, clusters'[ClusterOf(g)] = clusters[ClusterOf(g)]
  PROVE  SameLayout(g)
<1> DEFINE c == ClusterOf(g)
<1>1. c' = c
  BY DEF ClusterOf, Generates
<1>2. Shape(c)' = Shape(c) /\ WorldSize(c)' = WorldSize(c)
  BY <1>1 DEF Shape, TrainShape, InferenceShape, PolicyNodes, RewardGpusHere, Generates, WorldSize
<1> HIDE DEF c
<1>3. (clusters[c])' = clusters[c]
  BY <1>1 DEF c
<1>4. Ready(c)' = Ready(c)
  BY <1>2, <1>3 DEF Ready, Bundles
<1>5. PolicyLayout(c)' = PolicyLayout(c)
  BY <1>2, <1>3 DEF PolicyLayout
<1>6. EngineLayout(c)' = EngineLayout(c)
  BY <1>3 DEF EngineLayout
<1>7. LayoutFails(c)' = LayoutFails(c)
  BY <1>2, <1>3, <1>6 DEF LayoutFails
<1>8. Layout(g)' = Layout(g)
  BY <1>5, <1>6 DEF Layout, c
<1> QED BY <1>3, <1>4, <1>7, <1>8 DEF SameLayout, c

\* What is said of a cluster or a group holds as long as they stay as they are.
LEMMA ClusterInvKept ==
  ASSUME job' = job, NEW c \in ClusterNames, clusters'[c] = clusters[c], ClusterInv(c)
  PROVE  ClusterInv(c)'
<1>1. SameJob /\ SameCluster(c)
  BY JobKept, ClusterKept
<1>2. /\ \A g \in GroupNames : UsedBy(g)' = UsedBy(g) /\ ClusterOf(g)' = ClusterOf(g)
      /\ Strategy("engine")' = Strategy("engine") /\ Unified("engine")' = Unified("engine")
  BY <1>1 DEF SameJob, GroupNames
<1>3. GroupCount(c)' = GroupCount(c) /\ GroupSize(c)' = GroupSize(c)
  BY <1>1 DEF SameCluster
<1> QED BY <1>2, <1>3 DEF ClusterInv

\* A step that leaves a group and its cluster leaves its invariant.
LEMMA GroupInvKept ==
  ASSUME job' = job, NEW g \in GroupNames, clusters'[ClusterOf(g)] = clusters[ClusterOf(g)],
         groups'[g].at = groups[g].at, groups'[g].workers = groups[g].workers, GroupInv(g)
  PROVE  GroupInv(g)'
<1>1. SameJob /\ SameLayout(g)
  BY JobKept, LayoutKept
<1>2. UsedBy(g)' = UsedBy(g) /\ Refuses(g)' = Refuses(g)
  BY <1>1 DEF SameJob
<1>3. Placed(g)' = Placed(g)
  BY DEF Placed
<1>4. g = "engine" =>
        LayoutFails(ClusterOf("engine"))' = LayoutFails(ClusterOf("engine"))
  BY <1>1 DEF SameLayout
<1> QED BY <1>1, <1>2, <1>3, <1>4 DEF GroupInv, SameLayout

ClustersStay == job' = job /\ clusters' = clusters

\* What is said of the machine and the clusters.
LEMMA ClustersStayRight ==
  ASSUME SetupInv, ClustersStay, UNCHANGED nodesUp
  PROVE  /\ MachineInv' /\ ClustersTyped' /\ (\A c \in ClusterNames : ClusterInv(c))' /\ GpusOnce'
<1>1. MachineInv'
  BY DEF SetupInv, ClustersStay, MachineInv
<1>2. ClustersTyped'
  BY DEF SetupInv, ClustersStay, ClustersTyped
<1>3. ASSUME NEW c \in ClusterNames PROVE ClusterInv(c)'
  BY ClusterInvKept DEF SetupInv, ClustersStay
<1>4. GpusOnce'
  BY DEF SetupInv, ClustersStay, GpusOnce
<1> QED BY <1>1, <1>2, <1>3, <1>4

\* A step of one group keeps what is said of all.
LEMMA GroupStep ==
  ASSUME SetupInv, ClustersStay, UNCHANGED <<nodesUp, main>>,
         NEW g \in GroupNames, NEW to, NEW ws, GroupMoves(g, to, ws), MayMove(g, to, ws)
  PROVE  SetupInv'
<1>1. /\ MachineInv' /\ ClustersTyped' /\ (\A c \in ClusterNames : ClusterInv(c))' /\ GpusOnce'
  BY ClustersStayRight
<1>2. GroupsTyped'
  BY DEF GroupMoves
<1>3. ASSUME NEW h \in GroupNames, h # g PROVE GroupInv(h)'
  <2>1. groups'[h].at = groups[h].at /\ groups'[h].workers = groups[h].workers
    BY <1>3 DEF GroupMoves
  <2> QED BY <2>1, GroupInvKept DEF SetupInv, ClustersStay
<1>4. GroupInv(g)'
  <2>1. SameJob /\ SameLayout(g)
    BY JobKept, LayoutKept DEF ClustersStay
  <2>2. UsedBy(g)' = UsedBy(g) /\ Refuses(g)' = Refuses(g)
    BY <2>1 DEF SameJob
  <2>3. g = "engine" =>
          LayoutFails(ClusterOf("engine"))' = LayoutFails(ClusterOf("engine"))
    BY <2>1 DEF SameLayout
  <2>4. groups'[g].at = to /\ groups'[g].workers = ws
    BY DEF GroupMoves
  <2> QED BY <2>1, <2>2, <2>3, <2>4 DEF GroupInv, SameLayout, MayMove, Placed
<1>5. \A h \in GroupNames : groups[h].at = "up" =>
        groups'[h].at = "up" /\ groups'[h].workers = groups[h].workers
  BY DEF GroupMoves, MayMove
<1>6. OrderInv'
  <2>1. SameJob
    BY JobKept DEF ClustersStay
  <2>2. ASSUME NEW f \in GroupNames, NEW h \in GroupNames, ~ Parallel, Earlier(h, f),
               groups'[f].at # "idle"
        PROVE  groups[h].at = "up"
    <3>1. CASE f = g /\ groups[g].at = "idle"
      BY <2>2, <3>1 DEF MayMove
    <3>2. CASE f # g \/ groups[g].at # "idle"
      <4>1. groups[f].at # "idle"
        BY <2>2, <3>2 DEF GroupMoves
      <4> QED BY <2>2, <4>1 DEF SetupInv, OrderInv
    <3> QED BY <3>1, <3>2
  <2> QED BY <1>5, <2>1, <2>2 DEF OrderInv, SameJob
<1>7. EngineInv'
  <2> DEFINE e == "engine"
  <2>1. /\ WorldSize(ClusterOf("engine"))' = WorldSize(ClusterOf("engine"))
        /\ (job.backend)' = job.backend /\ (job.mp)' = job.mp
    BY DEF ClustersStay, WorldSize, Shape, TrainShape, InferenceShape, PolicyNodes,
           RewardGpusHere, ClusterOf, Generates
  <2>2. CASE g = "engine"
    BY <2>1, <2>2 DEF EngineInv, GroupMoves, MayMove
  <2>3. CASE g # "engine"
    <3>1. groups'["engine"].at = groups["engine"].at
          /\ groups'["engine"].workers = groups["engine"].workers
      BY <2>3 DEF GroupMoves, GroupNames
    <3> QED BY <2>1, <3>1 DEF EngineInv, SetupInv
  <2> QED BY <2>2, <2>3
<1>8. MainInv'
  <2>1. SameJob
    BY JobKept DEF ClustersStay
  <2>2. Generates' = Generates /\ (job.colocated)' = job.colocated /\ (job.backend)' = job.backend
    BY DEF ClustersStay, Generates
  <2>3. "engine" \in GroupNames /\ "policy" \in GroupNames
    BY DEF GroupNames
  <2> QED BY <1>5, <2>1, <2>2, <2>3 DEF MainInv, SetupInv, SameJob
<1> QED BY <1>1, <1>2, <1>3, <1>4, <1>6, <1>7, <1>8 DEF SetupInv

\* The steps of one group.
LEMMA PlanIsOfGroups == ToSet(Plan) \subseteq GroupNames
BY DEF ToSet, Plan, GroupNames

\* A constructor begins when those before it in the plan have returned.
LEMMA BeginStep ==
  ASSUME SetupInv, NEW g \in GroupNames, Begin(g)
  PROVE  SetupInv'
<1>1. GroupsTyped /\ groups[g].at = "idle" /\ Turn(g)
  BY DEF SetupInv, Begin
<1>2. ClustersStay /\ UNCHANGED <<nodesUp, main>>
  BY DEF Begin, ClustersStay
<1>3. UsedBy(g)
  BY <1>1 DEF Turn, UsedBy, SetupInv, MainInv
<1>4. \A h \in GroupNames : ~ Parallel /\ Earlier(h, g) => groups[h].at = "up"
  <2> SUFFICES ASSUME NEW h \in GroupNames, ~ Parallel, Earlier(h, g)
               PROVE  groups[h].at = "up"
    OBVIOUS
  <2>1. g # "reward"
    BY DEF Earlier, Plan
  <2>2. PICK i \in DOMAIN Plan, j \in DOMAIN Plan : Plan[i] = h /\ Plan[j] = g /\ i < j
    BY Zenon DEF Earlier
  <2>3. \A k \in DOMAIN Plan : (\E l \in DOMAIN Plan : Plan[l] = g /\ k < l)
                                => groups[Plan[k]].at = "up"
    BY <1>1, <2>1 DEF Turn
  <2> QED BY <2>2, <2>3
<1>5. CASE Refuses(g)
  <2>1. Fails(g, "refused")
    BY <1>5 DEF Begin
  <2>2. GroupMoves(g, "failed", groups[g].workers)
    BY <1>1, <2>1, GroupFails
  <2>3. MayMove(g, "failed", groups[g].workers)
    BY <1>1, <1>3, <1>4 DEF MayMove, Stages
  <2> QED BY <1>2, <2>2, <2>3, GroupStep
<1>6. CASE ~ Refuses(g)
  <2> DEFINE to == IF clusters[ClusterOf(g)].asked THEN "placing" ELSE "asking"
  <2>1. Reaches(g, to)
    BY <1>6 DEF Begin
  <2>2. MayMove(g, to, groups[g].workers)
    BY <1>1, <1>3, <1>4, <1>6 DEF MayMove, Stages
  <2> HIDE DEF to
  <2>3. GroupMoves(g, to, groups[g].workers)
    BY <1>1, <2>1, GroupReaches
  <2> QED BY <1>2, <2>2, <2>3, GroupStep
<1> QED BY <1>5, <1>6

\* Workers are created on the placement groups of their cluster.
LEMMA CreateStep ==
  ASSUME SetupInv, NEW g \in GroupNames, CreateWorkers(g)
  PROVE  SetupInv'
<1>1. /\ GroupsTyped /\ groups[g].at = "placing" /\ Ready(ClusterOf(g)) /\ GroupInv(g)
      /\ ClustersStay /\ UNCHANGED <<nodesUp, main>>
  BY DEF SetupInv, CreateWorkers, ClustersStay
<1>2. UsedBy(g) /\ ~ Refuses(g)
  BY <1>1 DEF GroupInv
<1>3. \/ \E reason : Fails(g, reason)
      \/ /\ ~ (g = "engine" /\ LayoutFails(ClusterOf(g)))
         /\ groups' = [groups EXCEPT ![g].at = "created", ![g].workers = Layout(g)]
  BY DEF CreateWorkers
<1>4. CASE \E reason : Fails(g, reason)
  <2>1. GroupMoves(g, "failed", groups[g].workers)
    BY <1>1, <1>4, GroupFails
  <2>2. MayMove(g, "failed", groups[g].workers)
    BY <1>1, <1>2 DEF MayMove, Stages
  <2> QED BY <1>1, <2>1, <2>2, GroupStep
<1>5. CASE /\ ~ (g = "engine" /\ LayoutFails(ClusterOf(g)))
           /\ groups' = [groups EXCEPT ![g].at = "created", ![g].workers = Layout(g)]
  <2>1. GroupMoves(g, "created", Layout(g))
    BY <1>1, <1>5, GroupGets
  <2>2. MayMove(g, "created", Layout(g))
    BY <1>1, <1>2, <1>5 DEF MayMove, Stages
  <2> QED BY <1>1, <2>1, <2>2, GroupStep
<1> QED BY <1>3, <1>4, <1>5

\* Those of a group that has its workers: they stay the same.
LEMMA PlacedStep ==
  ASSUME SetupInv, ClustersStay, UNCHANGED <<nodesUp, main>>, NEW g \in GroupNames,
         groups[g].at \in {"created", "converting"},
         NEW to \in {"created", "converting", "up"}, Reaches(g, to),
         g = "engine" /\ to = "up" /\ job.backend = "vllm" =>
           Len(groups[g].workers) = WorldSize(ClusterOf("engine")) \div job.mp
  PROVE  SetupInv'
<1>1. GroupsTyped /\ GroupInv(g)
  BY DEF SetupInv
<1>2. GroupMoves(g, to, groups[g].workers)
  BY <1>1, GroupReaches
<1>3. MayMove(g, to, groups[g].workers)
  BY <1>1 DEF MayMove, Stages, GroupInv, Placed
<1> QED BY <1>2, <1>3, GroupStep

\* A group may fail at any stage.
LEMMA FailedStep ==
  ASSUME SetupInv, ClustersStay, UNCHANGED <<nodesUp, main>>, NEW g \in GroupNames,
         groups[g].at \notin {"idle", "up"}, NEW reason, Fails(g, reason)
  PROVE  SetupInv'
<1>1. GroupsTyped /\ GroupInv(g)
  BY DEF SetupInv
<1>2. GroupMoves(g, "failed", groups[g].workers)
  BY <1>1, GroupFails
<1>3. MayMove(g, "failed", groups[g].workers)
  BY <1>1 DEF MayMove, Stages, GroupInv
<1> QED BY <1>2, <1>3, GroupStep

\* The steps of the workers that have been created.
LEMMA WorkersStep ==
  ASSUME SetupInv,
         \/ \E g \in GroupNames : \/ StartConversion(g)
                                  \/ FinishConversion(g)
                                  \/ ComeUp(g)
                                  \/ PortTaken(g)
         \/ VllmComesUp \/ SGLangComesUp
  PROVE  SetupInv'
<1>1. ASSUME NEW g \in GroupNames, StartConversion(g)
      PROVE  SetupInv'
  <2>1. groups[g].at = "created" /\ Reaches(g, "converting")
    BY <1>1 DEF StartConversion, HasShare
  <2>2. ClustersStay /\ UNCHANGED <<nodesUp, main>>
    BY <1>1 DEF StartConversion, ClustersStay
  <2> QED BY <2>1, <2>2, PlacedStep
<1>2. ASSUME NEW g \in GroupNames, FinishConversion(g)
      PROVE  SetupInv'
  <2>1. groups[g].at = "converting" /\ Reaches(g, "created")
    BY <1>2 DEF FinishConversion
  <2>2. ClustersStay /\ UNCHANGED <<nodesUp, main>>
    BY <1>2 DEF FinishConversion, ClustersStay
  <2> QED BY <2>1, <2>2, PlacedStep
<1>3. ASSUME NEW g \in GroupNames, ComeUp(g)
      PROVE  SetupInv'
  <2>1. /\ g # "engine" /\ groups[g].at = "created"
        /\ Fails(g, "unreadable") \/ Fails(g, "refused") \/ Reaches(g, "up")
    BY <1>3, Zenon DEF ComeUp, HasShare, Up
  <2>2. ClustersStay /\ UNCHANGED <<nodesUp, main>>
    BY <1>3 DEF ComeUp, Idle, ClustersStay
  <2>3. CASE Reaches(g, "up")
    BY <2>1, <2>2, <2>3, PlacedStep
  <2>4. CASE Fails(g, "unreadable") \/ Fails(g, "refused")
    BY <2>1, <2>2, <2>4, FailedStep
  <2> QED BY <2>1, <2>3, <2>4
<1>4. ASSUME NEW g \in GroupNames, PortTaken(g)
      PROVE  SetupInv'
  <2>1. groups[g].at = "created" /\ Fails(g, "port")
    BY <1>4 DEF PortTaken
  <2>2. ClustersStay /\ UNCHANGED <<nodesUp, main>>
    BY <1>4 DEF PortTaken, ClustersStay
  <2> QED BY <2>1, <2>2, FailedStep
<1>5. "engine" \in GroupNames
  BY DEF GroupNames
<1>6. CASE VllmComesUp
  <2>1. groups["engine"].at = "created" /\ ClustersStay /\ UNCHANGED <<nodesUp, main>>
    BY <1>6 DEF VllmComesUp, HasShare, Idle, ClustersStay
  <2>2. \/ Fails("engine", "refused") \/ Fails("engine", "mismatch")
        \/ /\ Reaches("engine", "up")
           /\ Len(groups["engine"].workers) = WorldSize(ClusterOf("engine")) \div job.mp
    BY <1>6, Zenon DEF VllmComesUp, Up
  <2>3. CASE Fails("engine", "refused") \/ Fails("engine", "mismatch")
    BY <1>5, <2>1, <2>3, FailedStep
  <2>4. CASE /\ Reaches("engine", "up")
             /\ Len(groups["engine"].workers) = WorldSize(ClusterOf("engine")) \div job.mp
    BY <1>5, <2>1, <2>4, PlacedStep
  <2> QED BY <2>2, <2>3, <2>4
<1>7. CASE SGLangComesUp
  <2>1. /\ groups["engine"].at = "created" /\ ClustersStay /\ UNCHANGED <<nodesUp, main>>
        /\ job.backend # "vllm" /\ Reaches("engine", "up")
    BY <1>7 DEF SGLangComesUp, HasShare, Idle, ClustersStay, Up
  <2> QED BY <1>5, <2>1, PlacedStep
<1> QED BY <1>1, <1>2, <1>3, <1>4, <1>6, <1>7

\* A group that has begun, on the cluster of another that is not up, has all of it.
LEMMA OneAtATime ==
  ASSUME SetupInv, NEW g \in GroupNames, NEW h \in GroupNames, g # h,
         ClusterOf(g) = ClusterOf(h), groups[g].at # "idle", groups[h].at # "idle"
  PROVE  groups[g].at = "up" \/ groups[h].at = "up"
<1>1. UsedBy(g) /\ UsedBy(h)
  BY DEF SetupInv, GroupInv
<1>2. g # "reward" /\ h # "reward"
  BY DEF ClusterOf
<1>3. g \in ToSet(Plan) /\ h \in ToSet(Plan)
  BY <1>1, <1>2 DEF UsedBy
<1>4. ~ Parallel
  <2> SUFFICES ASSUME Parallel PROVE FALSE
    OBVIOUS
  <2>1. job.program = "grpo" /\ ~ job.colocated /\ Generates
    BY DEF Parallel, Generates
  <2>2. ToSet(Plan) \subseteq {"engine", "policy"}
    BY <2>1 DEF Plan, ToSet
  <2>3. ClusterOf("engine") # ClusterOf("policy")
    BY <2>1 DEF ClusterOf
  <2> QED BY <1>3, <2>2, <2>3
<1>5. Earlier(g, h) \/ Earlier(h, g)
  <2>1. PICK i \in DOMAIN Plan : Plan[i] = g
    BY <1>3 DEF ToSet
  <2>2. PICK j \in DOMAIN Plan : Plan[j] = h
    BY <1>3 DEF ToSet
  <2>3. DOMAIN Plan \subseteq Int
    BY DEF Plan
  <2>4. i < j \/ j < i
    BY <2>1, <2>2, <2>3
  <2> QED BY <2>1, <2>2, <2>4 DEF Earlier
<1> QED BY <1>4, <1>5 DEF SetupInv, OrderInv

\* What the groups do while their cluster is asked for.
GroupsBeside(c) ==
  /\ GroupsTyped'
  /\ \A h \in GroupNames :
       /\ groups'[h].workers = groups[h].workers
       /\ \/ groups'[h].at = groups[h].at
          \/ /\ ClusterOf(h) = c /\ groups[h].at \in {"asking", "placing"}
             /\ groups'[h].at \in {"placing", "failed"}
       /\ groups'[h].at = "asking" /\ ClusterOf(h) = c => ~ clusters'[c].asked

\* A step of a cluster that no workers are on keeps what is said of all.
LEMMA ClusterStep ==
  ASSUME SetupInv, job' = job, MachineInv', ClustersTyped', UNCHANGED main,
         NEW c \in ClusterNames, \A d \in ClusterNames \ {c} : clusters'[d] = clusters[d],
         ~ Ready(c), ClusterInv(c)', GpusOnce', GroupsBeside(c)
  PROVE  SetupInv'
<1>1. SameJob
  BY JobKept
<1>2. \A h \in GroupNames : ClusterOf(h) \in ClusterNames
  BY DEF ClusterOf, ClusterNames
<1>3. ASSUME NEW d \in ClusterNames PROVE ClusterInv(d)'
  <2>1. CASE d = c
    BY <2>1
  <2>2. CASE d # c
    BY <2>2, ClusterInvKept DEF SetupInv
  <2> QED BY <2>1, <2>2
<1>4. \A h \in GroupNames : ClusterOf(h) = c => ~ Placed(h)
  BY DEF SetupInv, GroupInv
<1>5. ASSUME NEW h \in GroupNames PROVE GroupInv(h)'
  <2>1. CASE ClusterOf(h) # c
    <3>1. groups'[h].at = groups[h].at /\ groups'[h].workers = groups[h].workers
      BY <2>1 DEF GroupsBeside
    <3> QED BY <1>2, <2>1, <3>1, GroupInvKept DEF SetupInv
  <2>2. CASE ClusterOf(h) = c
    <3>1. UsedBy(h)' = UsedBy(h) /\ Refuses(h)' = Refuses(h) /\ ClusterOf(h)' = c
      BY <1>1, <2>2 DEF SameJob
    <3>2. GroupInv(h) /\ ~ Placed(h)
      BY <1>4, <2>2 DEF SetupInv
    <3>3. /\ \/ groups'[h].at = groups[h].at
             \/ /\ groups[h].at \in {"asking", "placing"}
                /\ groups'[h].at \in {"placing", "failed"}
          /\ groups'[h].at = "asking" => ~ clusters'[c].asked
      BY <2>2 DEF GroupsBeside
    <3>4. ~ Placed(h)'
      BY <3>2, <3>3 DEF Placed
    <3> QED BY <3>1, <3>2, <3>3, <3>4 DEF GroupInv, Stages
  <2> QED BY <2>1, <2>2
<1>6. \A h \in GroupNames : /\ groups'[h].at = "up" <=> groups[h].at = "up"
                            /\ groups'[h].at = "idle" <=> groups[h].at = "idle"
                            /\ groups'[h].workers = groups[h].workers
  BY <1>4 DEF GroupsBeside, Placed
<1>7. OrderInv'
  BY <1>1, <1>6 DEF SetupInv, OrderInv, SameJob
<1>8. EngineInv'
  <2>1. /\ WorldSize(ClusterOf("engine"))' = WorldSize(ClusterOf("engine"))
        /\ (job.backend)' = job.backend /\ (job.mp)' = job.mp
    BY DEF WorldSize, Shape, TrainShape, InferenceShape, PolicyNodes,
           RewardGpusHere, ClusterOf, Generates
  <2>2. "engine" \in GroupNames
    BY DEF GroupNames
  <2> QED BY <1>6, <2>1, <2>2 DEF SetupInv, EngineInv
<1>9. MainInv'
  <2>1. Generates' = Generates /\ (job.colocated)' = job.colocated /\ (job.backend)' = job.backend
    BY DEF Generates
  <2>2. "engine" \in GroupNames /\ "policy" \in GroupNames
    BY DEF GroupNames
  <2> QED BY <1>1, <1>6, <2>1, <2>2 DEF MainInv, SetupInv, SameJob
<1> QED BY <1>3, <1>5, <1>7, <1>8, <1>9 DEF SetupInv, GroupsBeside

\* One cluster changes.
LEMMA ClusterBecomes ==
  ASSUME ClustersTyped, job' = job, NEW c \in ClusterNames, NEW k \in Cluster(job.gpus),
         clusters' = [clusters EXCEPT ![c] = k]
  PROVE  /\ clusters'[c] = k /\ \A d \in ClusterNames \ {c} : clusters'[d] = clusters[d]
         /\ ClustersTyped'
BY DEF ClustersTyped

\* Without bundles there is nothing to share.
LEMMA NoBundles ==
  ASSUME GpusOnce, NEW c \in ClusterNames,
         \A d \in ClusterNames \ {c} : clusters'[d] = clusters[d], clusters'[c].pgs = <<>>
  PROVE  GpusOnce'
<1> DEFINE K == clusters'
           M == clusters
<1>1. GpusOnceIn(M) /\ \A d \in ClusterNames \ {c} : K[d] = M[d]
  BY DEF GpusOnce
<1>2. Len(K[c].pgs) = 0
  OBVIOUS
<1> HIDE DEF K, M
<1>3. \A i : i \notin 1..Len(K[c].pgs)
  BY <1>2
<1>4. ASSUME NEW u \in ClusterNames, NEW v \in ClusterNames,
             NEW i \in 1..Len(K[u].pgs), NEW j \in 1..Len(K[v].pgs),
             NEW a \in 1..Len(K[u].pgs[i]), NEW b \in 1..Len(K[v].pgs[j]),
             K[u].pgs[i][a] = K[v].pgs[j][b]
      PROVE  u = v /\ i = j /\ a = b
  <2>1. u # c /\ v # c
    BY <1>3
  <2>2. K[u] = M[u] /\ K[v] = M[v]
    BY <1>1, <2>1
  <2>3. /\ i \in 1..Len(M[u].pgs) /\ j \in 1..Len(M[v].pgs)
        /\ a \in 1..Len(M[u].pgs[i]) /\ b \in 1..Len(M[v].pgs[j])
        /\ M[u].pgs[i][a] = M[v].pgs[j][b]
    BY <1>4, <2>2, Zenon
  <2>4. \A p \in 1..Len(M[u].pgs), r \in 1..Len(M[v].pgs) :
          \A x \in 1..Len(M[u].pgs[p]), y \in 1..Len(M[v].pgs[r]) :
            M[u].pgs[p][x] = M[v].pgs[r][y] => u = v /\ p = r /\ x = y
    BY <1>1 DEF GpusOnceIn
  <2> HIDE DEF GpusOnceIn
  <2> QED BY ONLY <2>3, <2>4
<1>5. GpusOnceIn(K)
  BY <1>4 DEF GpusOnceIn
<1> QED BY <1>5 DEF K, GpusOnce

\* A cluster is asked for once, by a group in use.
LEMMA AskStep ==
  ASSUME SetupInv, NEW g \in GroupNames, Ask(g), NEW c \in ClusterNames, c = ClusterOf(g)
  PROVE  SetupInv'
<1>1. /\ GroupsTyped /\ groups[g].at = "asking" /\ ClustersTyped /\ GroupInv(g) /\ MachineInv
      /\ job' = job /\ nodesUp' = nodesUp /\ UNCHANGED main /\ GpusOnce
  BY DEF SetupInv, Ask
<1>2. c \in ClusterNames
  OBVIOUS
<1>3. UsedBy(g) /\ ~ clusters[c].asked /\ ClusterInv(c) /\ ~ Ready(c)
  BY <1>1, <1>2 DEF GroupInv, SetupInv, Ready
<1>4. clusters[c].pgs = <<>> /\ ~ clusters[c].unified /\ clusters[c] \in Cluster(job.gpus)
  BY <1>1, <1>2, <1>3 DEF ClusterInv, ClustersTyped
<1>5. SameJob /\ MachineInv'
  BY <1>1, JobKept DEF MachineInv
<1>6. CASE WorldSize(c) <= nodesUp * job.gpus
  <2> DEFINE k == Asked(g)
  <2>1. clusters' = [clusters EXCEPT ![c] = k] /\ Reaches(g, "placing")
    BY <1>6 DEF Ask
  <2>2. /\ k \in Cluster(job.gpus) /\ k.asked /\ k.pgs = <<>> /\ k.unified = Unified(g)
        /\ k.strategy = IF Unified(g) THEN Strategy(g) ELSE "PACK"
    <3>1. Unified(g) \in BOOLEAN /\ Strategy(g) \in {"PACK", "SPREAD"}
      BY DEF Unified, Strategy
    <3> QED BY <1>4, <3>1 DEF Asked, Cluster
  <2> HIDE DEF k
  <2>3. /\ clusters'[c] = k /\ \A d \in ClusterNames \ {c} : clusters'[d] = clusters[d]
        /\ ClustersTyped'
    BY <1>1, <1>2, <2>1, <2>2, ClusterBecomes
  <2>4. GpusOnce'
    BY <1>1, <1>2, <2>2, <2>3, NoBundles
  <2>5. GroupMoves(g, "placing", groups[g].workers)
    BY <1>1, <2>1, GroupReaches
  <2>6. GroupsBeside(c)
    <3>1. ASSUME NEW h \in GroupNames, h # g, ClusterOf(h) = c PROVE groups[h].at = "idle"
      <4> SUFFICES ASSUME groups[h].at # "idle" PROVE FALSE
        OBVIOUS
      <4>1. groups[h].at = "up"
        BY <1>1, <3>1, OneAtATime
      <4>2. Ready(ClusterOf(h))
        BY <4>1 DEF SetupInv, GroupInv, Placed
      <4> QED BY <1>3, <3>1, <4>2
    <3> QED BY <1>1, <2>5, <3>1 DEF GroupMoves, GroupsBeside
  <2>7. ClusterInv(c)'
    <3>1. UsedBy(g)' /\ ClusterOf(g)' = c
      BY <1>3, <1>5 DEF SameJob
    <3>2. Strategy("engine")' = Strategy("engine") /\ Unified("engine")' = Unified("engine")
      BY <1>5 DEF SameJob, GroupNames
    <3>3. Unified(g) => g = "engine"
      BY DEF Unified
    <3>4. GroupCount(c)' \in Nat
      <4>1. Shape(c)' = Shape(c)
        BY <1>2, <1>5 DEF SameJob
      <4>2. Max({0, Shape(c).nodes}) \in Nat
        BY <1>1, <1>2, ShapesTyped, MaxOfZero
      <4> QED BY <4>1, <4>2 DEF GroupCount
    <3>5. Len(clusters'[c].pgs) = 0 /\ clusters'[c].asked
      BY <2>2, <2>3
    <3>6. /\ clusters'[c].strategy = IF clusters'[c].unified THEN Strategy("engine")' ELSE "PACK"
          /\ clusters'[c].unified => g = "engine" /\ Unified("engine")'
      BY <2>2, <2>3, <3>2, <3>3
    <3> QED BY <3>1, <3>4, <3>5, <3>6 DEF ClusterInv
  <2> QED BY <1>1, <1>2, <1>3, <1>5, <2>3, <2>4, <2>6, <2>7, ClusterStep
<1>7. CASE ~ (WorldSize(c) <= nodesUp * job.gpus)
  <2> DEFINE k == [clusters[c] EXCEPT !.tries = @ + 1]
  <2>1. clusters' = [clusters EXCEPT ![c] = k]
    BY <1>7 DEF Ask
  <2>2. Fails(g, "insufficient") \/ UNCHANGED groups
    BY <1>7 DEF Ask
  <2>3. k \in Cluster(job.gpus) /\ ~ k.asked /\ k.pgs = <<>> /\ ~ k.unified
    BY <1>3, <1>4 DEF Cluster
  <2> HIDE DEF k
  <2>4. /\ clusters'[c] = k /\ \A d \in ClusterNames \ {c} : clusters'[d] = clusters[d]
        /\ ClustersTyped'
    BY <1>1, <1>2, <2>1, <2>3, ClusterBecomes
  <2>5. GpusOnce'
    BY <1>1, <1>2, <2>3, <2>4, NoBundles
  <2>6. GroupsBeside(c)
    <3>1. CASE Fails(g, "insufficient")
      <4>1. GroupMoves(g, "failed", groups[g].workers)
        BY <1>1, <3>1, GroupFails
      <4> QED BY <1>1, <2>3, <2>4, <4>1 DEF GroupMoves, GroupsBeside
    <3>2. CASE UNCHANGED groups
      <4>1. GroupsTyped'
        BY <1>1, <3>2 DEF GroupsTyped
      <4> QED BY <2>3, <2>4, <3>2, <4>1 DEF GroupsBeside
    <3> QED BY <2>2, <3>1, <3>2
  <2>7. ClusterInv(c)'
    <3>1. GroupCount(c)' \in Nat
      <4>1. Shape(c)' = Shape(c)
        BY <1>2, <1>5 DEF SameJob
      <4>2. Max({0, Shape(c).nodes}) \in Nat
        BY <1>1, <1>2, ShapesTyped, MaxOfZero
      <4> QED BY <4>1, <4>2 DEF GroupCount
    <3>2. Len(clusters'[c].pgs) = 0 /\ ~ clusters'[c].asked /\ clusters'[c].pgs = <<>>
          /\ ~ clusters'[c].unified
      BY <2>3, <2>4
    <3> QED BY <3>1, <3>2 DEF ClusterInv
  <2> QED BY <1>1, <1>2, <1>3, <1>5, <2>4, <2>5, <2>6, <2>7, ClusterStep
<1> QED BY <1>6, <1>7

\* Placement groups that are not ready in time are removed.
LEMMA TimeOutStep ==
  ASSUME SetupInv, NEW g \in GroupNames, PlacementTimesOut(g),
         NEW c \in ClusterNames, c = ClusterOf(g)
  PROVE  SetupInv'
<1>1. /\ GroupsTyped /\ groups[g].at = "placing" /\ ClustersTyped /\ MachineInv /\ ~ Ready(c)
      /\ job' = job /\ nodesUp' = nodesUp /\ UNCHANGED main /\ GpusOnce
  BY DEF SetupInv, PlacementTimesOut
<1>2. clusters[c] \in Cluster(job.gpus)
  BY <1>1 DEF ClustersTyped
<1>3. SameJob /\ MachineInv'
  BY <1>1, JobKept DEF MachineInv
<1> DEFINE k == [NoCluster EXCEPT !.tries = clusters[c].tries]
<1>4. clusters' = [clusters EXCEPT ![c] = k] /\ Fails(g, "timeout")
  BY DEF PlacementTimesOut
<1>5. k \in Cluster(job.gpus) /\ ~ k.asked /\ k.pgs = <<>> /\ ~ k.unified
  <2> DEFINE t == clusters[c].tries
  <2>1. t \in Nat
    BY <1>2 DEF Cluster
  <2> DEFINE n == NoCluster
  <2>2. n \in Cluster(job.gpus) /\ ~ n.asked /\ n.pgs = <<>> /\ ~ n.unified
    BY DEF NoCluster, Cluster
  <2>3. k = [n EXCEPT !.tries = t]
    OBVIOUS
  <2> HIDE DEF k, t, n
  <2> QED BY <2>1, <2>2, <2>3 DEF Cluster
<1> HIDE DEF k
<1>6. /\ clusters'[c] = k /\ \A d \in ClusterNames \ {c} : clusters'[d] = clusters[d]
      /\ ClustersTyped'
  BY <1>1, <1>4, <1>5, ClusterBecomes
<1>7. GpusOnce'
  BY <1>1, <1>5, <1>6, NoBundles
<1>8. GroupsBeside(c)
  <2>1. GroupMoves(g, "failed", groups[g].workers)
    BY <1>1, <1>4, GroupFails
  <2> QED BY <1>1, <1>5, <1>6, <2>1 DEF GroupMoves, GroupsBeside
<1>9. ClusterInv(c)'
  <2>1. GroupCount(c)' \in Nat
    <3>1. Shape(c)' = Shape(c)
      BY <1>3 DEF SameJob
    <3>2. Max({0, Shape(c).nodes}) \in Nat
      BY <1>1, ShapesTyped, MaxOfZero
    <3> QED BY <3>1, <3>2 DEF GroupCount
  <2>2. Len(clusters'[c].pgs) = 0 /\ ~ clusters'[c].asked /\ clusters'[c].pgs = <<>>
        /\ ~ clusters'[c].unified
    BY <1>5, <1>6
  <2> QED BY <2>1, <2>2 DEF ClusterInv
<1> QED BY <1>1, <1>3, <1>6, <1>7, <1>8, <1>9, ClusterStep

\* What a placement group is that Ray may give.
IsPlacement(pg, count, strategy, unified) ==
  /\ pg \in Seq(Machine(job.gpus)) /\ Len(pg) = count /\ Distinct(pg)
  /\ ToSet(pg) \subseteq FreeGpus /\ IsFiniteSet(ToSet(pg)) /\ Cardinality(ToSet(pg)) = count
  /\ Fits(ToSet(pg), FreeGpus, strategy)
  /\ ~ unified => pg = InOrder(ToSet(pg))

\* Free GPUs are GPUs of the machine, finitely many.
LEMMA FreeGpusTyped ==
  ASSUME MachineInv
  PROVE  IsFiniteSet(FreeGpus) /\ FreeGpus \in SUBSET Machine(job.gpus)
<1>1. nodesUp \in Nat /\ job.gpus \in Nat
  BY JobTyped
<1>2. IsFiniteSet(1..nodesUp) /\ IsFiniteSet(1..job.gpus)
  BY <1>1, FS_Interval
<1>3. IsFiniteSet((1..nodesUp) \X (1..job.gpus))
  BY <1>2, FS_Product
<1>4. FreeGpus \subseteq (1..nodesUp) \X (1..job.gpus)
  BY DEF FreeGpus, Nodes
<1>5. (1..nodesUp) \X (1..job.gpus) \subseteq Machine(job.gpus)
  BY <1>1 DEF Machine
<1> QED BY <1>3, <1>4, <1>5, FS_Subset

\* A placement is an order of as many free GPUs as were asked for.
LEMMA PlacementsAre ==
  ASSUME MachineInv, NEW count, NEW cluster, NEW pg \in Placements(count, cluster)
  PROVE  IsPlacement(pg, count, cluster.strategy, cluster.unified)
<1> DEFINE free == FreeGpus
           sets == {s \in kSubset(count, free) : Fits(s, free, cluster.strategy)}
<1>1. \E s \in sets : \/ cluster.unified /\ pg \in SetToSeqs(s)
                      \/ ~ cluster.unified /\ pg = InOrder(s)
  BY Zenon DEF Placements
<1>2. PICK s \in sets : \/ cluster.unified /\ pg \in SetToSeqs(s)
                        \/ ~ cluster.unified /\ pg = InOrder(s)
  BY <1>1
<1>3. /\ s \in SUBSET free /\ Cardinality(s) = count /\ Fits(s, free, cluster.strategy)
      /\ IsFiniteSet(s) /\ s \in SUBSET Machine(job.gpus) /\ count \in Nat /\ job.gpus \in Nat
  <2>1. s \in SUBSET free /\ Cardinality(s) = count /\ Fits(s, free, cluster.strategy)
    BY DEF kSubset
  <2>2. IsFiniteSet(s)
    BY <2>1, FreeGpusTyped, FS_Subset
  <2>3. Cardinality(s) \in Nat
    BY <2>2, FS_CardinalityType
  <2> QED BY <2>1, <2>2, <2>3, FreeGpusTyped, JobTyped
<1> HIDE DEF sets, free
<1>4. /\ pg \in [1..count -> s] /\ Len(pg) = count
      /\ \A i, j \in 1..count : pg[i] = pg[j] => i = j
      /\ \A x \in s : \E i \in 1..count : pg[i] = x
  <2>1. CASE cluster.unified /\ pg \in SetToSeqs(s)
    <3>1. pg \in [1..count -> s] /\ \A i, j \in 1..count : i # j => pg[i] # pg[j]
      BY <1>3, <2>1 DEF SetToSeqs
    <3>2. pg \in Injection(1..count, s)
      BY <3>1 DEF Injection, IsInjective
    <3>3. IsFiniteSet(1..count) /\ Cardinality(1..count) = count
      BY <1>3, FS_Interval
    <3>4. pg \in Surjection(1..count, s)
      BY <1>3, <3>2, <3>3, FS_Injection
    <3>5. Len(pg) = count
      BY <1>3, <3>1
    <3> QED BY <3>1, <3>4, <3>5 DEF Surjection
  <2>2. CASE ~ cluster.unified /\ pg = InOrder(s)
    <3>1. IsOrderOf(pg, s, GpuKey(s, job.gpus))
      BY <1>3, <2>2, GpusInOrder
    <3>2. /\ Len(pg) = count /\ pg \in [1..count -> s]
          /\ \A i \in 1..count : Cardinality(Below(s, GpuKey(s, job.gpus), pg[i])) = i - 1
          /\ \A x \in s : \E i \in 1..count : pg[i] = x
      BY <1>3, <3>1 DEF IsOrderOf
    <3>3. ASSUME NEW i \in 1..count, NEW j \in 1..count, pg[i] = pg[j] PROVE i = j
      <4>1. i - 1 = j - 1 /\ i \in Int /\ j \in Int
        BY <3>2, <3>3
      <4> QED BY <4>1
    <3> QED BY <3>2, <3>3
  <2> QED BY <1>2, <2>1, <2>2
<1>5. ToSet(pg) = s
  <2>1. DOMAIN pg = 1..count
    BY <1>4
  <2> QED BY <1>4, <2>1 DEF ToSet
<1>6. pg \in Seq(Machine(job.gpus))
  <2>1. pg \in [1..count -> Machine(job.gpus)]
    BY <1>3, <1>4
  <2> QED BY <1>3, <2>1
<1>7. Distinct(pg)
  BY <1>4 DEF Distinct
<1> QED BY <1>2, <1>3, <1>4, <1>5, <1>6, <1>7 DEF IsPlacement, free

\* Ray's placement groups.
LEMMA ReserveStep ==
  ASSUME SetupInv, NEW c \in ClusterNames, ReservePlacementGroup(c)
  PROVE  SetupInv'
<1>1. /\ GroupsTyped /\ ClustersTyped /\ MachineInv /\ ~ Ready(c) /\ clusters[c].asked
      /\ job' = job /\ nodesUp' = nodesUp /\ UNCHANGED <<main, groups>> /\ GpusOnce
      /\ ClusterInv(c) /\ clusters[c] \in Cluster(job.gpus)
  BY DEF SetupInv, ReservePlacementGroup, ClustersTyped
<1>2. SameJob /\ MachineInv'
  BY <1>1, JobKept DEF MachineInv
<1> DEFINE pgs == clusters[c].pgs
           n == Len(pgs)
<1>3. pgs \in Seq(Seq(Machine(job.gpus))) /\ n \in Nat
  <2>1. pgs \in Seq(Seq(Machine(job.gpus)))
    BY <1>1 DEF Cluster
  <2> QED BY <2>1
<1>4. /\ GroupCount(c) \in Nat /\ Len(Bundles(c)) = GroupCount(c)
      /\ \A i \in 1..GroupCount(c) : Bundles(c)[i] = GroupSize(c)
  BY <1>1, GroupsOfCluster
<1>5. n < GroupCount(c)
  BY <1>1, <1>3, <1>4 DEF ClusterInv, Ready
<1>6. Bundles(c)[n + 1] = GroupSize(c)
  BY <1>3, <1>4, <1>5
<1>7. PICK pg \in Placements(Bundles(c)[n + 1], clusters[c]) :
        clusters' = [clusters EXCEPT ![c].pgs = Append(@, pg)]
  BY Zenon DEF ReservePlacementGroup, NextPlacements
<1>8. IsPlacement(pg, GroupSize(c), clusters[c].strategy, clusters[c].unified)
  BY <1>1, <1>6, <1>7, PlacementsAre
<1>9. /\ pg \in Seq(Machine(job.gpus)) /\ Len(pg) = GroupSize(c) /\ Distinct(pg)
      /\ ToSet(pg) \subseteq FreeGpus
  BY <1>8 DEF IsPlacement
<1> DEFINE q == Append(pgs, pg)
           k == [clusters[c] EXCEPT !.pgs = q]
<1>10. clusters' = [clusters EXCEPT ![c] = k]
  BY <1>7
<1>11. /\ q \in Seq(Seq(Machine(job.gpus))) /\ Len(q) = n + 1
       /\ \A i \in 1..(n + 1) : q[i] = IF i = n + 1 THEN pg ELSE pgs[i]
  <2> DEFINE V == Seq(Machine(job.gpus))
  <2>1. pgs \in Seq(V) /\ pg \in V
    BY <1>3, <1>9
  <2>2. n = Len(pgs) /\ n \in Nat
    BY <1>3
  <2> HIDE DEF V, pgs, n
  <2>3. /\ q \in Seq(V) /\ Len(q) = n + 1 /\ q[n + 1] = pg
        /\ \A i \in 1..n : q[i] = pgs[i]
    BY ONLY <2>1, <2>2, AppendProperties DEF q
  <2> HIDE DEF q
  <2>4. \A i \in 1..(n + 1) : i # n + 1 => i \in 1..n
    BY ONLY <2>2
  <2>5. \A i \in 1..(n + 1) : q[i] = IF i = n + 1 THEN pg ELSE pgs[i]
    BY ONLY <2>3, <2>4
  <2> QED BY <2>3, <2>5 DEF V
<1>12. /\ k \in Cluster(job.gpus) /\ k.asked = clusters[c].asked /\ k.unified = clusters[c].unified
       /\ k.strategy = clusters[c].strategy /\ k.pgs = q
  <2> HIDE DEF q
  <2> QED BY <1>1, <1>11 DEF Cluster
<1> HIDE DEF k, q
<1>13. /\ clusters'[c] = k /\ \A d \in ClusterNames \ {c} : clusters'[d] = clusters[d]
       /\ ClustersTyped'
  BY <1>1, <1>10, <1>12, ClusterBecomes
<1>14. GroupsBeside(c)
  <2>1. GroupsTyped'
    BY <1>1 DEF GroupsTyped
  <2>2. \A h \in GroupNames : groups[h].at = "asking" => ~ clusters[ClusterOf(h)].asked
    BY DEF SetupInv, GroupInv
  <2> QED BY <1>1, <2>1, <2>2 DEF GroupsBeside
<1>15. ClusterInv(c)'
  <2>1. GroupCount(c)' = GroupCount(c) /\ GroupSize(c)' = GroupSize(c)
    <3>1. Shape(c)' = Shape(c) /\ WorldSize(c)' = WorldSize(c)
      BY <1>2 DEF SameJob
    <3>2. clusters'[c].unified = clusters[c].unified
      BY <1>12, <1>13
    <3> QED BY <3>1, <3>2 DEF GroupCount, GroupSize
  <2>2. /\ \A g \in GroupNames : UsedBy(g)' = UsedBy(g) /\ ClusterOf(g)' = ClusterOf(g)
        /\ Strategy("engine")' = Strategy("engine") /\ Unified("engine")' = Unified("engine")
    BY <1>2 DEF SameJob, GroupNames
  <2>3. Len(k.pgs) <= GroupCount(c) /\ \A i \in 1..Len(k.pgs) : Len(k.pgs[i]) = GroupSize(c)
    <3>1. \A i \in 1..n : Len(pgs[i]) = GroupSize(c)
      BY <1>1 DEF ClusterInv
    <3>2. k.pgs = q /\ Len(q) = n + 1 /\ n \in Nat
      BY <1>3, <1>11, <1>12
    <3> HIDE DEF n, pgs
    <3>3. Len(q) <= GroupCount(c)
      BY <1>4, <1>5, <3>2
    <3>4. ASSUME NEW i \in 1..Len(q) PROVE Len(q[i]) = GroupSize(c)
      <4>1. i \in 1..(n + 1) /\ (i = n + 1 \/ i \in 1..n)
        BY <3>2
      <4>2. CASE i = n + 1
        BY <1>9, <1>11, <4>1, <4>2, Zenon
      <4>3. CASE i # n + 1
        BY <1>11, <3>1, <4>1, <4>3, Zenon
      <4> QED BY <4>2, <4>3
    <3> QED BY <3>2, <3>3, <3>4
  <2>4. \E g \in GroupNames :
          /\ UsedBy(g) /\ ClusterOf(g) = c
          /\ k.strategy = IF k.unified THEN Strategy("engine") ELSE "PACK"
          /\ k.unified => g = "engine" /\ Unified("engine")
    BY <1>1, <1>12 DEF ClusterInv
  <2>5. clusters'[c] = k /\ k.asked
    BY <1>1, <1>12, <1>13
  <2> QED BY <2>1, <2>2, <2>3, <2>4, <2>5 DEF ClusterInv
<1>16. GpusOnce'
  <2> DEFINE K == clusters'
             M == clusters
  <2>1. /\ K[c].pgs = q /\ M[c].pgs = pgs /\ \A d \in ClusterNames \ {c} : K[d] = M[d]
        /\ Len(M[c].pgs) = n
    BY <1>12, <1>13
  <2>2. GpusOnceIn(M)
    BY <1>1 DEF GpusOnce
  <2>3. \A d \in ClusterNames : \A i \in 1..Len(M[d].pgs) : \A a \in 1..Len(M[d].pgs[i]) :
          M[d].pgs[i][a] \in Reserved
    <3> TAKE d \in ClusterNames
    <3> TAKE i \in 1..Len(M[d].pgs)
    <3> TAKE a \in 1..Len(M[d].pgs[i])
    <3>1. M[d].pgs \in Seq(Seq(Machine(job.gpus)))
      BY <1>1 DEF ClustersTyped, Cluster
    <3>2. M[d].pgs[i] \in ToSet(M[d].pgs)
      BY <3>1 DEF ToSet
    <3>3. M[d].pgs[i][a] \in ToSet(M[d].pgs[i])
      <4>1. M[d].pgs[i] \in Seq(Machine(job.gpus))
        BY <3>1
      <4> QED BY <4>1 DEF ToSet
    <3> QED BY <3>2, <3>3 DEF Reserved
  <2>4. \A b \in 1..Len(pg) : pg[b] \notin Reserved
    BY <1>9 DEF FreeGpus, ToSet
  <2> HIDE DEF K, M
  <2>5. ASSUME NEW d \in ClusterNames, NEW i \in 1..Len(K[d].pgs)
        PROVE  \/ d = c /\ i = n + 1 /\ K[d].pgs[i] = pg
               \/ i \in 1..Len(M[d].pgs) /\ K[d].pgs[i] = M[d].pgs[i]
    <3>1. CASE d # c
      BY <2>1, <2>5, <3>1
    <3>2. CASE d = c
      <4>0. i \in 1..Len(q)
        BY <2>1, <2>5, <3>2, Zenon
      <4>1. i \in 1..(n + 1) /\ (i = n + 1 \/ i \in 1..n)
        <5>1. Len(q) = n + 1 /\ n \in Nat
          BY <1>3, <1>11
        <5> HIDE DEF n, pgs
        <5> QED BY <4>0, <5>1
      <4>2. i = n + 1 => q[i] = pg
        BY <1>11, <4>1
      <4>3. i \in 1..n => q[i] = pgs[i]
        <5>1. n \in Nat
          BY <1>3
        <5>2. \A x \in 1..(n + 1) : q[x] = IF x = n + 1 THEN pg ELSE pgs[x]
          BY <1>11
        <5> HIDE DEF n, pgs
        <5>3. i \in 1..n => i \in 1..(n + 1) /\ i # n + 1
          BY <5>1
        <5> QED BY <5>2, <5>3, Zenon
      <4> HIDE DEF n, pgs
      <4> QED BY <2>1, <3>2, <4>1, <4>2, <4>3
    <3> QED BY <3>1, <3>2
  <2>6. ASSUME NEW u \in ClusterNames, NEW v \in ClusterNames,
               NEW i \in 1..Len(K[u].pgs), NEW j \in 1..Len(K[v].pgs),
               NEW a \in 1..Len(K[u].pgs[i]), NEW b \in 1..Len(K[v].pgs[j]),
               K[u].pgs[i][a] = K[v].pgs[j][b]
        PROVE  u = v /\ i = j /\ a = b
    <3>1. \/ u = c /\ i = n + 1 /\ K[u].pgs[i] = pg
          \/ i \in 1..Len(M[u].pgs) /\ K[u].pgs[i] = M[u].pgs[i]
      BY <2>5
    <3>2. \/ v = c /\ j = n + 1 /\ K[v].pgs[j] = pg
          \/ j \in 1..Len(M[v].pgs) /\ K[v].pgs[j] = M[v].pgs[j]
      BY <2>5
    <3>3. CASE u = c /\ i = n + 1 /\ K[u].pgs[i] = pg /\ v = c /\ j = n + 1 /\ K[v].pgs[j] = pg
      BY <1>9, <2>6, <3>3 DEF Distinct
    <3>4. CASE /\ u = c /\ i = n + 1 /\ K[u].pgs[i] = pg
               /\ j \in 1..Len(M[v].pgs) /\ K[v].pgs[j] = M[v].pgs[j]
      <4>1. a \in 1..Len(pg) /\ b \in 1..Len(M[v].pgs[j]) /\ pg[a] = M[v].pgs[j][b]
        BY <2>6, <3>4, Zenon
      <4>2. pg[a] \notin Reserved
        BY <2>4, <4>1, Zenon
      <4>3. M[v].pgs[j][b] \in Reserved
        BY <2>3, <3>4, <4>1, Zenon
      <4> QED BY ONLY <4>1, <4>2, <4>3
    <3>5. CASE /\ v = c /\ j = n + 1 /\ K[v].pgs[j] = pg
               /\ i \in 1..Len(M[u].pgs) /\ K[u].pgs[i] = M[u].pgs[i]
      <4>1. b \in 1..Len(pg) /\ a \in 1..Len(M[u].pgs[i]) /\ pg[b] = M[u].pgs[i][a]
        BY <2>6, <3>5, Zenon
      <4>2. pg[b] \notin Reserved
        BY <2>4, <4>1, Zenon
      <4>3. M[u].pgs[i][a] \in Reserved
        BY <2>3, <3>5, <4>1, Zenon
      <4> QED BY ONLY <4>1, <4>2, <4>3
    <3>6. CASE /\ i \in 1..Len(M[u].pgs) /\ K[u].pgs[i] = M[u].pgs[i]
               /\ j \in 1..Len(M[v].pgs) /\ K[v].pgs[j] = M[v].pgs[j]
      <4>1. /\ a \in 1..Len(M[u].pgs[i]) /\ b \in 1..Len(M[v].pgs[j])
            /\ M[u].pgs[i][a] = M[v].pgs[j][b]
        BY <2>6, <3>6, Zenon
      <4>2. \A p \in 1..Len(M[u].pgs), r \in 1..Len(M[v].pgs) :
              \A x \in 1..Len(M[u].pgs[p]), y \in 1..Len(M[v].pgs[r]) :
                M[u].pgs[p][x] = M[v].pgs[r][y] => u = v /\ p = r /\ x = y
        BY <2>2 DEF GpusOnceIn
      <4> HIDE DEF GpusOnceIn
      <4> QED BY ONLY <3>6, <4>1, <4>2
    <3> QED BY <3>1, <3>2, <3>3, <3>4, <3>5, <3>6, Zenon
  <2>7. GpusOnceIn(K)
    BY <2>6 DEF GpusOnceIn
  <2> QED BY <2>7 DEF K, GpusOnce
<1> QED BY <1>1, <1>2, <1>13, <1>14, <1>15, <1>16, ClusterStep

\* A step of setup's own process, or a node that joins.
LEMMA MainStep ==
  ASSUME SetupInv, ClustersStay, groups' = groups, MachineInv', MainInv'
  PROVE  SetupInv'
<1>1. ClustersTyped' /\ GroupsTyped'
  BY DEF SetupInv, ClustersStay, ClustersTyped, GroupsTyped
<1>2. ASSUME NEW c \in ClusterNames PROVE ClusterInv(c)'
  BY ClusterInvKept DEF SetupInv, ClustersStay
<1>3. GpusOnce'
  BY DEF SetupInv, ClustersStay, GpusOnce
<1>4. ASSUME NEW g \in GroupNames PROVE GroupInv(g)'
  BY GroupInvKept DEF SetupInv, ClustersStay
<1>5. OrderInv'
  <2>1. SameJob
    BY JobKept DEF ClustersStay
  <2> QED BY <2>1 DEF OrderInv, SameJob, SetupInv
<1>6. EngineInv'
  <2>1. /\ WorldSize(ClusterOf("engine"))' = WorldSize(ClusterOf("engine"))
        /\ (job.backend)' = job.backend /\ (job.mp)' = job.mp
    BY DEF ClustersStay, WorldSize, Shape, TrainShape, InferenceShape, PolicyNodes,
           RewardGpusHere, ClusterOf, Generates
  <2> QED BY <2>1 DEF EngineInv, SetupInv
<1> QED BY <1>1, <1>2, <1>3, <1>4, <1>5, <1>6 DEF SetupInv

\* What setup has come to holds in the next state if setup has not moved on.
LEMMA MainKept ==
  ASSUME SetupInv, ClustersStay, groups' = groups, main' = main \/ main' \in {"check", "failed"}
  PROVE  MainInv'
<1>1. SameJob
  BY JobKept DEF ClustersStay
<1>2. Generates' = Generates /\ (job.colocated)' = job.colocated /\ (job.backend)' = job.backend
  BY DEF ClustersStay, Generates
<1> QED BY <1>1, <1>2 DEF MainInv, SetupInv, SameJob

\* The engine and the policy are in the plan of a program that generates with
\* GPUs of its own for inference, and setup waits for both.
LEMMA BothAreUp ==
  ASSUME Generates, ~ job.colocated, job.backend = "vllm", \A g \in ToSet(Plan) : Waited(g)
  PROVE  groups["engine"].at = "up" /\ groups["policy"].at = "up"
<1>1. "engine" \in ToSet(Plan) /\ "policy" \in ToSet(Plan)
  BY DEF ToSet, Plan, Generates
<1> QED BY <1>1 DEF Waited

\* The steps of setup's own process.
LEMMA MainSteps ==
  ASSUME SetupInv,
         \/ NodeJoins
         \/ CheckSetup
         \/ GroupFailed
         \/ FinishSetup
  PROVE  SetupInv'
<1>1. CASE NodeJoins
  <2>1. ClustersStay /\ groups' = groups /\ main' = main
    BY <1>1 DEF NodeJoins, ClustersStay
  <2>2. MachineInv'
    <3>1. job.nodes \in Nat /\ nodesUp \in Nat
      BY JobTyped DEF SetupInv
    <3> QED BY <1>1, <3>1 DEF SetupInv, MachineInv, NodeJoins
  <2> QED BY <2>1, <2>2, MainKept, MainStep
<1>2. CASE CheckSetup \/ GroupFailed \/ FinishSetup
  <2>1. ClustersStay /\ groups' = groups /\ nodesUp' = nodesUp
    BY <1>2 DEF CheckSetup, GroupFailed, FinishSetup, ClustersStay
  <2>2. MachineInv'
    BY <2>1 DEF SetupInv, MachineInv, ClustersStay
  <2>3. SameJob
    BY <2>1, JobKept DEF ClustersStay
  <2>4. CASE main' \in {"check", "failed"}
    BY <2>1, <2>2, <2>4, MainKept, MainStep
  <2>5. CASE CheckSetup /\ main' \notin {"check", "failed"}
    <3>1. main' = "init" /\ ~ SetupRefuses
      BY <2>5 DEF CheckSetup, MainFails
    <3>2. MainInv'
      BY <2>3, <3>1 DEF MainInv, SameJob
    <3> QED BY <2>1, <2>2, <3>2, MainStep
  <2>6. CASE GroupFailed
    <3>1. main' = "failed"
      BY <2>6 DEF GroupFailed, MainFails
    <3> QED BY <2>4, <3>1
  <2>7. CASE FinishSetup /\ main' \notin {"check", "failed"}
    <3>1. /\ main = "init" /\ main' = "ready" /\ \A g \in ToSet(Plan) : Waited(g)
          /\ ~ (Generates /\ ~ job.colocated /\ ~ Rendezvous)
      BY <2>7 DEF FinishSetup, MainFails
    <3>2. ~ SetupRefuses
      BY <3>1 DEF SetupInv, MainInv
    <3>3. Generates /\ ~ job.colocated =>
            job.backend = "vllm" /\ groups["engine"].at = "up" /\ groups["policy"].at = "up"
      BY <3>1, BothAreUp DEF Rendezvous
    <3>4. Generates' = Generates /\ (job.colocated)' = job.colocated
          /\ (job.backend)' = job.backend
      BY <2>1 DEF ClustersStay, Generates
    <3>5. MainInv'
      BY <2>1, <2>3, <3>1, <3>2, <3>3, <3>4 DEF MainInv, SameJob
    <3> QED BY <2>1, <2>2, <3>5, MainStep
  <2> QED BY <1>2, <2>4, <2>5, <2>6, <2>7
<1> QED BY <1>1, <1>2

\* Nothing has been asked for yet.
AtFirst ==
  /\ MachineInv /\ main = "check"
  /\ clusters = [c \in ClusterNames |-> NoCluster]
  /\ groups = [g \in GroupNames |-> NoGroup]

\* Then all of the invariant holds.
LEMMA NothingAsked == AtFirst => SetupInv
<1> SUFFICES ASSUME AtFirst PROVE SetupInv
  OBVIOUS
<1> USE DEF AtFirst
<1>1. \A c \in ClusterNames : clusters[c] = NoCluster
  OBVIOUS
<1>2. \A g \in GroupNames : groups[g] = NoGroup
  OBVIOUS
<1>3. GroupsTyped
  BY <1>2 DEF GroupsTyped, IsGroup, NoGroup
<1>4. ClustersTyped
  <2>1. NoCluster \in Cluster(job.gpus)
    BY DEF NoCluster, Cluster
  <2> QED BY <2>1 DEF ClustersTyped
<1>5. ASSUME NEW c \in ClusterNames PROVE ClusterInv(c)
  <2>1. GroupCount(c) \in Nat
    BY GroupsOfCluster
  <2> QED BY <1>1, <2>1 DEF ClusterInv, NoCluster
<1>6. GpusOnce
  BY <1>1 DEF GpusOnce, GpusOnceIn, NoCluster
<1>7. ASSUME NEW g \in GroupNames PROVE GroupInv(g)
  BY <1>2 DEF GroupInv, NoGroup, Stages, Placed
<1>8. OrderInv /\ EngineInv /\ MainInv
  BY <1>2 DEF OrderInv, EngineInv, MainInv, NoGroup, GroupNames
<1> QED BY <1>3, <1>4, <1>5, <1>6, <1>7, <1>8 DEF SetupInv

\* The first job begins so.
LEMMA InitSetup ==
  ASSUME SetupInit
  PROVE  SetupInv
<1>1. MachineInv
  BY JobsAssumption DEF SetupInit, MachineInv
<1> QED BY <1>1, NothingAsked DEF SetupInit, AtFirst

\* The steps of the programs.
LEMMA SetupInvStep ==
  ASSUME SetupInv, [ProgramNext]_programVars
  PROVE  SetupInv'
<1>1. CASE UNCHANGED setupVars
  <2>1. ClustersStay /\ groups' = groups /\ main' = main /\ nodesUp' = nodesUp
    BY <1>1 DEF setupVars, ClustersStay
  <2>2. MachineInv'
    BY <2>1 DEF SetupInv, MachineInv, ClustersStay
  <2> QED BY <2>1, <2>2, MainKept, MainStep
<1>2. CASE SetsUp
  <2>1. ASSUME NEW g \in GroupNames,
               \/ Begin(g)
               \/ Ask(g)
               \/ CreateWorkers(g)
               \/ StartConversion(g)
               \/ FinishConversion(g)
               \/ ComeUp(g)
               \/ PlacementTimesOut(g)
        PROVE  SetupInv'
    <3> DEFINE c == ClusterOf(g)
    <3>1. c \in ClusterNames
      BY DEF ClusterOf, ClusterNames
    <3>2. CASE Begin(g)
      BY <3>2, BeginStep
    <3>3. CASE CreateWorkers(g)
      BY <3>3, CreateStep
    <3>4. CASE StartConversion(g) \/ FinishConversion(g) \/ ComeUp(g)
      BY <3>4, WorkersStep
    <3>5. CASE Ask(g)
      BY <3>1, <3>5, AskStep
    <3>6. CASE PlacementTimesOut(g)
      BY <3>1, <3>6, TimeOutStep
    <3> QED BY <2>1, <3>2, <3>3, <3>4, <3>5, <3>6
  <2>2. ASSUME NEW c \in ClusterNames, ReservePlacementGroup(c) PROVE SetupInv'
    BY <2>2, ReserveStep
  <2> QED BY <1>2, <2>1, <2>2, MainSteps, WorkersStep DEF SetsUp, SetupStep
<1>3. CASE PortClash
  BY <1>3, WorkersStep DEF PortClash
<1>4. CASE Start \/ CrashInSetup
  <2>1. ClustersStay /\ groups' = groups /\ nodesUp' = nodesUp
    BY <1>4 DEF Start, CrashInSetup, ClustersStay
  <2>2. MachineInv'
    BY <2>1 DEF SetupInv, MachineInv, ClustersStay
  <2>3. MainInv'
    <3>1. CASE CrashInSetup
      BY <2>1, <3>1, MainKept DEF CrashInSetup
    <3>2. CASE Start
      <4>1. SameJob
        BY <2>1, JobKept DEF ClustersStay
      <4>2. Generates' = Generates /\ (job.colocated)' = job.colocated
            /\ (job.backend)' = job.backend
        BY <2>1 DEF ClustersStay, Generates
      <4> QED BY <2>1, <3>2, <4>1, <4>2 DEF Start, MainInv, SetupInv, SameJob
    <3> QED BY <1>4, <3>1, <3>2
  <2> QED BY <2>1, <2>2, <2>3, MainStep
<1>5. CASE Relaunch
  <2>1. MachineInv'
    BY <1>5 DEF Relaunch, SetupInv, MachineInv
  <2>2. AtFirst'
    BY <1>5, <2>1 DEF Relaunch, AtFirst
  <2> QED BY <2>2, NothingAsked, PTL
<1> QED BY <1>1, <1>2, <1>3, <1>4, <1>5
        DEF ProgramNext, Goes, TrainingStep, EvaluationStep, CrashInLoop, SetUpIdle,
            programVars

\* A job comes up in order: clusters and groups are asked for by the plan, the
\* placement groups share no GPU, and the workers are laid out on those of their
\* cluster.
THEOREM SetupIsOrderly == ProgramSpec => []SetupInv
<1>1. ProgramInit => SetupInv
  BY InitSetup DEF ProgramInit
<1>2. SetupInv /\ [ProgramNext]_programVars => SetupInv'
  BY SetupInvStep
<1> QED BY <1>1, <1>2, PTL DEF ProgramSpec

-----------------------------------------------------------------------------
(* The workers of a group that is placed *)

\* The cluster of a group in use has GPUs on its nodes, or none.
LEMMA GpusOfUse ==
  ASSUME MachineInv, NEW g \in GroupNames, UsedBy(g), NEW c, c = ClusterOf(g)
  PROVE  c \in ClusterNames /\ Shape(c).gpus \in Nat
<1>1. c \in ClusterNames
  BY DEF ClusterOf, ClusterNames
<1>2. CASE g = "reward"
  BY <1>1, <1>2, JobTyped DEF ClusterOf, Shape
<1>3. CASE g # "reward"
  <2>1. ~ SetupRefuses
    BY <1>3 DEF UsedBy
  <2>2. ~ (TrainShape.gpus <= 0) /\ Shape("train") = TrainShape
    BY <2>1 DEF SetupRefuses, Shape
  <2>3. Shape("train").gpus \in Int
    BY ShapesTyped DEF ClusterNames
  <2>4. Shape("inference").gpus \in Nat
    BY JobTyped DEF Shape, InferenceShape
  <2> QED BY <1>1, <1>3, <2>2, <2>3, <2>4 DEF ClusterOf
<1> QED BY <1>1, <1>2, <1>3

\* The placement groups of a cluster that is ready are alike and share no GPU.
Reserves(c) ==
  /\ c \in ClusterNames /\ clusters[c].asked /\ job.gpus \in Nat \ {0}
  /\ clusters[c].pgs \in Seq(Seq(Machine(job.gpus)))
  /\ GroupCount(c) \in Nat /\ GroupSize(c) \in Nat
  /\ WorldSize(c) \in Nat /\ WorldSize(c) = GroupCount(c) * GroupSize(c)
  /\ DistinctGroups(clusters[c].pgs, GroupCount(c), GroupSize(c))

\* No GPU is two bundles of one cluster.
OnceInGroups(pgs) ==
  \A i \in 1..Len(pgs), j \in 1..Len(pgs) : \A a \in 1..Len(pgs[i]), b \in 1..Len(pgs[j]) :
    pgs[i][a] = pgs[j][b] => i = j /\ a = b

\* So it is when no GPU is two bundles of any.
LEMMA GpusOnceHere ==
  ASSUME NEW M, NEW c \in ClusterNames, GpusOnceIn(M)
  PROVE  OnceInGroups(M[c].pgs)
<1> DEFINE P(d) == \A i \in 1..Len(M[c].pgs), j \in 1..Len(M[d].pgs) :
                     \A a \in 1..Len(M[c].pgs[i]), b \in 1..Len(M[d].pgs[j]) :
                       M[c].pgs[i][a] = M[d].pgs[j][b] => c = d /\ i = j /\ a = b
<1>1. \A d \in ClusterNames : P(d)
  BY DEF GpusOnceIn
<1>2. P(c)
  BY <1>1
<1> QED BY <1>2 DEF OnceInGroups

\* That of a group that is placed is so.
LEMMA PlacedReserves ==
  ASSUME SetupInv, NEW g \in GroupNames, Placed(g), NEW c, c = ClusterOf(g)
  PROVE  Reserves(c) /\ groups[g].workers = Layout(g) /\ UsedBy(g) /\ ~ Refuses(g)
<1>1. /\ UsedBy(g) /\ ~ Refuses(g) /\ groups[g].workers = Layout(g) /\ Ready(c)
      /\ MachineInv /\ ClustersTyped /\ GpusOnce
  BY DEF SetupInv, GroupInv, Placed
<1>2. c \in ClusterNames /\ Shape(c).gpus \in Nat
  BY <1>1, GpusOfUse
<1>3. /\ GroupCount(c) \in Nat /\ GroupSize(c) \in Int
      /\ WorldSize(c) \in Int /\ WorldSize(c) = GroupCount(c) * GroupSize(c)
      /\ Len(Bundles(c)) = GroupCount(c)
  BY <1>1, <1>2, GroupsOfCluster
<1>0. job.gpus \in Nat \ {0}
  BY <1>1, JobTyped
<1>4. WorldSize(c) \in Nat
  <2>1. Max({0, Shape(c).nodes}) \in Nat
    <3>1. Shape(c).nodes \in Int
      BY <1>1, <1>2, ShapesTyped
    <3> QED BY <3>1, MaxOfZero
  <2> DEFINE x == Max({0, Shape(c).nodes})
             y == Shape(c).gpus
  <2>2. WorldSize(c) = x * y
    BY DEF WorldSize
  <2>3. x \in Nat /\ y \in Nat
    BY <1>2, <2>1
  <2> HIDE DEF x, y
  <2> QED BY <2>2, <2>3
<1>5. GroupSize(c) \in Nat
  BY <1>2, <1>4 DEF GroupSize
<1> DEFINE pgs == clusters[c].pgs
<1>6. clusters[c].asked /\ Len(pgs) = GroupCount(c)
  BY <1>1, <1>3 DEF Ready
<1>7. \A i \in 1..Len(pgs) : Len(pgs[i]) = GroupSize(c)
  BY <1>2 DEF SetupInv, ClusterInv
<1>8. pgs \in Seq(Seq(Machine(job.gpus)))
  BY <1>1, <1>2 DEF ClustersTyped, Cluster
<1>9. AlikeGroups(pgs, GroupCount(c), GroupSize(c))
  BY <1>3, <1>5, <1>6, <1>7 DEF AlikeGroups
<1>10. OnceInGroups(pgs)
  BY <1>1, <1>2, GpusOnceHere DEF GpusOnce
<1>11. DistinctGroups(pgs, GroupCount(c), GroupSize(c))
  <2> DEFINE m == GroupCount(c)
             G == GroupSize(c)
  <2>1. ASSUME NEW i \in 1..m, NEW j \in 1..m, NEW a \in 1..G, NEW b \in 1..G,
               pgs[i][a] = pgs[j][b]
        PROVE  i = j /\ a = b
    <3>1. i \in 1..Len(pgs) /\ j \in 1..Len(pgs)
      BY <1>6
    <3>2. a \in 1..Len(pgs[i]) /\ b \in 1..Len(pgs[j])
      BY <1>7, <3>1
    <3> HIDE DEF pgs
    <3> QED BY ONLY <1>10, <2>1, <3>1, <3>2 DEF OnceInGroups
  <2> QED BY <1>9, <2>1, Zenon DEF DistinctGroups
<1> QED BY <1>0, <1>1, <1>2, <1>3, <1>4, <1>5, <1>6, <1>8, <1>11 DEF Reserves

\* The only placement group of a cluster that spans nodes.
LEMMA ReservesOne ==
  ASSUME NEW c, Reserves(c), Len(clusters[c].pgs) = 1
  PROVE  LET pg == clusters[c].pgs[1]
         IN  pg \in Seq(Machine(job.gpus)) /\ Distinct(pg) /\ Len(pg) = WorldSize(c)
<1> DEFINE pgs == clusters[c].pgs
           G == GroupSize(c)
<1>1. /\ GroupCount(c) = 1 /\ G \in Nat /\ Len(pgs[1]) = G
      /\ \A a, b \in 1..G : pgs[1][a] = pgs[1][b] => a = b
  <2>1. AlikeGroups(pgs, GroupCount(c), G) /\ G \in Nat
    BY DEF Reserves, DistinctGroups
  <2>2. GroupCount(c) = 1 /\ Len(pgs[1]) = G
    BY <2>1 DEF AlikeGroups
  <2>3. \A i, j \in 1..1 : \A a, b \in 1..G : pgs[i][a] = pgs[j][b] => i = j /\ a = b
    BY <2>2, Zenon DEF Reserves, DistinctGroups
  <2>4. 1 \in 1..1
    OBVIOUS
  <2> HIDE DEF G, pgs
  <2>5. \A a, b \in 1..G : pgs[1][a] = pgs[1][b] => a = b
    BY ONLY <2>3, <2>4
  <2> QED BY ONLY <2>1, <2>2, <2>5
<1>2. pgs[1] \in Seq(Machine(job.gpus))
  BY DEF Reserves
<1>3. WorldSize(c) = G
  BY <1>1 DEF Reserves
<1> QED BY <1>1, <1>2, <1>3 DEF Distinct

\* The workers of a model: one for every GPU of its cluster.
LEMMA WorkersOfModel ==
  ASSUME NEW c, Reserves(c)
  PROVE  Len(PolicyLayout(c)) = WorldSize(c)
<1> DEFINE pgs == clusters[c].pgs
           m == GroupCount(c)
           G == GroupSize(c)
<1>1. /\ m \in Nat /\ G \in Nat /\ WorldSize(c) = m * G /\ m * G \in Nat
      /\ AlikeGroups(pgs, m, G)
  BY DEF Reserves, DistinctGroups
<1>2. CASE clusters[c].unified
  <2>1. Len(pgs) = 1
    BY <1>1, <1>2 DEF AlikeGroups, GroupCount
  <2>2. pgs[1] \in Seq(Machine(job.gpus)) /\ Distinct(pgs[1]) /\ Len(pgs[1]) = WorldSize(c)
    BY <2>1, ReservesOne
  <2> DEFINE t == SortedBundles(pgs[1])
             ws == [i \in 1..Len(t) |-> [index |-> (i - 1) \div Shape(c).gpus,
                                         bundles |-> <<t[i]>>]]
  <2>3. PolicyLayout(c) = ws
    BY <1>2 DEF PolicyLayout
  <2>4. Len(t) = WorldSize(c)
    BY <2>2, BundlesSorted DEF Reserves
  <2>5. Len(t) \in Nat
    BY <1>1, <2>4
  <2> HIDE DEF t
  <2>6. Len(ws) = Len(t)
    BY <2>5
  <2> QED BY <2>3, <2>4, <2>6
<1>3. CASE ~ clusters[c].unified
  <2>1. PolicyLayout(c) = Tied(m * G, G, 1)
    BY <1>1, <1>3, TiedAlone DEF PolicyLayout
  <2> DEFINE n == m * G
  <2>2. n \in Nat /\ WorldSize(c) = n /\ PolicyLayout(c) = Tied(n, G, 1)
    BY <1>1, <2>1
  <2> HIDE DEF m, G, n
  <2> QED BY <2>2 DEF Tied
<1> QED BY <1>2, <1>3

\* Rank 0 of a model is on the node of its master's address.
LEMMA FirstOnMaster ==
  ASSUME NEW g, NEW c, c = ClusterOf(g), Reserves(c), WorldSize(c) >= 1
  PROVE  \E gpu \in GpusOf(g, PolicyLayout(c)[1]) : gpu[1] = Master(c)
<1> DEFINE pgs == clusters[c].pgs
           m == GroupCount(c)
           G == GroupSize(c)
           w == PolicyLayout(c)[1]
<1>1. /\ m \in Nat /\ G \in Nat /\ WorldSize(c) = m * G /\ m * G \in Nat
      /\ AlikeGroups(pgs, m, G) /\ Len(pgs) = m
  BY DEF Reserves, DistinctGroups, AlikeGroups
<1>2. CASE clusters[c].unified
  <2>1. Len(pgs) = 1
    BY <1>1, <1>2 DEF GroupCount
  <2>2. pgs[1] \in Seq(Machine(job.gpus)) /\ Distinct(pgs[1]) /\ Len(pgs[1]) = WorldSize(c)
    BY <2>1, ReservesOne
  <2> DEFINE t == SortedBundles(pgs[1])
             ws == [i \in 1..Len(t) |-> [index |-> (i - 1) \div Shape(c).gpus,
                                         bundles |-> <<t[i]>>]]
  <2>3. PolicyLayout(c) = ws
    BY <1>2 DEF PolicyLayout
  <2>4. Len(t) = WorldSize(c)
    BY <2>2, BundlesSorted DEF Reserves
  <2>5. 1 \in 1..Len(t)
    BY <1>1, <2>4
  <2>6. w.bundles = <<t[1]>>
    BY <2>3, <2>5
  <2>7. t[1] \in ToSet(w.bundles)
    BY <2>6 DEF ToSet
  <2>8. Gpu(c, w.index, t[1]) \in GpusOf(g, w)
    BY <2>7 DEF GpusOf
  <2>9. Master(c) = Gpu(c, 0, t[1])[1]
    BY <1>2 DEF Master, MasterBundle
  <2>10. Gpu(c, w.index, t[1]) = Gpu(c, 0, t[1])
    BY <2>1 DEF Gpu
  <2> QED BY <2>8, <2>9, <2>10
<1>3. CASE ~ clusters[c].unified
  <2> DEFINE n == m * G
  <2>1. PolicyLayout(c) = Tied(n, G, 1)
    BY <1>1, <1>3, TiedAlone DEF PolicyLayout
  <2>2. n \in Nat \ {0}
    BY <1>1
  <2>3. G \in Nat \ {0} /\ m \in Nat \ {0}
    BY <1>1
  <2> HIDE DEF n, G
  <2>4. 1 \in 1..n
    BY <2>2
  <2> DEFINE d == 0 \div G
             r == 0 % G
  <2>5. w = [index |-> (1 - 1) \div G, bundles |-> [b \in 1..1 |-> ((1 - 1) % G) * 1 + b - 1]]
    BY <2>1, <2>4 DEF Tied
  <2>6. d = 0 /\ r = 0 /\ 1 - 1 = 0
    BY <2>3
  <2>7. w = [index |-> 0, bundles |-> [b \in 1..1 |-> r * 1 + b - 1]]
    BY <2>5, <2>6
  <2> HIDE DEF r
  <2>8. w.index = 0 /\ w.bundles[1] = 0 /\ DOMAIN w.bundles = 1..1
    BY <2>6, <2>7
  <2>9. 0 \in ToSet(w.bundles)
    BY <2>8 DEF ToSet
  <2>10. Gpu(c, 0, 0) \in GpusOf(g, w)
    BY <2>8, <2>9 DEF GpusOf
  <2>11. Master(c) = Gpu(c, 0, 0)[1]
    BY <1>3 DEF Master, MasterBundle
  <2> QED BY <2>10, <2>11
<1> QED BY <1>2, <1>3

\* Products of positive numbers.
LEMMA Positive ==
  ASSUME NEW a \in Nat \ {0}, NEW b \in Nat \ {0}
  PROVE  a * b \in Nat \ {0}
<1>1. a \in Nat /\ b \in Nat /\ 1 <= a
  OBVIOUS
<1>2. 1 * b <= a * b
  BY <1>1, MultiplyMonotonic
<1>3. a * b \in Nat
  BY <1>1, Multiply
<1> DEFINE x == a * b
<1>4. x \in Nat /\ b <= x
  BY <1>2, <1>3
<1> HIDE DEF x
<1> QED BY <1>4 DEF x

\* A product divided by a factor.
LEMMA QuotientOf ==
  ASSUME NEW m \in Nat \ {0}, NEW size \in Nat, NEW n, n = m * size
  PROVE  n \div m = size
<1>1. n = size * m + 0 /\ 0 \in 0..(m - 1)
  OBVIOUS
<1> QED BY <1>1, DivisionOf

\* A model's constructor refuses a cluster without GPUs.
LEMMA RefusesNone ==
  ASSUME MachineInv, NEW g \in {"teacher", "policy", "reward"}, ~ Refuses(g),
         NEW c, c = ClusterOf(g), WorldSize(c) \in Nat
  PROVE  WorldSize(c) >= 1
<1> DEFINE size == IF g = "reward" THEN 1 ELSE job.pp * job.cp * job.tp
           world == WorldSize(c)
<1>1. ~ (world < size)
  BY DEF Refuses, PolicyRefuses
<1>2. size \in Nat \ {0}
  <2>1. job.pp \in Nat \ {0} /\ job.cp \in Nat \ {0} /\ job.tp \in Nat \ {0}
    BY JobTyped
  <2> DEFINE x == job.pp * job.cp
  <2>2. x \in Nat \ {0}
    BY <2>1, Positive
  <2> HIDE DEF x
  <2>3. x * job.tp \in Nat \ {0}
    BY <2>1, <2>2, Positive
  <2> QED BY <2>3 DEF x
<1> HIDE DEF size
<1> QED BY <1>1, <1>2

\* The ranks of the workers of m engines of `size` GPUs come after those of W
\* workers of the policy, one after the other.
AreRanks(ranks, W, n) == ranks = [r \in 1..n |-> W + r - 1]
RanksOf(W, n, size, prefix) ==
  [r \in 1..n |-> W + ((r - 1) \div size) * prefix + ((r - 1) % size)]

\* The ranks of the engines follow those of the policy.
LEMMA RanksInOrder ==
  ASSUME NEW W \in Nat, NEW m \in Nat, NEW size \in Nat \ {0}, NEW n, n = m * size
  PROVE  /\ n \in Nat
         /\ AreRanks(RanksOf(W, n, size, n \div m), W, n)
<1> USE DEF AreRanks
<1>1. n \in Nat
  OBVIOUS
<1>2. CASE n = 0
  <2>1. 1..n = {}
    BY <1>2
  <2> HIDE DEF RanksOf
  <2> QED BY <1>1, <2>1 DEF RanksOf
<1>3. CASE n # 0
  <2>1. m \in Nat \ {0}
    BY <1>3
  <2>2. n \div m = size
    BY <2>1, QuotientOf
  <2>3. ASSUME NEW r \in 1..n
        PROVE  W + ((r - 1) \div size) * size + ((r - 1) % size) = W + r - 1
    <3> DEFINE j == r - 1
    <3>1. j \in Nat /\ r = j + 1
      BY <1>1
    <3> HIDE DEF j
    <3> DEFINE d == j \div size
               k == j % size
               x == d * size
    <3>2. d \in Nat /\ k \in 0..(size - 1) /\ j = x + k
      BY <3>1, Division
    <3>3. x \in Nat
      BY <3>2
    <3> HIDE DEF d, k, x
    <3>4. W + x + k = W + (j + 1) - 1
      BY <3>1, <3>2, <3>3
    <3> QED BY <3>1, <3>4 DEF x, d, k, j
  <2> DEFINE p == n \div m
  <2>4. p = size
    BY <2>2
  <2> HIDE DEF p
  <2> QED BY <1>1, <2>3, <2>4 DEF RanksOf, p
<1> QED BY <1>1, <1>2, <1>3

\* All ranks of the process group, each once.
AllTaken(ranks, world) == Len(ranks) = world /\ ToSet(ranks) = 0..(world - 1)

\* Those of the policy and those of the engines are all.
LEMMA RanksTogether ==
  ASSUME NEW W \in Nat, NEW n \in Nat, NEW p, p = [r \in 1..W |-> r - 1],
         NEW e, e = [r \in 1..n |-> W + r - 1]
  PROVE  AllTaken(p \o e, W + n)
<1> DEFINE ranks == p \o e
<1>1. p \in Seq(Int) /\ Len(p) = W /\ \A r \in 1..W : p[r] = r - 1
  OBVIOUS
<1>2. e \in Seq(Int) /\ Len(e) = n /\ \A r \in 1..n : e[r] = W + r - 1
  OBVIOUS
<1>0. /\ ranks \in Seq(Int) /\ Len(ranks) = Len(p) + Len(e)
      /\ \A i \in 1..(Len(p) + Len(e)) : ranks[i] = IF i <= Len(p) THEN p[i] ELSE e[i - Len(p)]
  BY <1>1, <1>2, ConcatProperties
<1> HIDE DEF ranks
<1>3. Len(ranks) = W + n /\ ranks \in Seq(Int)
  BY <1>0, <1>1, <1>2
<1>4. ASSUME NEW i \in 1..(W + n) PROVE ranks[i] = i - 1
  <2>1. CASE i <= W
    <3>1. ranks[i] = p[i] /\ i \in 1..W
      BY <1>0, <1>1, <1>2, <2>1
    <3> QED BY <1>1, <3>1
  <2>2. CASE i > W
    <3>1. ranks[i] = e[i - W] /\ i - W \in 1..n
      BY <1>0, <1>1, <1>2, <2>2
    <3>2. e[i - W] = W + (i - W) - 1
      BY <1>2, <3>1
    <3> QED BY <3>1, <3>2
  <2> QED BY <2>1, <2>2
<1>5. ToSet(ranks) = {ranks[i] : i \in 1..(W + n)}
  <2>1. DOMAIN ranks = 1..(W + n)
    BY <1>3
  <2> QED BY <2>1, Zenon DEF ToSet
<1>6. ASSUME NEW x \in 0..(W + n - 1) PROVE x \in ToSet(ranks)
  <2>1. x + 1 \in 1..(W + n) /\ ranks[x + 1] = x
    BY <1>4
  <2> QED BY <1>5, <2>1
<1>7. ASSUME NEW x \in ToSet(ranks) PROVE x \in 0..(W + n - 1)
  BY <1>4, <1>5
<1>8. ToSet(ranks) = 0..(W + n - 1)
  BY <1>6, <1>7
<1>9. AllTaken(ranks, W + n)
  BY ONLY <1>3, <1>8 DEF AllTaken
<1> QED BY <1>9 DEF ranks

\* Where inference has GPUs of its own, all ranks of the process group of the
\* weight updates are taken.
LEMMA AllRanks ==
  ASSUME SetupInv, main \in {"ready", "running"}, Generates, ~ job.colocated
  PROVE  AllTaken(PolicyRanks \o EngineRanks, WorldSize("train") + WorldSize("inference"))
<1>1. /\ job.backend = "vllm" /\ groups["engine"].at = "up" /\ groups["policy"].at = "up"
      /\ MachineInv /\ EngineInv
  BY DEF SetupInv, MainInv
<1>2. ClusterOf("engine") = "inference" /\ ClusterOf("policy") = "train"
  BY DEF ClusterOf
<1>3. "engine" \in GroupNames /\ "policy" \in GroupNames /\ Placed("engine") /\ Placed("policy")
  BY <1>1 DEF GroupNames, Placed
<1>4. /\ Reserves("train") /\ Reserves("inference") /\ ~ Refuses("engine")
      /\ groups["policy"].workers = PolicyLayout("train")
  BY <1>2, <1>3, PlacedReserves DEF Layout
<1> DEFINE W == WorldSize("train")
           n == WorldSize("inference")
           m == Len(groups["engine"].workers)
           size == job.mp
<1>5. W \in Nat /\ n \in Nat /\ size \in Nat \ {0}
  BY <1>1, <1>4, JobTyped DEF Reserves
<1>6. Len(groups["policy"].workers) = W
  BY <1>4, WorkersOfModel
<1>7. m = n \div size /\ n % size = 0
  BY <1>1, <1>2, <1>4 DEF EngineInv, Refuses, EngineRefuses
<1>8. PolicyRanks = [r \in 1..W |-> r - 1]
  BY <1>6 DEF PolicyRanks
<1>9. EngineRanks = RanksOf(W, m * size, size, (m * size) \div m)
  BY DEF EngineRanks, RanksOf
<1> HIDE DEF W, n, m, size
<1>10. m \in Nat /\ n = m * size
  <2>1. n \div size \in Nat /\ n = (n \div size) * size + (n % size)
    BY <1>5, Division
  <2> DEFINE x == (n \div size) * size
  <2>2. x \in Nat /\ n = x + (n % size)
    BY <1>5, <2>1
  <2>3. n = x
    <3> HIDE DEF x
    <3> QED BY <1>7, <2>2
  <2> QED BY <1>7, <2>1, <2>3
<1>11. EngineRanks = [r \in 1..n |-> W + r - 1]
  <2>1. AreRanks(RanksOf(W, n, size, n \div m), W, n)
    BY <1>5, <1>10, RanksInOrder
  <2> QED BY <1>9, <1>10, <2>1 DEF AreRanks
<1>12. AllTaken(PolicyRanks \o EngineRanks, W + n)
  BY <1>5, <1>8, <1>11, RanksTogether
<1> QED BY ONLY <1>12 DEF W, n

\* Both follow from the invariant.
LEMMA RendezvousFollows ==
  ASSUME SetupInv
  PROVE  RendezvousComplete
<1>1. ASSUME NEW g \in {"teacher", "policy", "reward"}, Placed(g)
      PROVE  \E gpu \in GpusOf(g, groups[g].workers[1]) : gpu[1] = Master(ClusterOf(g))
  <2> DEFINE c == ClusterOf(g)
  <2>1. g \in GroupNames /\ MachineInv
    BY DEF GroupNames, SetupInv
  <2>2. Reserves(c) /\ groups[g].workers = Layout(g) /\ ~ Refuses(g)
    BY <1>1, <2>1, PlacedReserves
  <2>3. groups[g].workers = PolicyLayout(c)
    BY <2>2 DEF Layout
  <2>4. WorldSize(c) >= 1
    BY <2>1, <2>2, RefusesNone DEF Reserves
  <2> QED BY <2>2, <2>3, <2>4, FirstOnMaster
<1>2. ASSUME main \in {"ready", "running"}, Generates, ~ job.colocated
      PROVE  AllTaken(PolicyRanks \o EngineRanks, WorldSize("train") + WorldSize("inference"))
  BY <1>2, AllRanks
<1> QED BY <1>1, <1>2, Zenon DEF RendezvousComplete, AllTaken

\* Rank 0 of every model is on the node of its master's address, and every rank of
\* the process group of the weight updates is taken, once.
THEOREM RendezvousIsComplete == ProgramSpec => []RendezvousComplete
<1>1. SetupInv => RendezvousComplete
  BY RendezvousFollows
<1> QED BY <1>1, SetupIsOrderly, PTL

-----------------------------------------------------------------------------
(* Where the workers of a group that is placed are *)

\* Workers of `size` bundles that share no GPU.
LaidOut(ws, size, pgs) ==
  \E n \in Nat : DOMAIN ws = 1..n /\ Len(ws) = n /\ Apart(ws, n, size, pgs)

\* Tied workers are.
LEMMA TiedLaidOut ==
  ASSUME NEW c, Reserves(c), NEW size \in Nat \ {0}, NEW q, q = GroupSize(c) \div size,
         NEW n, n = GroupCount(c) * q
  PROVE  /\ LaidOut(Tied(n, q, size), size, clusters[c].pgs)
         /\ SeedsDiffer(Tied(n, q, size), n) /\ Len(Tied(n, q, size)) = n
<1> DEFINE m == GroupCount(c)
           G == GroupSize(c)
           ws == Tied(n, q, size)
<1>1. m \in Nat /\ G \in Nat /\ DistinctGroups(clusters[c].pgs, m, G)
  BY DEF Reserves
<1>2. q \in Nat
  BY <1>1, Division
<1>3. n = m * q
  OBVIOUS
<1> HIDE DEF m, G
<1>4. q = G \div size
  BY DEF G
<1>5. n \in Nat
  BY <1>1, <1>2, <1>3
<1>6. Apart(ws, n, size, clusters[c].pgs)
  BY <1>1, <1>3, <1>4, TiedApart
<1>7. SeedsDiffer(ws, n)
  BY <1>1, <1>2, <1>3, TiedSeeds
<1>8. DOMAIN ws = 1..n /\ Len(ws) = n
  BY <1>5 DEF Tied
<1> HIDE DEF ws
<1>9. LaidOut(ws, size, clusters[c].pgs)
  BY <1>5, <1>6, <1>8 DEF LaidOut
<1> QED BY <1>7, <1>8, <1>9 DEF ws

\* The workers of a model are.
LEMMA ModelLaidOut ==
  ASSUME NEW c, Reserves(c)
  PROVE  LaidOut(PolicyLayout(c), 1, clusters[c].pgs)
<1> DEFINE pgs == clusters[c].pgs
           m == GroupCount(c)
           G == GroupSize(c)
<1>1. m \in Nat /\ G \in Nat /\ AlikeGroups(pgs, m, G)
  BY DEF Reserves, DistinctGroups
<1>2. CASE clusters[c].unified
  <2>1. Len(pgs) = 1
    BY <1>1, <1>2 DEF AlikeGroups, GroupCount
  <2>2. pgs[1] \in Seq(Machine(job.gpus)) /\ Distinct(pgs[1]) /\ job.gpus \in Nat
    BY <2>1, ReservesOne DEF Reserves
  <2> DEFINE t == SortedBundles(pgs[1])
             ws == [i \in 1..Len(t) |-> [index |-> (i - 1) \div Shape(c).gpus,
                                         bundles |-> <<t[i]>>]]
             n == Len(pgs[1])
  <2>3. PolicyLayout(c) = ws
    BY <1>2 DEF PolicyLayout
  <2>4. Len(t) = n /\ n \in Nat
    BY <2>2, BundlesSorted
  <2>5. Apart(ws, n, 1, pgs)
    BY <2>1, <2>2, SortedApart
  <2>6. DOMAIN ws = 1..n /\ Len(ws) = n
    <3> HIDE DEF t, n
    <3> QED BY <2>4
  <2> HIDE DEF ws, n
  <2> QED BY <2>3, <2>4, <2>5, <2>6 DEF LaidOut
<1>3. CASE ~ clusters[c].unified
  <2>1. PolicyLayout(c) = Tied(m * G, G, 1)
    BY <1>1, <1>3, TiedAlone DEF PolicyLayout
  <2>2. G = G \div 1
    BY <1>1
  <2>3. LaidOut(Tied(m * G, G, 1), 1, pgs)
    BY <2>2, TiedLaidOut
  <2> QED BY <2>1, <2>3
<1> QED BY <1>2, <1>3

\* Engines are those of vLLM or of SGLang.
LEMMA EngineBackends ==
  ASSUME SetupInv, Placed("engine")
  PROVE  job.backend \in {"vllm", "sglang"}
<1>0. UsedBy("engine")
  BY DEF GroupNames, SetupInv, GroupInv, Placed
<1>1. "engine" \in ToSet(Plan) /\ ~ SetupRefuses
  BY <1>0 DEF UsedBy
<1>2. job.program \in {"eval", "grpo", "distillation"}
  BY <1>1 DEF Plan, ToSet
<1>3. job.program = "eval" => job.backend = "vllm"
  BY <1>1 DEF SetupRefuses, EvalRefused
<1>4. job.backend \in {"vllm", "sglang", "megatron"}
  BY JobTyped DEF SetupInv
<1>5. job.backend = "megatron" /\ job.program = "grpo" => "engine" \notin ToSet(Plan)
  BY DEF Plan, ToSet
<1>6. job.backend = "megatron" /\ job.program = "distillation" => "engine" \notin ToSet(Plan)
  BY DEF Plan, ToSet
<1> QED BY <1>1, <1>2, <1>3, <1>4, <1>5, <1>6

\* How the engines are: tied in every placement group, or across the nodes.
LEMMA EngineLayouts ==
  ASSUME SetupInv, Placed("engine"), NEW c, c = ClusterOf("engine"), Reserves(c),
         NEW q, q = GroupSize(c) \div job.mp, NEW n, n = GroupCount(c) * q
  PROVE  \/ EngineLayout(c) = Tied(n, q, job.mp)
         \/ /\ Len(clusters[c].pgs) = 1 /\ EvenNodes(clusters[c].pgs[1])
            /\ job.backend = "vllm" /\ WorldSize(c) % job.mp = 0
            /\ EngineLayout(c) = TiedAcross(clusters[c].pgs[1], job.mp)
<1> DEFINE pgs == clusters[c].pgs
           m == GroupCount(c)
           G == GroupSize(c)
<1>1. m \in Nat /\ G \in Nat /\ AlikeGroups(pgs, m, G) /\ job.mp \in Nat \ {0}
  BY JobTyped DEF Reserves, DistinctGroups, SetupInv
<1>2. /\ "engine" \in GroupNames /\ ~ Refuses("engine") /\ UsedBy("engine")
      /\ ~ LayoutFails(c)
  BY DEF GroupNames, SetupInv, GroupInv, Placed
<1>3. job.backend \in {"vllm", "sglang"}
  BY EngineBackends
<1>4. TiedPerGroup(pgs, job.mp) = Tied(n, q, job.mp)
  BY <1>1, TiedGroups
<1>5. CASE job.backend = "vllm" /\ job.mp = 1
  <2>1. EngineLayout(c) = PerBundle(pgs)
    BY <1>5 DEF EngineLayout
  <2>2. q = G /\ n = m * G
    BY <1>1, <1>5
  <2>3. PerBundle(pgs) = Tied(n, q, 1)
    BY <1>1, <2>2, TiedAlone
  <2> QED BY <1>5, <2>1, <2>3
<1>6. CASE job.backend = "vllm" /\ job.mp > 1 /\ Len(pgs) = 1
  <2>1. EngineLayout(c) = TiedAcross(pgs[1], job.mp)
    BY <1>6 DEF EngineLayout
  <2>2. EvenNodes(pgs[1])
    BY <1>2, <1>6 DEF LayoutFails, EvenNodes
  <2>3. WorldSize(c) % job.mp = 0
    BY <1>2, <1>6 DEF Refuses, EngineRefuses
  <2> QED BY <1>6, <2>1, <2>2, <2>3
<1>7. CASE job.backend = "vllm" /\ job.mp > 1 /\ Len(pgs) # 1
  <2>1. EngineLayout(c) = TiedPerGroup(pgs, job.mp)
    BY <1>7 DEF EngineLayout
  <2> QED BY <1>4, <2>1
<1>8. CASE job.backend = "sglang"
  <2>1. EngineLayout(c) = TiedPerGroup(pgs, job.mp)
    BY <1>8 DEF EngineLayout
  <2> QED BY <1>4, <2>1
<1> QED BY <1>1, <1>3, <1>5, <1>6, <1>7, <1>8

\* Engines share no GPU, and no two have one seed.
LEMMA EngineLaidOut ==
  ASSUME SetupInv, Placed("engine"), NEW c, c = ClusterOf("engine"), Reserves(c)
  PROVE  /\ LaidOut(EngineLayout(c), job.mp, clusters[c].pgs)
         /\ SeedsDiffer(EngineLayout(c), Len(EngineLayout(c)))
<1> DEFINE pgs == clusters[c].pgs
           size == job.mp
<1>1. size \in Nat \ {0} /\ job.gpus \in Nat
  BY JobTyped DEF SetupInv
<1> DEFINE q == GroupSize(c) \div size
           n == GroupCount(c) * q
<1>2. \/ EngineLayout(c) = Tied(n, q, size)
      \/ /\ Len(pgs) = 1 /\ EvenNodes(pgs[1])
         /\ WorldSize(c) % size = 0
         /\ EngineLayout(c) = TiedAcross(pgs[1], size)
  BY EngineLayouts
<1>3. CASE EngineLayout(c) = Tied(n, q, size)
  <2>1. LaidOut(Tied(n, q, size), size, pgs) /\ SeedsDiffer(Tied(n, q, size), n)
        /\ Len(Tied(n, q, size)) = n
    BY <1>1, TiedLaidOut
  <2> HIDE DEF n, q, size
  <2> QED BY <1>3, <2>1 DEF size
<1>4. CASE /\ Len(pgs) = 1 /\ EvenNodes(pgs[1]) /\ WorldSize(c) % size = 0
           /\ EngineLayout(c) = TiedAcross(pgs[1], size)
  <2> DEFINE pg == pgs[1]
             W == WorldSize(c)
             k == W \div size
             ws == TiedAcross(pg, size)
  <2>1. pg \in Seq(Machine(job.gpus)) /\ Distinct(pg) /\ Len(pg) = W /\ W \in Nat
    BY <1>4, ReservesOne DEF Reserves
  <2>2. k \in Nat /\ W = k * size
    <3>1. k \in Nat /\ W = k * size + (W % size)
      BY <1>1, <2>1, Division
    <3> DEFINE x == k * size
    <3>2. x \in Nat /\ W = x + (W % size) /\ W % size = 0
      BY <1>1, <1>4, <3>1
    <3> HIDE DEF x
    <3>3. W = x
      BY <3>2
    <3> QED BY <3>1, <3>3 DEF x
  <2>3. PICK m, h : EvenlyFlat(pg, m, h)
    BY <1>1, <1>4, <2>1, FlatEvenly
  <2>4. W = m * h
    BY <1>1, <2>1, <2>3, FlatOfAll
  <2> HIDE DEF W, k, size
  <2>5. IsAcross(ws, pg, size, k) /\ Apart(ws, k, size, pgs)
    BY <1>1, <1>4, <2>1, <2>3, <2>4, AcrossApart DEF k
  <2>6. SeedsDiffer(ws, k)
    BY <1>1, <1>4, <2>1, <2>2, <2>3, <2>4, AcrossSeeds
  <2>7. DOMAIN ws = 1..k /\ Len(ws) = k
    <3> HIDE DEF ws
    <3>1. DOMAIN ws = 1..k
      BY <2>5, Zenon DEF IsAcross
    <3>2. ws = [i \in 1..k |-> ws[i]]
      BY <2>5, Zenon DEF IsAcross
    <3> DEFINE W2 == [i \in 1..k |-> ws[i]]
    <3>3. k \in Nat
      BY <2>2
    <3>4. Len(W2) = k
      BY ONLY <3>3
    <3> HIDE DEF W2
    <3>5. Len(ws) = k
      BY <3>2, <3>4, Zenon DEF W2
    <3> QED BY <3>1, <3>5
  <2> HIDE DEF ws
  <2>8. LaidOut(ws, size, pgs) /\ SeedsDiffer(ws, Len(ws))
    BY <2>2, <2>5, <2>6, <2>7 DEF LaidOut
  <2> QED BY <1>4, <2>8 DEF ws, size
<1> QED BY <1>2, <1>3, <1>4

\* The GPUs of a worker are those of its bundles.
GpusAre(g, ws, n, size, pgs) ==
  \A k \in 1..n : GpusOf(g, ws[k])
                  = {GpuAt(pgs, ws[k].index, ws[k].bundles[b]) : b \in 1..size}

\* So it is of the workers of a layout.
LEMMA GpusOfWorker ==
  ASSUME NEW g, NEW c, c = ClusterOf(g), NEW ws, NEW n, NEW size,
         Apart(ws, n, size, clusters[c].pgs)
  PROVE  GpusAre(g, ws, n, size, clusters[c].pgs)
<1> DEFINE pgs == clusters[c].pgs
<1> SUFFICES ASSUME NEW k \in 1..n
             PROVE  GpusOf(g, ws[k])
                    = {GpuAt(pgs, ws[k].index, ws[k].bundles[b]) : b \in 1..size}
  BY Zenon DEF GpusAre
<1>1. DOMAIN ws[k].bundles = 1..size
  BY Zenon DEF Apart
<1>2. ToSet(ws[k].bundles) = {ws[k].bundles[b] : b \in 1..size}
  BY <1>1, Zenon DEF ToSet
<1>3. \A x, y : Gpu(c, x, y) = GpuAt(pgs, x, y)
  BY DEF Gpu, GpuAt
<1>4. GpusOf(g, ws[k]) = {Gpu(c, ws[k].index, y) : y \in ToSet(ws[k].bundles)}
  BY DEF GpusOf
<1> HIDE DEF pgs
<1> QED BY <1>2, <1>3, <1>4

\* No GPU is that of two workers.
LEMMA GpusApart ==
  ASSUME NEW g, NEW c, c = ClusterOf(g), NEW ws, NEW size, LaidOut(ws, size, clusters[c].pgs),
         NEW i \in DOMAIN ws, NEW j \in DOMAIN ws, i # j
  PROVE  GpusOf(g, ws[i]) \cap GpusOf(g, ws[j]) = {}
<1> DEFINE pgs == clusters[c].pgs
<1>1. PICK n \in Nat : DOMAIN ws = 1..n /\ Apart(ws, n, size, pgs)
  BY DEF LaidOut
<1>2. GpusAre(g, ws, n, size, pgs)
  BY <1>1, GpusOfWorker
<1> HIDE DEF pgs
<1>3. i \in 1..n /\ j \in 1..n
  BY <1>1
<1> DEFINE At(k, b) == GpuAt(pgs, ws[k].index, ws[k].bundles[b])
<1>4. GpusOf(g, ws[i]) = {At(i, b) : b \in 1..size} /\ GpusOf(g, ws[j]) = {At(j, b) : b \in 1..size}
  BY <1>2, <1>3, Zenon DEF GpusAre
<1>5. \A b, d \in 1..size : At(i, b) # At(j, d)
  <2> SUFFICES ASSUME NEW b \in 1..size, NEW d \in 1..size, At(i, b) = At(j, d) PROVE i = j
    OBVIOUS
  <2>1. \A k, l \in 1..n : \A x, y \in 1..size : At(k, x) = At(l, y) => k = l /\ x = y
    BY <1>1, Zenon DEF Apart
  <2> HIDE DEF At
  <2> QED BY <1>3, <2>1
<1> HIDE DEF At
<1> QED BY <1>4, <1>5

\* All GPUs of m placement groups of G bundles.
GpusIn(pgs, m, G) == {pgs[i][a] : i \in 1..m, a \in 1..G}

\* The GPUs of n workers of `size` bundles.
GpusOfAll(ws, n, size, pgs) ==
  {GpuAt(pgs, ws[k].index, ws[k].bundles[b]) : k \in 1..n, b \in 1..size}

\* They are among those of the placement groups.
LEMMA AmongAll ==
  ASSUME NEW pgs, NEW m, NEW G, AlikeGroups(pgs, m, G), NEW ws, NEW n \in Nat, NEW size,
         Apart(ws, n, size, pgs)
  PROVE  GpusOfAll(ws, n, size, pgs) \subseteq GpusIn(pgs, m, G)
<1> DEFINE At(k, b) == GpuAt(pgs, ws[k].index, ws[k].bundles[b])
<1>1. ASSUME NEW k \in 1..n, NEW b \in 1..size PROVE At(k, b) \in GpusIn(pgs, m, G)
  <2>1. PICK i \in 1..Len(pgs) : \E a \in 1..Len(pgs[i]) : At(k, b) = pgs[i][a]
    BY Zenon DEF Apart
  <2>2. i \in 1..m /\ Len(pgs[i]) = G
    BY DEF AlikeGroups
  <2> HIDE DEF At
  <2> QED BY <2>1, <2>2 DEF GpusIn
<1>2. ASSUME NEW x \in GpusOfAll(ws, n, size, pgs) PROVE x \in GpusIn(pgs, m, G)
  <2>1. PICK k \in 1..n, b \in 1..size : x = At(k, b)
    BY DEF GpusOfAll
  <2> HIDE DEF At
  <2> QED BY <1>1, <2>1
<1> QED BY <1>2

\* Workers that are as many as the GPUs have all of them.
LEMMA CoversAll ==
  ASSUME NEW pgs, NEW m \in Nat, NEW G \in Nat, DistinctGroups(pgs, m, G), NEW ws,
         NEW n \in Nat, NEW size \in Nat, Apart(ws, n, size, pgs), m * G <= n * size
  PROVE  GpusOfAll(ws, n, size, pgs) = GpusIn(pgs, m, G)
<1> DEFINE At(k, b) == GpuAt(pgs, ws[k].index, ws[k].bundles[b])
           S == (1..n) \X (1..size)
           U == (1..m) \X (1..G)
           T == GpusIn(pgs, m, G)
           f == [x \in S |-> At(x[1], x[2])]
           e == [x \in U |-> pgs[x[1]][x[2]]]
<1>1. IsFiniteSet(S) /\ Cardinality(S) = n * size
  <2>1. /\ IsFiniteSet(1..n) /\ Cardinality(1..n) = n
        /\ IsFiniteSet(1..size) /\ Cardinality(1..size) = size
    BY FS_Interval
  <2> DEFINE I == 1..n
             J == 1..size
  <2>2. IsFiniteSet(I) /\ Cardinality(I) = n /\ IsFiniteSet(J) /\ Cardinality(J) = size
        /\ S = I \X J
    BY <2>1
  <2> HIDE DEF I, J, S
  <2> QED BY <2>2, FS_Product
<1>2. IsFiniteSet(U) /\ Cardinality(U) = m * G
  <2>1. /\ IsFiniteSet(1..m) /\ Cardinality(1..m) = m
        /\ IsFiniteSet(1..G) /\ Cardinality(1..G) = G
    BY FS_Interval
  <2> DEFINE I == 1..m
             J == 1..G
  <2>2. IsFiniteSet(I) /\ Cardinality(I) = m /\ IsFiniteSet(J) /\ Cardinality(J) = G
        /\ U = I \X J
    BY <2>1
  <2> HIDE DEF I, J, U
  <2> QED BY <2>2, FS_Product
<1>3. \A x \in U : x[1] \in 1..m /\ x[2] \in 1..G /\ x = <<x[1], x[2]>>
  OBVIOUS
<1>4. \A x \in S : x[1] \in 1..n /\ x[2] \in 1..size /\ x = <<x[1], x[2]>>
  OBVIOUS
<1>5. e \in Surjection(U, T)
  <2>1. \A x \in U : e[x] = pgs[x[1]][x[2]] /\ e[x] \in T
    BY <1>3 DEF GpusIn
  <2>2. \A i \in 1..m, a \in 1..G : <<i, a>> \in U /\ e[<<i, a>>] = pgs[i][a]
    OBVIOUS
  <2>3. \A y \in T : \E x \in U : e[x] = y
    <3> SUFFICES ASSUME NEW y \in T PROVE \E x \in U : e[x] = y
      OBVIOUS
    <3>1. PICK i \in 1..m, a \in 1..G : y = pgs[i][a]
      BY DEF GpusIn
    <3> HIDE DEF e, U
    <3> QED BY <2>2, <3>1
  <2>4. e \in [U -> T]
    BY <2>1
  <2> HIDE DEF e, U, T
  <2> QED BY <2>3, <2>4 DEF Surjection
<1>6. e \in Injection(U, T)
  <2>1. \A x, y \in U : e[x] = e[y] => x = y
    <3> SUFFICES ASSUME NEW x \in U, NEW y \in U, e[x] = e[y] PROVE x = y
      OBVIOUS
    <3>1. pgs[x[1]][x[2]] = pgs[y[1]][y[2]]
      OBVIOUS
    <3>3. x[1] \in 1..m /\ x[2] \in 1..G /\ y[1] \in 1..m /\ y[2] \in 1..G
      BY <1>3
    <3>4. \A i, j \in 1..m : \A a, b \in 1..G : pgs[i][a] = pgs[j][b] => i = j /\ a = b
      BY Zenon DEF DistinctGroups
    <3> HIDE DEF U, e
    <3>2. x[1] = y[1] /\ x[2] = y[2]
      BY ONLY <3>1, <3>3, <3>4
    <3> QED BY <1>3, <3>2, Zenon
  <2>2. e \in [U -> T]
    BY <1>5 DEF Surjection
  <2> HIDE DEF e, U, T
  <2> QED BY <2>1, <2>2 DEF Injection, IsInjective
<1> HIDE DEF e
<1>7. IsFiniteSet(T) /\ Cardinality(T) = m * G
  <2> HIDE DEF U, T
  <2> QED BY <1>2, <1>5, <1>6, FS_Surjection
<1>8. AlikeGroups(pgs, m, G)
  BY DEF DistinctGroups
<1>9. ASSUME NEW k \in 1..n, NEW b \in 1..size PROVE At(k, b) \in T
  <2>1. PICK i \in 1..Len(pgs) : \E a \in 1..Len(pgs[i]) : At(k, b) = pgs[i][a]
    BY Zenon DEF Apart
  <2>2. i \in 1..m /\ Len(pgs[i]) = G
    BY <1>8 DEF AlikeGroups
  <2> HIDE DEF At
  <2> QED BY <2>1, <2>2 DEF GpusIn
<1>10. \A k, l \in 1..n : \A b, d \in 1..size : At(k, b) = At(l, d) => k = l /\ b = d
  BY Zenon DEF Apart
<1> HIDE DEF At, T
<1>11. f \in Injection(S, T)
  <2>1. \A x \in S : f[x] = At(x[1], x[2]) /\ f[x] \in T
    BY <1>4, <1>9
  <2>2. f \in [S -> T]
    BY <1>4, <1>9
  <2>3. \A x, y \in S : f[x] = f[y] => x = y
    <3> SUFFICES ASSUME NEW x \in S, NEW y \in S, f[x] = f[y] PROVE x = y
      OBVIOUS
    <3>1. At(x[1], x[2]) = At(y[1], y[2])
      BY <2>1
    <3>3. x[1] \in 1..n /\ x[2] \in 1..size /\ y[1] \in 1..n /\ y[2] \in 1..size
      BY <1>4
    <3> HIDE DEF S, f
    <3>2. x[1] = y[1] /\ x[2] = y[2]
      BY ONLY <1>10, <3>1, <3>3
    <3> QED BY <1>4, <3>2, Zenon
  <2> HIDE DEF f, S
  <2> QED BY <2>2, <2>3 DEF Injection, IsInjective
<1>12. f \in Surjection(S, T)
  <2>1. Cardinality(S) = Cardinality(T)
    <3>1. Cardinality(S) <= Cardinality(T)
      <4> HIDE DEF f, S
      <4> QED BY <1>7, <1>11, FS_Injection
    <3>2. m * G \in Nat /\ n * size \in Nat
      OBVIOUS
    <3> HIDE DEF S
    <3> QED BY <1>1, <1>7, <3>1, <3>2
  <2> HIDE DEF f, S
  <2> QED BY <1>7, <1>11, <2>1, FS_Injection
<1>13. \A y \in T : \E k \in 1..n, b \in 1..size : At(k, b) = y
  <2> SUFFICES ASSUME NEW y \in T PROVE \E k \in 1..n, b \in 1..size : At(k, b) = y
    OBVIOUS
  <2>1. PICK x \in S : f[x] = y
    <3> HIDE DEF f, S
    <3> QED BY <1>12 DEF Surjection
  <2>2. x[1] \in 1..n /\ x[2] \in 1..size /\ At(x[1], x[2]) = y
    BY <1>4, <2>1
  <2> QED BY <2>2
<1>14. {At(k, b) : k \in 1..n, b \in 1..size} = T
  BY <1>9, <1>13
<1>15. GpusOfAll(ws, n, size, pgs) = {At(k, b) : k \in 1..n, b \in 1..size}
  BY ONLY DEF At, GpusOfAll
<1> QED BY ONLY <1>14, <1>15 DEF T

\* The GPUs of a group are those of all bundles of its workers.
LEMMA GroupsGpus ==
  ASSUME NEW g, NEW c, c = ClusterOf(g), NEW n \in Nat, NEW size,
         DOMAIN groups[g].workers = 1..n, Apart(groups[g].workers, n, size, clusters[c].pgs)
  PROVE  GpusOfGroup(g) = GpusOfAll(groups[g].workers, n, size, clusters[c].pgs)
<1> DEFINE ws == groups[g].workers
           pgs == clusters[c].pgs
           At(k, b) == GpuAt(pgs, ws[k].index, ws[k].bundles[b])
<1>1. GpusAre(g, ws, n, size, pgs)
  BY GpusOfWorker
<1>2. \A k \in 1..n : GpusOf(g, ws[k]) = {At(k, b) : b \in 1..size}
  BY <1>1, Zenon DEF GpusAre
<1>3. ToSet(ws) = {ws[k] : k \in 1..n}
  BY Zenon DEF ToSet
<1>4. GpusOfGroup(g) = UNION {GpusOf(g, w) : w \in ToSet(ws)}
  BY DEF GpusOfGroup
<1> HIDE DEF ws, pgs, At
<1> DEFINE all == {At(k, b) : k \in 1..n, b \in 1..size}
<1>5. ASSUME NEW x \in GpusOfGroup(g) PROVE x \in all
  <2>1. PICK w \in ToSet(ws) : x \in GpusOf(g, w)
    BY <1>4
  <2>2. PICK k \in 1..n : w = ws[k]
    BY <1>3
  <2>3. x \in {At(k, b) : b \in 1..size}
    BY <1>2, <2>1, <2>2
  <2> QED BY <2>3
<1>6. ASSUME NEW k \in 1..n, NEW b \in 1..size PROVE At(k, b) \in GpusOfGroup(g)
  <2>1. At(k, b) \in GpusOf(g, ws[k])
    BY <1>2
  <2>2. ws[k] \in ToSet(ws)
    BY <1>3
  <2> QED BY <1>4, <2>1, <2>2
<1>7. GpusOfGroup(g) = all
  BY <1>5, <1>6
<1>8. GpusOfAll(ws, n, size, pgs) = all
  BY ONLY DEF At, GpusOfAll, all
<1> QED BY ONLY <1>7, <1>8 DEF ws, pgs

\* They are GPUs of the cluster, and all of them if the workers are enough.
LEMMA GpusOfLaidOut ==
  ASSUME NEW g, NEW c, c = ClusterOf(g), Reserves(c), NEW size \in Nat,
         LaidOut(groups[g].workers, size, clusters[c].pgs)
  PROVE  LET all == GpusIn(clusters[c].pgs, GroupCount(c), GroupSize(c))
         IN  /\ GpusOfGroup(g) \subseteq all
             /\ WorldSize(c) <= Len(groups[g].workers) * size => GpusOfGroup(g) = all
<1> DEFINE ws == groups[g].workers
           pgs == clusters[c].pgs
           m == GroupCount(c)
           G == GroupSize(c)
           all == GpusIn(pgs, m, G)
<1>1. /\ m \in Nat /\ G \in Nat /\ DistinctGroups(pgs, m, G) /\ WorldSize(c) = m * G
      /\ AlikeGroups(pgs, m, G)
  BY DEF Reserves, DistinctGroups
<1>2. PICK n \in Nat : DOMAIN ws = 1..n /\ Len(ws) = n /\ Apart(ws, n, size, pgs)
  BY DEF LaidOut
<1>3. GpusOfGroup(g) = GpusOfAll(ws, n, size, pgs)
  BY <1>2, GroupsGpus
<1> HIDE DEF m, G, ws, pgs
<1>4. GpusOfAll(ws, n, size, pgs) \subseteq all
  BY <1>1, <1>2, AmongAll
<1>5. m * G <= n * size => GpusOfAll(ws, n, size, pgs) = all
  BY <1>1, <1>2, CoversAll
<1> HIDE DEF all
<1>6. GpusOfGroup(g) \subseteq all
  BY <1>3, <1>4
<1>7. WorldSize(c) <= Len(ws) * size => GpusOfGroup(g) = all
  BY <1>1, <1>2, <1>3, <1>5
<1> QED BY <1>6, <1>7 DEF all, m, G, ws, pgs

\* An engine that takes turns with the policy is on the policy's GPUs.
LEMMA EngineOnPolicy ==
  ASSUME SetupInv, groups["engine"].at = "up", Placed("policy"), job.colocated
  PROVE  /\ GpusOfGroup("engine") \subseteq GpusOfGroup("policy")
         /\ WorldSize("train") % job.mp = 0 => GpusOfGroup("engine") = GpusOfGroup("policy")
<1> DEFINE c == "train"
           W == WorldSize(c)
           size == job.mp
           all == GpusIn(clusters[c].pgs, GroupCount(c), GroupSize(c))
           e == groups["engine"].workers
           p == groups["policy"].workers
<1>1. c = ClusterOf("engine") /\ c = ClusterOf("policy")
  BY DEF ClusterOf
<1>2. "engine" \in GroupNames /\ "policy" \in GroupNames /\ Placed("engine")
  BY DEF GroupNames, Placed
<1>3. Reserves(c) /\ e = EngineLayout(c) /\ p = PolicyLayout(c)
  BY <1>1, <1>2, PlacedReserves DEF Layout
<1>4. size \in Nat \ {0} /\ W \in Nat
  BY <1>3, JobTyped DEF SetupInv, Reserves
<1>5. GpusOfGroup("engine") \subseteq all /\ (W <= Len(e) * size => GpusOfGroup("engine") = all)
  <2>1. LaidOut(e, size, clusters[c].pgs)
    BY <1>1, <1>2, <1>3, EngineLaidOut
  <2> QED BY <1>1, <1>3, <1>4, <2>1, GpusOfLaidOut
<1>6. GpusOfGroup("policy") = all
  <2>1. LaidOut(p, 1, clusters[c].pgs)
    BY <1>3, ModelLaidOut
  <2>2. Len(p) = W
    BY <1>3, WorkersOfModel
  <2>3. W <= Len(p) * 1
    BY <1>4, <2>2
  <2> QED BY <1>1, <1>3, <2>1, <2>3, GpusOfLaidOut
<1>7. ASSUME W % size = 0 PROVE W <= Len(e) * size
  <2> DEFINE k == W \div size
             n == Len(e)
  <2>1. k \in Nat /\ W = k * size + (W % size)
    BY <1>4, Division
  <2>2. n \in Nat
    <3>1. LaidOut(e, size, clusters[c].pgs)
      BY <1>1, <1>2, <1>3, EngineLaidOut
    <3> HIDE DEF e
    <3> QED BY <3>1 DEF LaidOut
  <2>3. n >= k
    <3>1. CASE job.backend = "sglang"
      <4>1. ~ LayoutFails(c)
        BY <1>1, <1>2 DEF SetupInv, GroupInv
      <4>2. ~ (Len(EngineLayout(c)) < W \div size)
        BY <3>1, <4>1 DEF LayoutFails
      <4> HIDE DEF W, size, n, k
      <4>3. n = Len(EngineLayout(c)) /\ k = W \div size
        BY <1>3 DEF n, k
      <4> QED BY <2>1, <2>2, <4>2, <4>3
    <3>2. CASE job.backend = "vllm"
      <4>1. n = k
        BY <1>1, <3>2 DEF SetupInv, EngineInv
      <4> HIDE DEF n, k
      <4> QED BY <2>1, <4>1
    <3>3. job.backend \in {"vllm", "sglang"}
      BY <1>1, <1>2, EngineBackends
    <3> QED BY <3>1, <3>2, <3>3
  <2> HIDE DEF n, k, W, size
  <2>4. k * size <= n * size
    BY <1>4, <2>1, <2>2, <2>3, MultiplyMonotonic
  <2>5. k * size \in Nat /\ n * size \in Nat
    BY <1>4, <2>1, <2>2
  <2> DEFINE x == k * size
             y == n * size
  <2>6. x \in Nat /\ y \in Nat /\ x <= y /\ W = x + 0
    BY <1>7, <2>1, <2>4, <2>5
  <2> HIDE DEF x, y
  <2>7. W <= y
    BY <2>6
  <2> QED BY <2>7 DEF y, n
<1> QED BY <1>5, <1>6, <1>7

-----------------------------------------------------------------------------
(* Whole nodes *)

\* The GPUs of a set that are on a node.
Row(n, s) == {gpu \in s : gpu[1] = n}

\* All GPUs of a node.
LEMMA FullRow ==
  ASSUME NEW G \in Nat, NEW F, NEW n \in F
  PROVE  Row(n, F \X (1..G)) = {n} \X (1..G) /\ On(n, F \X (1..G)) = G
<1>1. Row(n, F \X (1..G)) = {n} \X (1..G)
  BY DEF Row
<1>2. Cardinality({n} \X (1..G)) = G
  <2> DEFINE I == 1..G
             one == {n}
  <2>1. IsFiniteSet(I) /\ Cardinality(I) = G
    BY FS_Interval
  <2>2. IsFiniteSet(one) /\ Cardinality(one) = 1
    BY FS_Singleton
  <2> HIDE DEF I, one
  <2>3. Cardinality(one \X I) = 1 * G
    BY <2>1, <2>2, FS_Product
  <2> QED BY <2>3 DEF I, one
<1> QED BY <1>1, <1>2 DEF On, Row

\* A node of which not all GPUs are in a set has fewer there.
LEMMA RowCounts ==
  ASSUME NEW G \in Nat, NEW F, NEW s \in SUBSET (F \X (1..G)), NEW n
  PROVE  /\ IsFiniteSet(Row(n, s)) /\ On(n, s) = Cardinality(Row(n, s)) /\ On(n, s) \in 0..G
         /\ On(n, s) = 0 <=> Row(n, s) = {}
         /\ On(n, s) = G => Row(n, s) = {n} \X (1..G)
<1> DEFINE all == {n} \X (1..G)
<1>1. Row(n, s) \in SUBSET all
  BY DEF Row
<1>2. IsFiniteSet(all) /\ Cardinality(all) = G
  <2> DEFINE I == 1..G
             one == {n}
  <2>1. IsFiniteSet(I) /\ Cardinality(I) = G
    BY FS_Interval
  <2>2. IsFiniteSet(one) /\ Cardinality(one) = 1
    BY FS_Singleton
  <2> HIDE DEF I, one
  <2>3. IsFiniteSet(one \X I) /\ Cardinality(one \X I) = 1 * G
    BY <2>1, <2>2, FS_Product
  <2> QED BY <2>3 DEF I, one
<1> HIDE DEF all
<1>3. /\ IsFiniteSet(Row(n, s)) /\ Cardinality(Row(n, s)) <= G
      /\ Cardinality(Row(n, s)) = G => Row(n, s) = all
  BY <1>1, <1>2, FS_Subset
<1>4. Cardinality(Row(n, s)) \in Nat /\ (Cardinality(Row(n, s)) = 0 <=> Row(n, s) = {})
  BY <1>3, FS_CardinalityType, FS_EmptySet
<1>5. On(n, s) = Cardinality(Row(n, s))
  BY DEF On, Row
<1> QED BY <1>3, <1>4, <1>5 DEF all

\* The nodes that have some of their GPUs in s, but not all.
Partly(M, s, all) == {n \in M : On(n, s) \notin {0, On(n, all)}}

AllOfSome(s, F, G) == \E N \in SUBSET F : s = N \X (1..G)

\* GPUs that are packed on free nodes, as many as those of some nodes, are all of
\* the nodes they are on.
LEMMA PackedWhole ==
  ASSUME NEW G \in Nat \ {0}, NEW M, IsFiniteSet(M), NEW F \in SUBSET M,
         NEW s \in SUBSET (F \X (1..G)), NEW p \in Nat, Cardinality(s) = p * G,
         Cardinality(Partly(M, s, F \X (1..G))) <= 1
  PROVE  AllOfSome(s, F, G)
<1> DEFINE free == F \X (1..G)
           P == Partly(M, s, free)
           N == {n \in F : On(n, s) = G}
<1>1. /\ G \in Nat /\ IsFiniteSet(F) /\ IsFiniteSet(P)
      /\ Cardinality(P) \in Nat /\ Cardinality(P) <= 1
  <2>1. IsFiniteSet(P)
    BY FS_Subset DEF Partly
  <2> QED BY <2>1, FS_Subset, FS_CardinalityType
<1>2. \A n \in F : On(n, free) = G
  BY <1>1, FullRow
<1>3. \A n : /\ IsFiniteSet(Row(n, s)) /\ On(n, s) = Cardinality(Row(n, s)) /\ On(n, s) \in 0..G
             /\ On(n, s) = 0 <=> Row(n, s) = {}
             /\ On(n, s) = G => Row(n, s) = {n} \X (1..G)
  BY <1>1, RowCounts
<1>4. \A gpu \in s : gpu[1] \in F /\ gpu \in Row(gpu[1], s) /\ gpu[2] \in 1..G
                     /\ gpu = <<gpu[1], gpu[2]>>
  BY DEF Row
<1>5. N \X (1..G) \subseteq s
  <2> SUFFICES ASSUME NEW n \in N, NEW a \in 1..G PROVE <<n, a>> \in s
    OBVIOUS
  <2>1. Row(n, s) = {n} \X (1..G)
    BY <1>3
  <2> QED BY <2>1 DEF Row
<1>6. ASSUME NEW gpu \in s PROVE gpu[1] \in N \/ gpu[1] \in P
  <2>1. gpu[1] \in F /\ Row(gpu[1], s) # {}
    BY <1>4
  <2>2. On(gpu[1], s) # 0 /\ On(gpu[1], free) = G
    BY <1>2, <1>3, <2>1
  <2> QED BY <2>1, <2>2 DEF Partly
<1>7. N \in SUBSET F
  OBVIOUS
<1> HIDE DEF free
<1>8. CASE P = {}
  <2>1. s \subseteq N \X (1..G)
    BY <1>4, <1>6, <1>8
  <2>2. s = N \X (1..G)
    BY <1>5, <2>1
  <2> QED BY <1>7, <2>2 DEF AllOfSome
<1>9. CASE P # {}
  <2>1. Cardinality(P) = 1
    <3> HIDE DEF P
    <3>1. Cardinality(P) # 0
      BY <1>1, <1>9, FS_EmptySet
    <3> QED BY <1>1, <3>1
  <2>2. PICK x : P = {x}
    BY <1>1, <2>1, FS_Singleton
  <2>3. x \in F /\ On(x, s) \in 1..(G - 1)
    <3>1. x \in M /\ On(x, s) # 0 /\ On(x, s) # On(x, free)
      BY <2>2 DEF Partly
    <3>2. Row(x, s) # {}
      BY <1>3, <3>1
    <3>3. x \in F
      BY <1>4, <3>2 DEF Row
    <3> QED BY <1>2, <1>3, <3>1, <3>3
  <2> DEFINE W == N \X (1..G)
             R == Row(x, s)
             k == Cardinality(N)
             r == On(x, s)
  <2>4. s = W \cup R
    <3>1. R \subseteq s
      BY DEF Row
    <3>2. \A gpu \in s : gpu \in W \/ gpu \in R
      <4> TAKE gpu \in s
      <4>1. gpu[1] \in N \/ gpu[1] = x
        BY <1>6, <2>2
      <4> QED BY <1>4, <4>1
    <3> QED BY <1>5, <3>1, <3>2
  <2>5. W \cap R = {}
    <3>1. x \notin N
      BY <2>3
    <3>2. \A gpu \in W : gpu[1] \in N
      OBVIOUS
    <3>3. \A gpu \in R : gpu[1] = x
      BY DEF Row
    <3> HIDE DEF W, R, N
    <3> QED BY <3>1, <3>2, <3>3
  <2>6. IsFiniteSet(W) /\ Cardinality(W) = k * G /\ k \in Nat
    <3> DEFINE I == 1..G
    <3>1. IsFiniteSet(I) /\ Cardinality(I) = G
      BY FS_Interval
    <3>2. IsFiniteSet(N) /\ k \in Nat
      BY <1>1, <1>7, FS_Subset, FS_CardinalityType
    <3> HIDE DEF I, N
    <3>3. IsFiniteSet(N \X I) /\ Cardinality(N \X I) = k * G
      BY <3>1, <3>2, FS_Product
    <3> QED BY <3>2, <3>3 DEF I
  <2>7. IsFiniteSet(R) /\ Cardinality(R) = r
    BY <1>3
  <2>8. Cardinality(s) = k * G + r
    <3> HIDE DEF W, R, k, r
    <3>1. Cardinality(W \cup R) = Cardinality(W) + Cardinality(R) - Cardinality(W \cap R)
      BY <2>6, <2>7, FS_Union
    <3>2. Cardinality(W \cap R) = 0
      BY <2>5, FS_EmptySet
    <3>3. k * G \in Nat /\ r \in Nat
      <4>1. r \in Nat
        BY <2>3 DEF r
      <4> QED BY <1>1, <2>6, <4>1
    <3> QED BY <2>4, <2>6, <2>7, <3>1, <3>2, <3>3
  <2> HIDE DEF k, r
  <2>9. r \in 1..(G - 1)
    BY <2>3 DEF r
  <2>10. (k * G + r) % G = r
    <3>1. r \in 0..(G - 1) /\ k \in Nat /\ G \in Nat \ {0}
      BY <2>6, <2>9
    <3> QED BY ONLY <3>1, DivisionOf
  <2>11. (p * G + 0) % G = 0
    <3>1. 0 \in 0..(G - 1)
      OBVIOUS
    <3> QED BY <3>1, DivisionOf
  <2>12. k * G + r = p * G + 0
    <3>1. p * G \in Nat
      OBVIOUS
    <3> QED BY <2>8, <3>1
  <2> QED BY <2>9, <2>10, <2>11, <2>12
<1> QED BY <1>8, <1>9

\* A placement group is on the machine, and has all GPUs of its nodes if whole
\* nodes are to be taken.
OnNodes(pg, n, G, whole) ==
  /\ ToSet(pg) \subseteq (1..n) \X (1..G)
  /\ whole => \E N \in SUBSET Nat : ToSet(pg) = N \X (1..G)

\* So are all placement groups.
AllOnNodes(all, n, G, whole) ==
  \A c \in ClusterNames : \A i \in 1..Len(all[c].pgs) : OnNodes(all[c].pgs[i], n, G, whole)

NodesInv == AllOnNodes(clusters, job.nodes, job.gpus, WholeNodes /\ job.nodes # 1)

\* Those that are left as they are, or removed, stay so.
LEMMA OnNodesKept ==
  ASSUME NEW all, NEW after, NEW n, NEW G, NEW whole, AllOnNodes(all, n, G, whole),
         \A c \in ClusterNames : after[c].pgs = all[c].pgs \/ after[c].pgs = <<>>
  PROVE  AllOnNodes(after, n, G, whole)
<1> SUFFICES ASSUME NEW c \in ClusterNames, NEW i \in 1..Len(after[c].pgs)
             PROVE  OnNodes(after[c].pgs[i], n, G, whole)
  BY DEF AllOnNodes
<1>1. after[c].pgs # <<>>
  OBVIOUS
<1>2. after[c].pgs = all[c].pgs
  BY <1>1
<1> QED BY <1>2 DEF AllOnNodes

\* So it is of the clusters of a job.
LEMMA NodesKept ==
  ASSUME NodesInv, job' = job,
         \A c \in ClusterNames : clusters'[c].pgs = clusters[c].pgs \/ clusters'[c].pgs = <<>>
  PROVE  NodesInv'
<1>1. WholeNodes' = WholeNodes
  BY JobKept DEF SameJob
<1> DEFINE whole == WholeNodes /\ job.nodes # 1
           K == clusters'
           n == job.nodes
           G == job.gpus
<1>2. AllOnNodes(clusters, n, G, whole)
  BY DEF NodesInv
<1>3. AllOnNodes(K, n, G, whole)
  <2>1. \A c \in ClusterNames : K[c].pgs = clusters[c].pgs \/ K[c].pgs = <<>>
    OBVIOUS
  <2> HIDE DEF K, n, G, whole
  <2> QED BY <1>2, <2>1, OnNodesKept
<1>4. NodesInv' <=> AllOnNodes(clusters', job'.nodes, job'.gpus, WholeNodes' /\ job'.nodes # 1)
  BY DEF NodesInv
<1>5. AllOnNodes(clusters', job.nodes, job.gpus, WholeNodes /\ job.nodes # 1)
  BY <1>3
<1> QED BY <1>1, <1>4, <1>5

\* The GPUs that are free are those of whole nodes if all placement groups have whole
\* nodes.
LEMMA FreeNodes ==
  ASSUME MachineInv, ClustersTyped, NodesInv, WholeNodes, job.nodes # 1
  PROVE  \E F \in SUBSET (1..nodesUp) : FreeGpus = F \X (1..job.gpus)
<1> DEFINE G == job.gpus
           F == {n \in 1..nodesUp : <<n, 1>> \notin Reserved}
           H == (1..nodesUp) \X (1..G)
<1>1. G \in Nat \ {0} /\ nodesUp \in Nat
  BY JobTyped
<1>2. ASSUME NEW pg \in UNION {ToSet(clusters[c].pgs) : c \in ClusterNames}
      PROVE  \E N \in SUBSET Nat : ToSet(pg) = N \X (1..G)
  <2>1. PICK c \in ClusterNames : pg \in ToSet(clusters[c].pgs)
    OBVIOUS
  <2>2. PICK i \in 1..Len(clusters[c].pgs) : pg = clusters[c].pgs[i]
    <3> DEFINE q == clusters[c].pgs
    <3>1. q \in Seq(Seq(Machine(job.gpus)))
      BY DEF ClustersTyped, Cluster
    <3>2. pg \in ToSet(q)
      BY <2>1
    <3> HIDE DEF q
    <3>3. DOMAIN q = 1..Len(q)
      BY <3>1
    <3>4. \E i \in 1..Len(q) : pg = q[i]
      BY <3>2, <3>3, Zenon DEF ToSet
    <3> QED BY <3>4 DEF q
  <2> QED BY <2>2 DEF NodesInv, AllOnNodes, OnNodes
<1>3. \A n \in Nat, a \in 1..G : <<n, a>> \in Reserved <=> <<n, 1>> \in Reserved
  <2> SUFFICES ASSUME NEW n \in Nat, NEW a \in 1..G
               PROVE  <<n, a>> \in Reserved <=> <<n, 1>> \in Reserved
    OBVIOUS
  <2> DEFINE X == UNION {ToSet(clusters[c].pgs) : c \in ClusterNames}
  <2>1. \A x : x \in Reserved <=> \E pg \in X : x \in ToSet(pg)
    BY DEF Reserved
  <2>2. 1 \in 1..G
    BY <1>1
  <2>3. \A pg \in X : <<n, a>> \in ToSet(pg) <=> <<n, 1>> \in ToSet(pg)
    <3> TAKE pg \in X
    <3>1. PICK N \in SUBSET Nat : ToSet(pg) = N \X (1..G)
      BY <1>2
    <3> HIDE DEF G
    <3> QED BY <2>2, <3>1
  <2> HIDE DEF X
  <2> QED BY <2>1, <2>3
<1>4. FreeGpus = H \ Reserved
  BY DEF FreeGpus, Nodes
<1>5. \A gpu \in H : gpu[1] \in 1..nodesUp /\ gpu[2] \in 1..G /\ gpu = <<gpu[1], gpu[2]>>
  OBVIOUS
<1>6. \A gpu \in H : gpu \in Reserved <=> gpu[1] \notin F
  <2> TAKE gpu \in H
  <2>1. gpu[1] \in Nat /\ gpu[1] \in 1..nodesUp /\ gpu[2] \in 1..G /\ gpu = <<gpu[1], gpu[2]>>
    BY <1>1, <1>5
  <2>2. <<gpu[1], gpu[2]>> \in Reserved <=> <<gpu[1], 1>> \in Reserved
    BY <1>3, <2>1
  <2> HIDE DEF H
  <2> QED BY <2>1, <2>2
<1>7. FreeGpus = F \X (1..G)
  <2>1. F \X (1..G) \subseteq H
    OBVIOUS
  <2>2. \A gpu \in F \X (1..G) : gpu[1] \in F
    OBVIOUS
  <2>3. \A gpu \in H : gpu[1] \in F => gpu \in F \X (1..G)
    BY <1>5
  <2> HIDE DEF F, H, G
  <2> QED BY <1>4, <1>6, <2>1, <2>2, <2>3
<1>8. F \in SUBSET (1..nodesUp)
  OBVIOUS
<1> QED BY <1>7, <1>8

\* A cluster of whole nodes has all GPUs of each.
LEMMA WholeShape ==
  ASSUME MachineInv, NEW c \in ClusterNames, clusters[c].asked, ClusterInv(c),
         WholeNodes, job.nodes # 1
  PROVE  Shape(c).gpus = job.gpus
<1>1. PICK g \in GroupNames : UsedBy(g) /\ ClusterOf(g) = c
  BY DEF ClusterInv
<1>2. CASE g = "reward" /\ HasReward
  <2>1. Shape(c) = job.reward
    BY <1>1, <1>2 DEF ClusterOf, Shape
  <2> QED BY <1>2, <2>1 DEF WholeNodes
<1>3. CASE g \in ToSet(Plan)
  BY <1>1, <1>3 DEF WholeNodes
<1> QED BY <1>1, <1>2, <1>3 DEF UsedBy

\* A placement group that is spread takes all GPUs of the machine if whole nodes are
\* to be taken.
LEMMA SpreadOverAll ==
  ASSUME MachineInv, NEW c \in ClusterNames, ClusterInv(c), clusters[c].asked,
         clusters[c].unified, Strategy("engine") # "PACK", WholeNodes, job.nodes # 1
  PROVE  GroupSize(c) = job.nodes * job.gpus
<1>1. Shape(c).gpus = job.gpus
  BY WholeShape
<1>2. c = ClusterOf("engine") /\ Unified("engine")
  BY DEF ClusterInv
<1>3. job.colocated /\ c = "train" /\ Strategy("engine") = "SPREAD"
  BY <1>2 DEF Strategy, ClusterOf
<1>4. ~ HasReward
  BY <1>2, <1>3 DEF WholeNodes
<1>5. job.nodes \in Nat \ {0} /\ job.reward.nodes \in Nat
  BY JobTyped
<1>6. TrainShape.nodes = PolicyNodes /\ PolicyNodes = job.nodes
  BY <1>3, <1>4, <1>5 DEF TrainShape, PolicyNodes, HasReward
<1>7. Shape(c).nodes = job.nodes
  BY <1>3, <1>6 DEF Shape
<1>8. Max({0, job.nodes}) = job.nodes
  BY <1>5, MaxOfZero
<1> QED BY <1>1, <1>7, <1>8 DEF GroupSize, WorldSize

\* The numbers up to n.
LEMMA IntervalCounts ==
  ASSUME NEW n \in Nat
  PROVE  IsFiniteSet(1..n) /\ Cardinality(1..n) = n
<1>1. IsFiniteSet(1..n) /\ Cardinality(1..n) = IF 1 > n THEN 0 ELSE n - 1 + 1
  BY FS_Interval
<1> QED BY <1>1

\* A placement group gets whole nodes if whole nodes are to be taken.
LEMMA NewOnNodes ==
  ASSUME MachineInv, ClustersTyped, NodesInv, NEW c \in ClusterNames, ClusterInv(c),
         clusters[c].asked,
         NEW pg, IsPlacement(pg, GroupSize(c), clusters[c].strategy, clusters[c].unified)
  PROVE  OnNodes(pg, job.nodes, job.gpus, WholeNodes /\ job.nodes # 1)
<1> DEFINE G == job.gpus
           s == ToSet(pg)
<1>1. G \in Nat \ {0} /\ nodesUp \in Nat /\ job.nodes \in Nat /\ nodesUp <= job.nodes
  BY JobTyped
<1>2. s \subseteq FreeGpus /\ FreeGpus \subseteq (1..nodesUp) \X (1..G)
  BY DEF IsPlacement, FreeGpus, Nodes
<1>3. s \subseteq (1..job.nodes) \X (1..G)
  <2>1. 1..nodesUp \subseteq 1..job.nodes
    BY <1>1
  <2> HIDE DEF s, G
  <2> QED BY <1>2, <2>1
<1>4. ASSUME WholeNodes, job.nodes # 1
      PROVE  \E N \in SUBSET Nat : s = N \X (1..G)
  <2>1. PICK F \in SUBSET (1..nodesUp) : FreeGpus = F \X (1..G)
    BY <1>4, FreeNodes
  <2>2. Shape(c).gpus = G
    BY <1>4, WholeShape
  <2>3. GroupCount(c) \in Nat /\ GroupSize(c) = (IF clusters[c].unified THEN Max({0, Shape(c).nodes}) * G ELSE G)
    BY <2>2, GroupsOfCluster DEF GroupSize, WorldSize
  <2>4. Max({0, Shape(c).nodes}) \in Nat
    BY ShapesTyped, MaxOfZero
  <2> DEFINE p == IF clusters[c].unified THEN Max({0, Shape(c).nodes}) ELSE 1
  <2>5. p \in Nat /\ GroupSize(c) = p * G
    BY <1>1, <2>3, <2>4
  <2>6. Cardinality(s) = p * G /\ Fits(s, FreeGpus, clusters[c].strategy)
    BY <2>5 DEF IsPlacement
  <2>7. CASE clusters[c].strategy = "PACK"
    <3>1. Cardinality({n \in Nodes : On(n, s) \notin {0, On(n, FreeGpus)}}) <= 1
      BY <2>6, <2>7 DEF Fits
    <3> DEFINE M == 1..nodesUp
    <3>2. IsFiniteSet(M) /\ Nodes = M /\ F \in SUBSET M
      BY <1>1, <2>1, FS_Interval DEF Nodes
    <3>3. s \in SUBSET (F \X (1..G))
      BY <1>2, <2>1
    <3>4. Cardinality({n \in M : On(n, s) \notin {0, On(n, F \X (1..G))}}) <= 1
      BY <2>1, <3>1, <3>2
    <3>5. M \in SUBSET Nat
      BY <1>1
    <3> HIDE DEF M, p, s, G
    <3>6. AllOfSome(s, F, G)
      <4>1. G \in Nat \ {0} /\ p \in Nat /\ Cardinality(s) = p * G
        BY <1>1, <2>5, <2>6
      <4>2. IsFiniteSet(M) /\ F \in SUBSET M
        BY <3>2
      <4>3. Cardinality(Partly(M, s, F \X (1..G))) <= 1
        BY <3>4 DEF Partly
      <4> QED BY <3>3, <4>1, <4>2, <4>3, PackedWhole
    <3> QED BY <3>2, <3>5, <3>6 DEF AllOfSome
  <2>8. CASE clusters[c].strategy # "PACK"
    <3>1. clusters[c].unified /\ Strategy("engine") # "PACK"
      BY <2>8 DEF ClusterInv
    <3> DEFINE all == (1..job.nodes) \X (1..G)
    <3>2. Cardinality(s) = job.nodes * G
      BY <1>4, <3>1, SpreadOverAll DEF IsPlacement
    <3>3. IsFiniteSet(1..job.nodes) /\ IsFiniteSet(1..G)
          /\ Cardinality(1..job.nodes) = job.nodes /\ Cardinality(1..G) = G
      BY <1>1, IntervalCounts
    <3>4. IsFiniteSet(all) /\ Cardinality(all) = job.nodes * G
      <4> DEFINE A == 1..job.nodes
                 B == 1..G
      <4>1. IsFiniteSet(A \X B) /\ Cardinality(A \X B) = Cardinality(A) * Cardinality(B)
        <5> HIDE DEF A, B
        <5>1. IsFiniteSet(A) /\ IsFiniteSet(B)
          BY <3>3 DEF A, B
        <5> QED BY <5>1, FS_Product
      <4> QED BY <3>3, <4>1
    <3> HIDE DEF all, s
    <3>5. s = all
      BY <1>3, <3>2, <3>4, FS_Subset DEF all
    <3>6. 1..job.nodes \in SUBSET Nat
      BY <1>1
    <3> QED BY <3>5, <3>6 DEF all
  <2> QED BY <2>7, <2>8
<1> QED BY <1>3, <1>4 DEF OnNodes

\* A placement group more stays so if that one is so.
LEMMA OnNodesAppended ==
  ASSUME NEW all, NEW after, NEW n, NEW G, NEW whole, AllOnNodes(all, n, G, whole),
         NEW c \in ClusterNames, NEW V, all[c].pgs \in Seq(V), NEW pg \in V,
         OnNodes(pg, n, G, whole), after[c].pgs = Append(all[c].pgs, pg),
         \A d \in ClusterNames \ {c} : after[d].pgs = all[d].pgs
  PROVE  AllOnNodes(after, n, G, whole)
<1> SUFFICES ASSUME NEW d \in ClusterNames, NEW i \in 1..Len(after[d].pgs)
             PROVE  OnNodes(after[d].pgs[i], n, G, whole)
  BY DEF AllOnNodes
<1>1. CASE d # c
  BY <1>1 DEF AllOnNodes
<1>2. CASE d = c
  <2> DEFINE pgs == all[c].pgs
  <2>1. pgs \in Seq(V) /\ after[d].pgs = Append(pgs, pg)
    BY <1>2
  <2>2. \A j \in 1..Len(pgs) : OnNodes(pgs[j], n, G, whole)
    BY DEF AllOnNodes
  <2> HIDE DEF pgs
  <2>3. i \in 1..(Len(pgs) + 1) /\ Len(pgs) \in Nat
    BY <2>1
  <2>4. CASE i = Len(pgs) + 1
    <3>1. after[d].pgs[i] = pg
      BY <2>1, <2>4
    <3> QED BY <3>1
  <2>5. CASE i # Len(pgs) + 1
    <3>1. i \in 1..Len(pgs)
      BY <2>3, <2>5
    <3>2. after[d].pgs[i] = pgs[i]
      BY <2>1, <3>1
    <3> QED BY <2>2, <3>1, <3>2
  <2> QED BY <2>4, <2>5
<1> QED BY <1>1, <1>2

\* Ray reserves whole nodes if whole nodes are to be taken.
LEMMA ReserveNodes ==
  ASSUME SetupInv, NodesInv, NEW c \in ClusterNames, ReservePlacementGroup(c)
  PROVE  NodesInv'
<1>1. /\ MachineInv /\ ClustersTyped /\ clusters[c] \in Cluster(job.gpus) /\ ClusterInv(c)
      /\ clusters[c].asked /\ ~ Ready(c) /\ job' = job
  BY DEF SetupInv, ClustersTyped, ReservePlacementGroup
<1> DEFINE pgs == clusters[c].pgs
           n == Len(pgs)
<1>2. pgs \in Seq(Seq(Machine(job.gpus))) /\ n \in Nat
  <2>1. pgs \in Seq(Seq(Machine(job.gpus)))
    BY <1>1 DEF Cluster
  <2> QED BY <2>1
<1>3. /\ GroupCount(c) \in Nat /\ Len(Bundles(c)) = GroupCount(c)
      /\ \A i \in 1..GroupCount(c) : Bundles(c)[i] = GroupSize(c)
  BY <1>1, GroupsOfCluster
<1>4. n < GroupCount(c)
  BY <1>1, <1>2, <1>3 DEF ClusterInv, Ready
<1>5. Bundles(c)[n + 1] = GroupSize(c)
  BY <1>2, <1>3, <1>4
<1>6. PICK pg \in Placements(Bundles(c)[n + 1], clusters[c]) :
        clusters' = [clusters EXCEPT ![c].pgs = Append(@, pg)]
  BY Zenon DEF ReservePlacementGroup, NextPlacements
<1>7. IsPlacement(pg, GroupSize(c), clusters[c].strategy, clusters[c].unified)
  BY <1>1, <1>5, <1>6, PlacementsAre
<1>8. OnNodes(pg, job.nodes, job.gpus, WholeNodes /\ job.nodes # 1)
  BY <1>1, <1>7, NewOnNodes
<1>9. pg \in Seq(Machine(job.gpus))
  BY <1>7 DEF IsPlacement
<1> DEFINE M == clusters
           K == clusters'
<1>10. K[c].pgs = Append(M[c].pgs, pg) /\ \A d \in ClusterNames \ {c} : K[d].pgs = M[d].pgs
  <2>1. DOMAIN M = ClusterNames /\ M[c] \in Cluster(job.gpus)
    BY <1>1 DEF ClustersTyped
  <2>2. K = [M EXCEPT ![c].pgs = Append(@, pg)]
    BY <1>6
  <2> HIDE DEF M, K
  <2> QED BY <2>1, <2>2 DEF Cluster
<1> DEFINE whole == WholeNodes /\ job.nodes # 1
           N == job.nodes
           G == job.gpus
<1>11. AllOnNodes(K, N, G, whole)
  <2>1. AllOnNodes(M, N, G, whole) /\ OnNodes(pg, N, G, whole)
    BY <1>8 DEF NodesInv
  <2> DEFINE V == Seq(Machine(G))
  <2>2. M[c].pgs \in Seq(V) /\ pg \in V
    BY <1>2, <1>9
  <2> HIDE DEF M, K, N, G, whole, V
  <2> QED BY <1>10, <2>1, <2>2, OnNodesAppended
<1>12. WholeNodes' = WholeNodes
  BY <1>1, JobKept DEF SameJob
<1>13. NodesInv' <=> AllOnNodes(clusters', job'.nodes, job'.gpus, WholeNodes' /\ job'.nodes # 1)
  BY DEF NodesInv
<1>14. AllOnNodes(clusters', job.nodes, job.gpus, WholeNodes /\ job.nodes # 1)
  BY <1>11
<1> QED BY <1>1, <1>12, <1>13, <1>14

\* The other steps leave placement groups as they are or remove them.
LEMMA AskNodes ==
  ASSUME SetupInv, NodesInv, NEW g \in GroupNames, Ask(g) \/ PlacementTimesOut(g)
  PROVE  NodesInv'
<1> DEFINE c == ClusterOf(g)
<1>1. ClustersTyped /\ job' = job /\ c \in ClusterNames
  BY DEF SetupInv, Ask, PlacementTimesOut, ClusterOf, ClusterNames
<1>2. clusters[c] \in Cluster(job.gpus) /\ DOMAIN clusters = ClusterNames
  BY <1>1 DEF ClustersTyped
<1>3. PICK k : clusters' = [clusters EXCEPT ![c] = k] /\ (k.pgs = clusters[c].pgs \/ k.pgs = <<>>)
  <2> DEFINE r == clusters[c]
             E == [NoCluster EXCEPT !.tries = r.tries]
             T == [r EXCEPT !.tries = @ + 1]
  <2>1. Asked(g).pgs = r.pgs /\ T.pgs = r.pgs
    <3> HIDE DEF c
    <3> QED BY <1>2 DEF Asked, Cluster, c
  <2>2. E.pgs = <<>>
    BY DEF NoCluster
  <2>3. CASE PlacementTimesOut(g)
    <3>1. clusters' = [clusters EXCEPT ![c] = E]
      BY <2>3 DEF PlacementTimesOut
    <3> QED BY <2>2, <3>1
  <2>4. CASE Ask(g)
    <3>1. clusters' = [clusters EXCEPT ![c] = Asked(g)]
          \/ clusters' = [clusters EXCEPT ![c] = T]
      BY <2>4 DEF Ask
    <3> QED BY <2>1, <3>1
  <2> QED BY <2>3, <2>4
<1>4. \A d \in ClusterNames : clusters'[d].pgs = clusters[d].pgs \/ clusters'[d].pgs = <<>>
  <2> HIDE DEF c
  <2>1. clusters'[c] = k /\ \A d \in ClusterNames \ {c} : clusters'[d] = clusters[d]
    BY <1>1, <1>2, <1>3
  <2> QED BY <1>3, <2>1
<1> QED BY <1>1, <1>4, NodesKept

\* Nothing is reserved at first.
LEMMA NoNodes == AtFirst => NodesInv
<1> SUFFICES ASSUME AtFirst PROVE NodesInv
  OBVIOUS
<1>1. \A c \in ClusterNames : Len(clusters[c].pgs) = 0
  BY DEF AtFirst, NoCluster
<1> QED BY <1>1 DEF NodesInv, AllOnNodes

\* The steps of the programs.
LEMMA NodesInvStep ==
  ASSUME SetupInv, NodesInv, [ProgramNext]_programVars
  PROVE  NodesInv'
<1>1. CASE ClustersStay
  BY <1>1, NodesKept DEF ClustersStay
<1>2. CASE Relaunch
  <2>1. MachineInv'
    BY <1>2 DEF Relaunch, SetupInv, MachineInv
  <2>2. AtFirst'
    BY <1>2, <2>1 DEF Relaunch, AtFirst
  <2> QED BY <2>2, NoNodes, PTL
<1>3. CASE SetsUp
  <2>1. ASSUME NEW g \in GroupNames,
               \/ Begin(g)
               \/ CreateWorkers(g)
               \/ StartConversion(g)
               \/ FinishConversion(g)
               \/ ComeUp(g)
        PROVE  ClustersStay
    BY <2>1 DEF Begin, CreateWorkers, StartConversion, FinishConversion, ComeUp, Idle, ClustersStay
  <2>2. NodeJoins \/ CheckSetup \/ GroupFailed \/ FinishSetup \/ VllmComesUp \/ SGLangComesUp
        => ClustersStay
    BY DEF NodeJoins, CheckSetup, GroupFailed, FinishSetup, VllmComesUp, SGLangComesUp, Idle,
           ClustersStay
  <2> QED BY <1>1, <1>3, <2>1, <2>2, AskNodes, ReserveNodes DEF SetsUp, SetupStep
<1>4. CASE PortClash \/ Start \/ CrashInSetup \/ UNCHANGED setupVars
  <2>1. ClustersStay
    BY <1>4 DEF PortClash, PortTaken, Start, CrashInSetup, setupVars, ClustersStay
  <2> QED BY <1>1, <2>1
<1> QED BY <1>2, <1>3, <1>4
        DEF ProgramNext, Goes, TrainingStep, EvaluationStep, CrashInLoop, SetUpIdle,
            programVars

\* The placement groups of a job that takes whole nodes have whole nodes.
THEOREM NodesAreWhole == ProgramSpec => []NodesInv
<1>1. ProgramInit => NodesInv
  <2>1. SetupInit => AtFirst
    BY JobsAssumption DEF SetupInit, AtFirst, MachineInv
  <2> QED BY <2>1, NoNodes DEF ProgramInit
<1>2. SetupInv /\ NodesInv /\ [ProgramNext]_programVars => NodesInv'
  BY NodesInvStep
<1> QED BY <1>1, <1>2, SetupIsOrderly, PTL DEF ProgramSpec

\* GPUs of one node.
LEMMA OnSameNode ==
  ASSUME NEW S, NEW x \in S, NEW node, \A gpu \in S : gpu[1] = node
  PROVE  SameNode(S)
<1>1. {gpu[1] : gpu \in S} = {node}
  OBVIOUS
<1>2. Cardinality({node}) = 1
  BY FS_Singleton
<1> QED BY <1>1, <1>2 DEF SameNode

\* A placement group has its bundles on one node.
OnOneNode(pg) == \E node : \A a \in 1..Len(pg) : pg[a][1] = node

\* As many GPUs as a node has, that fill whole nodes.
FillOneNode(S, N, G) ==
  G \in Nat \ {0} /\ IsFiniteSet(S) /\ Cardinality(S) = G /\ S = N \X (1..G)

\* They are those of one node.
LEMMA OneWholeNode ==
  ASSUME NEW G, NEW S, NEW N, FillOneNode(S, N, G)
  PROVE  \E node : \A gpu \in S : gpu[1] = node
<1>0. G \in Nat \ {0} /\ IsFiniteSet(S) /\ Cardinality(S) = G /\ S = N \X (1..G)
  BY DEF FillOneNode
<1>1. S # {}
  BY <1>0, FS_EmptySet
<1>2. PICK node \in N : TRUE
  BY <1>0, <1>1
<1> DEFINE I == 1..G
           R == {node} \X I
<1>3. IsFiniteSet(I) /\ Cardinality(I) = G
  BY <1>0, IntervalCounts
<1>4. R \subseteq S
  BY <1>0
<1>5. Cardinality(R) = G
  <2> HIDE DEF I
  <2>1. IsFiniteSet({node}) /\ Cardinality({node}) = 1
    BY FS_Singleton
  <2>2. Cardinality({node} \X I) = Cardinality({node}) * Cardinality(I)
    BY <1>3, <2>1, FS_Product
  <2> QED BY <1>0, <1>3, <2>1, <2>2
<1>6. \A gpu \in R : gpu[1] = node
  OBVIOUS
<1> HIDE DEF R
<1>7. R = S
  BY <1>0, <1>4, <1>5, FS_Subset
<1> QED BY <1>6, <1>7

\* A placement group that is that of a node has one.
LEMMA GroupsOnNodes ==
  ASSUME SetupInv, NodesInv, NEW c, Reserves(c), ~ clusters[c].unified,
         WholeNodes, NEW i \in 1..Len(clusters[c].pgs)
  PROVE  OnOneNode(clusters[c].pgs[i])
<1> DEFINE pg == clusters[c].pgs[i]
           G == job.gpus
<1>1. /\ c \in ClusterNames /\ clusters[c].asked /\ ClusterInv(c) /\ MachineInv
      /\ clusters[c].pgs \in Seq(Seq(Machine(G))) /\ G \in Nat \ {0}
      /\ DistinctGroups(clusters[c].pgs, GroupCount(c), GroupSize(c))
  BY DEF Reserves, SetupInv
<1>2. /\ OnNodes(pg, job.nodes, G, WholeNodes /\ job.nodes # 1)
      /\ pg \in Seq(Machine(G)) /\ Len(pg) = GroupSize(c) /\ Distinct(pg)
  <2>1. OnNodes(pg, job.nodes, G, WholeNodes /\ job.nodes # 1)
    BY <1>1 DEF NodesInv, AllOnNodes
  <2>2. pg \in Seq(Machine(G))
    <3> DEFINE q == clusters[c].pgs
               V == Seq(Machine(G))
    <3>1. q \in Seq(V) /\ i \in 1..Len(q)
      BY <1>1
    <3> HIDE DEF q, V
    <3>2. q[i] \in V
      BY <3>1
    <3> QED BY <3>2 DEF q, V
  <2>3. Len(clusters[c].pgs) = GroupCount(c) /\ Len(pg) = GroupSize(c)
    BY <1>1 DEF DistinctGroups, AlikeGroups
  <2>4. Distinct(pg)
    BY <1>1, <2>3 DEF DistinctGroups, Distinct
  <2> QED BY <2>1, <2>2, <2>3, <2>4
<1>3. \A a \in 1..Len(pg) : pg[a] \in ToSet(pg)
  <2> DEFINE q == pg
  <2>1. q \in Seq(Machine(G))
    BY <1>2
  <2> HIDE DEF q
  <2>2. DOMAIN q = 1..Len(q)
    BY <2>1
  <2>3. \A a \in 1..Len(q) : q[a] \in ToSet(q)
    BY <2>2, Zenon DEF ToSet
  <2> QED BY <2>3 DEF q
<1>4. \E node : \A gpu \in ToSet(pg) : gpu[1] = node
  <2>1. CASE job.nodes = 1
    <3>1. ToSet(pg) \subseteq (1..1) \X (1..G)
      BY <1>2, <2>1 DEF OnNodes
    <3>2. \A gpu \in (1..1) \X (1..G) : gpu[1] = 1
      OBVIOUS
    <3> QED BY <3>1, <3>2
  <2>2. CASE job.nodes # 1
    <3>1. PICK N \in SUBSET Nat : ToSet(pg) = N \X (1..G)
      BY <1>2, <2>2 DEF OnNodes
    <3>2. Len(pg) = G
      BY <1>1, <1>2, <2>2, WholeShape DEF GroupSize
    <3>3. IsFiniteSet(ToSet(pg)) /\ Cardinality(ToSet(pg)) = G
      BY <1>2, <3>2, AsManyGpus
    <3>4. G \in Nat \ {0}
      BY <1>1
    <3> HIDE DEF pg, G
    <3>5. FillOneNode(ToSet(pg), N, G)
      BY ONLY <3>1, <3>3, <3>4, Zenon DEF FillOneNode
    <3> QED BY ONLY <3>5, OneWholeNode
  <2> QED BY <2>1, <2>2
<1> HIDE DEF pg
<1>5. OnOneNode(pg)
  BY <1>3, <1>4 DEF OnOneNode
<1> QED BY <1>5 DEF pg

\* An engine that fits on a node is on one.
LEMMA EngineOnNode ==
  ASSUME SetupInv, NodesInv, Placed("engine"), WholeNodes,
         job.mp <= Shape(ClusterOf("engine")).gpus,
         NEW k \in DOMAIN groups["engine"].workers
  PROVE  SameNode(GpusOf("engine", groups["engine"].workers[k]))
<1> DEFINE c == ClusterOf("engine")
           pgs == clusters[c].pgs
           size == job.mp
           ws == groups["engine"].workers
<1>1. "engine" \in GroupNames
  BY DEF GroupNames
<1>2. Reserves(c) /\ ws = EngineLayout(c)
  BY <1>1, PlacedReserves DEF Layout
<1>3. ClusterInv(c) /\ clusters[c].asked /\ size \in Nat \ {0} /\ Shape(c).gpus \in Int
  BY <1>2, JobTyped, ShapesTyped DEF SetupInv, Reserves
<1>4. ~ clusters[c].unified
  BY <1>3 DEF ClusterInv, Unified
<1>5. LaidOut(ws, size, pgs)
  BY <1>2, EngineLaidOut
<1>6. PICK n \in Nat : DOMAIN ws = 1..n /\ Apart(ws, n, size, pgs)
  BY <1>5 DEF LaidOut
<1>7. k \in 1..n /\ GpusAre("engine", ws, n, size, pgs)
  BY <1>6, GpusOfWorker
<1>8. \A i \in 1..Len(pgs) : OnOneNode(pgs[i])
  BY <1>2, <1>4, GroupsOnNodes
<1> DEFINE S == GpusOf("engine", ws[k])
           At(b) == GpuAt(pgs, ws[k].index, ws[k].bundles[b])
<1> HIDE DEF pgs
<1>9. S = {At(b) : b \in 1..size}
  BY <1>7, Zenon DEF GpusAre
<1>10. \E i \in 1..Len(pgs) : \A b \in 1..size : \E a \in 1..Len(pgs[i]) : At(b) = pgs[i][a]
  BY <1>6, <1>7, Zenon DEF Apart
<1> HIDE DEF At
<1>11. PICK i \in 1..Len(pgs) : \A b \in 1..size : \E a \in 1..Len(pgs[i]) : At(b) = pgs[i][a]
  BY <1>10
<1>12. PICK node : \A a \in 1..Len(pgs[i]) : pgs[i][a][1] = node
  BY <1>8 DEF OnOneNode
<1> HIDE DEF S, size
<1>13. \A gpu \in S : gpu[1] = node
  BY <1>9, <1>11, <1>12
<1>14. At(1) \in S
  BY <1>3, <1>9
<1>15. SameNode(S)
  BY <1>13, <1>14, OnSameNode
<1> QED BY <1>15 DEF S

\* The numbers of N below n.
RankIn(N, n) == Cardinality({m \in N : m < n})

\* The node of the k-th GPU is that of its block.
IsRow(N, G, q, k) == q[k][1] \in N /\ (k - 1) \div G = RankIn(N, q[k][1])

\* The GPUs of whole nodes in order: G of each node, node after node.
LEMMA RowsInOrder ==
  ASSUME NEW G \in Nat \ {0}, NEW N \in SUBSET Nat, IsFiniteSet(N), NEW S, S = N \X (1..G),
         NEW k \in 1..Len(InOrder(S))
  PROVE  IsRow(N, G, InOrder(S), k)
<1> DEFINE I == 1..G
           key == GpuKey(S, G)
           gpu == InOrder(S)[k]
           n == gpu[1]
           a == gpu[2]
<1>1. IsFiniteSet(I) /\ Cardinality(I) = G
  BY IntervalCounts
<1>2. IsFiniteSet(S) /\ S \in SUBSET Machine(G) /\ G \in Nat
  <2>1. IsFiniteSet(N \X I)
    <3> HIDE DEF I
    <3> QED BY <1>1, FS_Product
  <2> QED BY <2>1 DEF Machine
<1>3. IsOrderOf(InOrder(S), S, key)
  BY <1>2, GpusInOrder
<1>4. gpu \in S /\ Cardinality(Below(S, key, gpu)) = k - 1 /\ k \in Nat
  <2> DEFINE q == InOrder(S)
  <2>1. IsOrderOf(q, S, key) /\ k \in 1..Len(q)
    BY <1>3
  <2> HIDE DEF q, key
  <2>2. /\ q \in [1..Len(q) -> S] /\ Len(q) \in Nat
        /\ \A i \in 1..Len(q) : Cardinality(Below(S, key, q[i])) = i - 1
    BY ONLY <2>1, Zenon DEF IsOrderOf
  <2>3. q[k] \in S /\ Cardinality(Below(S, key, q[k])) = k - 1 /\ k \in Nat
    BY ONLY <2>1, <2>2
  <2> QED BY <2>3 DEF q
<1>5. gpu = <<n, a>> /\ n \in N /\ n \in Nat /\ a \in 1..G
  <2> HIDE DEF gpu
  <2>1. gpu \in N \X (1..G)
    BY <1>4
  <2>2. \A x \in N \X (1..G) : x = <<x[1], x[2]>> /\ x[1] \in N /\ x[2] \in 1..G
    OBVIOUS
  <2> QED BY <2>1, <2>2
<1>6. \A x, y \in S : key[x] < key[y] <=> Before(x, y)
  BY <1>2, BeforeByNumber
<1> HIDE DEF gpu, key
<1> DEFINE L == {m \in N : m < n}
           J == 1..(a - 1)
           B == Below(S, key, gpu)
           T == L \X I
           U == {n} \X J
<1>7. B = {x \in S : Before(x, gpu)}
  BY <1>4, <1>6 DEF Below
<1>8. B = T \cup U
  <2>1. ASSUME NEW x \in B PROVE x \in T \cup U
    <3>1. x \in S /\ Before(x, gpu) /\ x = <<x[1], x[2]>> /\ x[1] \in N /\ x[2] \in 1..G
          /\ x[1] \in Nat
      <4>1. x \in S /\ Before(x, gpu)
        BY <1>7
      <4>2. \A z \in N \X (1..G) : z = <<z[1], z[2]>> /\ z[1] \in N /\ z[2] \in 1..G
        OBVIOUS
      <4> QED BY <4>1, <4>2
    <3>2. x[1] < n \/ (x[1] = n /\ x[2] < a)
      BY <3>1 DEF Before
    <3>3. CASE x[1] < n
      BY <3>1, <3>3
    <3>4. CASE x[1] = n /\ x[2] < a
      <4>1. x[2] \in J
        BY <1>5, <3>1, <3>4
      <4> QED BY <3>1, <3>4, <4>1
    <3> QED BY <3>2, <3>3, <3>4
  <2>2. ASSUME NEW x \in T PROVE x \in B
    <3>1. x \in S /\ x[1] < n
      OBVIOUS
    <3> QED BY <1>7, <3>1 DEF Before
  <2>3. ASSUME NEW x \in U PROVE x \in B
    <3>1. x = <<n, x[2]>> /\ x[2] \in J
      OBVIOUS
    <3>2. x[2] \in 1..G /\ x[2] < a /\ x[1] = n
      BY <1>5, <3>1
    <3>3. x \in S /\ Before(x, gpu)
      BY <1>5, <3>1, <3>2 DEF Before
    <3> QED BY <1>7, <3>3
  <2> HIDE DEF B, T, U
  <2> QED BY <2>1, <2>2, <2>3
<1>9. T \cap U = {}
  <2>1. \A x \in T : x[1] < n
    OBVIOUS
  <2>2. \A x \in U : x[1] = n
    OBVIOUS
  <2> HIDE DEF T, U
  <2> QED BY <1>5, <2>1, <2>2
<1> DEFINE l == Cardinality(L)
<1>10. IsFiniteSet(L) /\ l \in Nat
  BY FS_Subset, FS_CardinalityType
<1>11. IsFiniteSet(T) /\ Cardinality(T) = l * G
  <2> HIDE DEF I, L
  <2> QED BY <1>1, <1>10, FS_Product
<1>12. IsFiniteSet(J) /\ Cardinality(J) = a - 1 /\ a - 1 \in 0..(G - 1)
  <2> DEFINE p == a - 1
  <2>1. p \in Nat /\ p \in 0..(G - 1)
    BY <1>5
  <2> HIDE DEF p
  <2>2. IsFiniteSet(1..p) /\ Cardinality(1..p) = p
    BY <2>1, IntervalCounts
  <2> QED BY <2>1, <2>2 DEF p
<1>13. IsFiniteSet(U) /\ Cardinality(U) = a - 1
  <2> HIDE DEF J
  <2>1. IsFiniteSet({n}) /\ Cardinality({n}) = 1
    BY FS_Singleton
  <2>2. IsFiniteSet({n} \X J) /\ Cardinality({n} \X J) = 1 * Cardinality(J)
    BY <1>12, <2>1, FS_Product
  <2> QED BY <1>12, <2>2
<1> HIDE DEF l, T, U, B
<1>14. k - 1 = l * G + (a - 1)
  <2>1. Cardinality(T \cup U) = Cardinality(T) + Cardinality(U) - Cardinality(T \cap U)
    BY <1>11, <1>13, FS_Union
  <2>2. Cardinality(T \cap U) = 0
    BY <1>9, FS_EmptySet
  <2>3. l * G \in Nat
    BY <1>10
  <2>4. Cardinality(B) = k - 1
    BY <1>4 DEF B
  <2> QED BY <1>8, <1>11, <1>12, <1>13, <2>1, <2>2, <2>3, <2>4
<1>15. (k - 1) \div G = l
  <2> DEFINE r == a - 1
  <2>1. r \in 0..(G - 1) /\ l \in Nat /\ G \in Nat \ {0} /\ k - 1 = l * G + r
    BY <1>10, <1>12, <1>14
  <2> HIDE DEF r
  <2> QED BY ONLY <2>1, DivisionOf
<1>16. l = RankIn(N, n)
  BY DEF RankIn, l
<1> QED BY <1>5, <1>15, <1>16 DEF gpu, IsRow

\* A number is higher if more are below it.
LEMMA RanksDiffer ==
  ASSUME NEW N \in SUBSET Nat, IsFiniteSet(N)
  PROVE  \A x, y \in N : RankIn(N, x) = RankIn(N, y) => x = y
<1> SUFFICES ASSUME NEW x \in N, NEW y \in N, RankIn(N, x) = RankIn(N, y)
             PROVE  x = y
  OBVIOUS
<1> DEFINE key == [n \in N |-> n]
<1>1. IsKey(N, key)
  BY DEF IsKey
<1>2. \A n \in N : RankIn(N, n) = Cardinality(Below(N, key, n))
  <2> TAKE n \in N
  <2>1. Below(N, key, n) = {m \in N : m < n}
    BY DEF Below
  <2> QED BY <2>1 DEF RankIn
<1>3. \A n, m \in N : key[n] < key[m] => RankIn(N, n) < RankIn(N, m)
  <2> HIDE DEF key
  <2>1. \A n, m \in N : key[n] < key[m] =>
          Cardinality(Below(N, key, n)) < Cardinality(Below(N, key, m))
    BY <1>1, PlacesAreTaken
  <2> QED BY <1>2, <2>1
<1>4. \A n \in N : RankIn(N, n) \in Nat
  <2> TAKE n \in N
  <2> DEFINE L == {m \in N : m < n}
  <2>1. IsFiniteSet(L) /\ Cardinality(L) \in Nat
    BY FS_Subset, FS_CardinalityType
  <2> QED BY <2>1 DEF RankIn
<1>5. ~ (x < y) /\ ~ (y < x)
  BY <1>3, <1>4
<1> QED BY <1>5

\* n workers, each on one GPU; those of a block of G are on one node.
BlocksOn(g, ws, n, G) ==
  /\ \A k \in 1..n : GpusOf(g, ws[k]) # {}
  /\ \A d \in Nat : \E node : \A k \in 1..n :
       (k - 1) \div G = d => \A gpu \in GpusOf(g, ws[k]) : gpu[1] = node

\* The GPU of a worker with one bundle.
LEMMA GpuOfBundle ==
  ASSUME NEW g, NEW c, c = ClusterOf(g), NEW index, NEW b,
         NEW w, w = [index |-> index, bundles |-> <<b>>]
  PROVE  GpusOf(g, w) = {GpuAt(clusters[c].pgs, index, b)}
<1>1. ToSet(w.bundles) = {b} /\ w.index = index
  BY DEF ToSet
<1>2. Gpu(c, index, b) = GpuAt(clusters[c].pgs, index, b)
  BY DEF Gpu, GpuAt
<1>3. GpusOf(g, w) = {Gpu(c, w.index, x) : x \in ToSet(w.bundles)}
  BY DEF GpusOf
<1> QED BY <1>1, <1>2, <1>3

\* Workers in the order of placement groups that are on a node each.
LEMMA AloneInBlocks ==
  ASSUME NEW g, NEW c, c = ClusterOf(g), NEW m \in Nat, NEW G \in Nat,
         AlikeGroups(clusters[c].pgs, m, G), \A i \in 1..m : OnOneNode(clusters[c].pgs[i]),
         NEW n, n = m * G
  PROVE  BlocksOn(g, Tied(n, G, 1), n, G)
<1> DEFINE pgs == clusters[c].pgs
           ws == Tied(n, G, 1)
<1>1. G \div 1 = G /\ 1 \in Nat \ {0} /\ 1 \in 1..1
  OBVIOUS
<1>2. ASSUME NEW k \in 1..n
      PROVE  \E i \in 1..m, a \in 1..G :
               i - 1 = (k - 1) \div G /\ GpusOf(g, ws[k]) = {pgs[i][a]}
  <2>1. HasPlace(ws[k], k, m, G, 1)
    BY <1>1, TiedPlace
  <2> HIDE DEF ws
  <2>2. PICK i \in 1..m, r \in 0..(G - 1) :
          /\ i - 1 = (k - 1) \div G
          /\ ws[k] = [index |-> i - 1, bundles |-> [b \in 1..1 |-> r * 1 + b - 1]]
    BY <2>1, Zenon DEF HasPlace
  <2> DEFINE a == r * 1 + 1
  <2>3. a = r + 1 /\ a - 1 = r /\ r \in Nat
    OBVIOUS
  <2>4. IsBundle(pgs, i, a, G)
    BY <1>1, TiedGpu
  <2>5. ws[k] = [index |-> i - 1, bundles |-> <<a - 1>>]
    <3>1. [b \in 1..1 |-> r * 1 + b - 1] = <<a - 1>>
      <4>1. \A b \in 1..1 : r * 1 + b - 1 = a - 1
        OBVIOUS
      <4> HIDE DEF a
      <4> QED BY <4>1
    <3> QED BY <2>2, <3>1
  <2> HIDE DEF a
  <2>6. a \in 1..G /\ GpuAt(pgs, i - 1, a - 1) = pgs[i][a]
    BY <2>4 DEF IsBundle
  <2>7. GpusOf(g, ws[k]) = {pgs[i][a]}
    BY <2>5, <2>6, GpuOfBundle
  <2> QED BY <2>2, <2>6, <2>7
<1>3. \A i \in 1..m : Len(pgs[i]) = G /\ OnOneNode(pgs[i])
  BY DEF AlikeGroups
<1> HIDE DEF pgs, ws
<1>4. \A k \in 1..n : GpusOf(g, ws[k]) # {}
  BY <1>2
<1>5. ASSUME NEW d \in Nat
      PROVE  \E node : \A k \in 1..n :
               (k - 1) \div G = d => \A gpu \in GpusOf(g, ws[k]) : gpu[1] = node
  <2>1. CASE d + 1 \in 1..m
    <3>1. PICK node : \A a \in 1..G : pgs[d + 1][a][1] = node
      <4>1. OnOneNode(pgs[d + 1]) /\ Len(pgs[d + 1]) = G
        BY <1>3, <2>1
      <4> QED BY <4>1, Zenon DEF OnOneNode
    <3>2. ASSUME NEW k \in 1..n, (k - 1) \div G = d
          PROVE  \A gpu \in GpusOf(g, ws[k]) : gpu[1] = node
      <4>1. PICK i \in 1..m, a \in 1..G : i - 1 = (k - 1) \div G /\ GpusOf(g, ws[k]) = {pgs[i][a]}
        BY <1>2
      <4>2. i = d + 1
        BY <3>2, <4>1
      <4> QED BY <3>1, <4>1, <4>2
    <3> QED BY <3>2
  <2>2. CASE d + 1 \notin 1..m
    <3>1. \A k \in 1..n : (k - 1) \div G # d
      <4> TAKE k \in 1..n
      <4>1. PICK i \in 1..m : i - 1 = (k - 1) \div G
        BY <1>2
      <4> DEFINE e == (k - 1) \div G
      <4>2. i - 1 = e
        BY <4>1
      <4> HIDE DEF e
      <4>3. e # d
        BY <2>2, <4>2
      <4> QED BY <4>3 DEF e
    <3> QED BY <3>1
  <2> QED BY <2>1, <2>2
<1>6. BlocksOn(g, ws, n, G)
  BY <1>4, <1>5 DEF BlocksOn
<1> QED BY <1>6 DEF ws

\* Workers in the order of the GPUs of a placement group that has whole nodes.
LEMMA SortedInBlocks ==
  ASSUME NEW g, NEW c, c = ClusterOf(g), NEW G \in Nat, NEW pg, pg = clusters[c].pgs[1],
         Len(clusters[c].pgs) = 1, pg \in Seq(Machine(G)), Distinct(pg), NEW h, NEW ws,
         ws = [i \in 1..Len(SortedBundles(pg)) |-> [index |-> (i - 1) \div h,
                                                    bundles |-> <<SortedBundles(pg)[i]>>]],
         \/ ToSet(pg) \subseteq (1..1) \X (1..G)
         \/ /\ h = G /\ G # 0
            /\ \E N \in SUBSET Nat : IsFiniteSet(N) /\ ToSet(pg) = N \X (1..G)
  PROVE  BlocksOn(g, ws, Len(pg), h)
<1> DEFINE S == ToSet(pg)
           t == SortedBundles(pg)
           q == InOrder(S)
           n == Len(pg)
<1>1. /\ IsFiniteSet(S) /\ Cardinality(S) = n /\ IsOrderOf(q, S, GpuKey(S, G)) /\ Len(t) = n
      /\ \A i \in 1..n : pg[t[i] + 1] = q[i]
  BY BundlesSorted
<1>2. Len(q) = n /\ q \in [1..n -> S]
  <2> HIDE DEF q, S, n
  <2>1. Len(q) = Cardinality(S) /\ q \in [1..Len(q) -> S]
    BY <1>1, Zenon DEF IsOrderOf
  <2> QED BY <1>1, <2>1
<1> HIDE DEF q, t, n, S
<1>3. \A k \in 1..n : GpusOf(g, ws[k]) = {q[k]} /\ q[k] \in S
  <2> TAKE k \in 1..n
  <2> DEFINE x == (k - 1) \div h
  <2>1. ws[k] = [index |-> x, bundles |-> <<t[k]>>]
    BY <1>1 DEF t
  <2> HIDE DEF x
  <2>2. GpuAt(clusters[c].pgs, x, t[k]) = pg[t[k] + 1]
    BY DEF GpuAt
  <2>3. GpusOf(g, ws[k]) = {GpuAt(clusters[c].pgs, x, t[k])}
    <3> DEFINE w == ws[k]
    <3>1. w = [index |-> x, bundles |-> <<t[k]>>]
      BY <2>1
    <3> HIDE DEF w
    <3>2. GpusOf(g, w) = {GpuAt(clusters[c].pgs, x, t[k])}
      BY <3>1, GpuOfBundle
    <3> QED BY <3>2 DEF w
  <2>4. q[k] \in S /\ pg[t[k] + 1] = q[k]
    <3>1. q[k] \in S
      BY ONLY <1>2, k \in 1..n
    <3> QED BY <1>1, <3>1
  <2> QED BY <2>2, <2>3, <2>4
<1>4. ASSUME NEW d \in Nat
      PROVE  \E node : \A k \in 1..n :
               (k - 1) \div h = d => \A gpu \in GpusOf(g, ws[k]) : gpu[1] = node
  <2>1. CASE S \subseteq (1..1) \X (1..G)
    <3>1. \A gpu \in (1..1) \X (1..G) : gpu[1] = 1
      OBVIOUS
    <3>2. \A k \in 1..n : q[k][1] = 1
      BY <1>3, <2>1, <3>1
    <3>3. \A k \in 1..n : \A gpu \in GpusOf(g, ws[k]) : gpu[1] = 1
      BY <1>3, <3>2
    <3> QED BY <3>3
  <2>2. CASE /\ h = G /\ G # 0
             /\ \E N \in SUBSET Nat : IsFiniteSet(N) /\ S = N \X (1..G)
    <3>1. PICK N \in SUBSET Nat : IsFiniteSet(N) /\ S = N \X (1..G)
      BY <2>2
    <3>2. G \in Nat \ {0}
      BY <2>2
    <3>3. \A k \in 1..n : q[k][1] \in N /\ (k - 1) \div G = RankIn(N, q[k][1])
      <4> TAKE k \in 1..n
      <4>1. k \in 1..Len(InOrder(S))
        BY <1>2 DEF q
      <4>2. IsRow(N, G, InOrder(S), k)
        BY ONLY <3>1, <3>2, <4>1, RowsInOrder
      <4> QED BY <4>2 DEF q, IsRow
    <3>4. ASSUME NEW k \in 1..n, NEW l \in 1..n, (k - 1) \div G = d, (l - 1) \div G = d
          PROVE  q[k][1] = q[l][1]
      <4>1. RankIn(N, q[k][1]) = RankIn(N, q[l][1])
        BY <3>3, <3>4
      <4>2. q[k][1] \in N /\ q[l][1] \in N
        BY <3>3
      <4>3. N \in SUBSET Nat /\ IsFiniteSet(N)
        BY <3>1
      <4>4. \A x, y \in N : RankIn(N, x) = RankIn(N, y) => x = y
        BY ONLY <4>3, RanksDiffer
      <4> QED BY ONLY <4>1, <4>2, <4>4, Zenon
    <3>5. CASE \E k \in 1..n : (k - 1) \div G = d
      <4>1. PICK k \in 1..n : (k - 1) \div G = d
        BY <3>5
      <4>2. \A l \in 1..n : (l - 1) \div G = d => q[l][1] = q[k][1]
        BY <3>4, <4>1
      <4>3. \A l \in 1..n : (l - 1) \div h = d => \A gpu \in GpusOf(g, ws[l]) : gpu[1] = q[k][1]
        BY <1>3, <2>2, <4>2
      <4> QED BY <4>3
    <3>6. CASE ~ \E k \in 1..n : (k - 1) \div G = d
      BY <2>2, <3>6
    <3> QED BY <3>5, <3>6
  <2> QED BY <2>1, <2>2 DEF S
<1>5. \A k \in 1..n : GpusOf(g, ws[k]) # {}
  BY <1>3
<1>6. BlocksOn(g, ws, n, h)
  BY <1>4, <1>5 DEF BlocksOn
<1> QED BY <1>6 DEF n

\* The workers of a model whose clusters take whole nodes.
LEMMA ModelInBlocks ==
  ASSUME SetupInv, NodesInv, NEW g \in {"teacher", "policy"}, Placed(g), WholeNodes
  PROVE  BlocksOn(g, groups[g].workers, WorldSize("train"), Shape("train").gpus)
<1> DEFINE c == "train"
           pgs == clusters[c].pgs
           G == job.gpus
           h == Shape(c).gpus
           W == WorldSize(c)
           ws == groups[g].workers
<1>1. g \in GroupNames /\ c = ClusterOf(g) /\ c \in ClusterNames
  BY DEF GroupNames, ClusterOf, ClusterNames
<1>2. Reserves(c) /\ ws = PolicyLayout(c)
  BY <1>1, PlacedReserves DEF Layout
<1>3. /\ G \in Nat \ {0} /\ GroupCount(c) \in Nat /\ GroupSize(c) \in Nat
      /\ W = GroupCount(c) * GroupSize(c) /\ AlikeGroups(pgs, GroupCount(c), GroupSize(c))
      /\ Len(pgs) = GroupCount(c)
      /\ MachineInv /\ ClusterInv(c) /\ clusters[c].asked
  BY <1>1, <1>2 DEF Reserves, DistinctGroups, AlikeGroups, SetupInv
<1>4. CASE clusters[c].unified
  <2> DEFINE pg == pgs[1]
             n == Len(pg)
  <2>1. Len(pgs) = 1
    BY <1>3, <1>4 DEF GroupCount
  <2>2. pg \in Seq(Machine(G)) /\ Distinct(pg) /\ n = W
    BY <1>2, <2>1, ReservesOne
  <2>3. ws = [i \in 1..Len(SortedBundles(pg)) |-> [index |-> (i - 1) \div h,
                                                   bundles |-> <<SortedBundles(pg)[i]>>]]
    BY <1>2, <1>4 DEF PolicyLayout
  <2>4. OnNodes(pg, job.nodes, G, WholeNodes /\ job.nodes # 1)
    <3>1. 1 \in 1..Len(clusters[c].pgs)
      BY <2>1
    <3> QED BY <1>1, <3>1 DEF NodesInv, AllOnNodes
  <2>5. \/ ToSet(pg) \subseteq (1..1) \X (1..G)
        \/ /\ h = G /\ G # 0
           /\ \E N \in SUBSET Nat : IsFiniteSet(N) /\ ToSet(pg) = N \X (1..G)
    <3>1. CASE job.nodes = 1
      BY <2>4, <3>1 DEF OnNodes
    <3>2. CASE job.nodes # 1
      <4>1. PICK N \in SUBSET Nat : ToSet(pg) = N \X (1..G)
        BY <2>4, <3>2 DEF OnNodes
      <4> DEFINE M == 1..job.nodes
      <4>2. N \subseteq M
        <5>1. ToSet(pg) \subseteq M \X (1..G)
          BY <2>4 DEF OnNodes
        <5>2. \A x \in N : <<x, 1>> \in N \X (1..G)
          BY <1>3
        <5>3. \A x, y : <<x, y>> \in M \X (1..G) => x \in M
          OBVIOUS
        <5> HIDE DEF M, pg
        <5>4. \A x \in N : x \in M
          <6> TAKE x \in N
          <6>1. <<x, 1>> \in ToSet(pg)
            BY <4>1, <5>2
          <6>2. <<x, 1>> \in M \X (1..G)
            BY <5>1, <6>1
          <6> QED BY <5>3, <6>2
        <5> QED BY <5>4
      <4>3. IsFiniteSet(M)
        <5>1. job.nodes \in Nat
          BY <1>3, JobTyped
        <5> QED BY <5>1, IntervalCounts
      <4>4. IsFiniteSet(N)
        BY <4>2, <4>3, FS_Subset
      <4>5. h = G
        BY <1>1, <1>3, <3>2, WholeShape
      <4> QED BY <1>3, <4>1, <4>4, <4>5
    <3> QED BY <3>1, <3>2
  <2> HIDE DEF c, h, G, ws, W
  <2>6. BlocksOn(g, ws, Len(pg), h)
    <3>1. G \in Nat
      BY <1>3
    <3> QED BY <1>1, <2>1, <2>2, <2>3, <2>5, <3>1, SortedInBlocks
  <2> QED BY <2>2, <2>6 DEF c, h, G, ws, W
<1>5. CASE ~ clusters[c].unified
  <2> DEFINE m == GroupCount(c)
  <2>1. GroupSize(c) = h /\ m \in Nat /\ h \in Nat
    BY <1>3, <1>5 DEF GroupSize
  <2>2. ws = PerBundle(pgs)
    BY <1>2, <1>5 DEF PolicyLayout
  <2>3. \A i \in 1..Len(pgs) : OnOneNode(pgs[i])
    BY <1>2, <1>5, GroupsOnNodes
  <2>4. AlikeGroups(pgs, m, h) /\ W = m * h /\ Len(pgs) = m
    BY <1>3, <2>1
  <2> HIDE DEF c, h, m, ws, W
  <2>5. ws = Tied(m * h, h, 1)
    BY <2>1, <2>2, <2>4, TiedAlone
  <2>6. BlocksOn(g, Tied(W, h, 1), W, h)
    BY <1>1, <2>1, <2>3, <2>4, AloneInBlocks
  <2> QED BY <2>4, <2>5, <2>6 DEF c, h, ws, W
<1> QED BY <1>4, <1>5

\* The tp workers after a are in block d.
InBlock(a, tp, n, G, d) == \A r \in 1..tp : a + r \in 1..n /\ ((a + r) - 1) \div G = d

\* Ranks of a multiple of tp are in one block if tp divides the block.
LEMMA RanksInBlock ==
  ASSUME NEW n \in Nat, NEW tp \in Nat \ {0}, NEW G \in Nat \ {0}, G % tp = 0,
         NEW k \in 0..(n \div tp - 1)
  PROVE  \E d \in Nat : InBlock(k * tp, tp, n, G, d)
<1> DEFINE e == G \div tp
           d == k \div e
           f == k % e
           x == n \div tp
<1>1. e \in Nat \ {0} /\ G = e * tp
  <2> DEFINE y == e * tp
  <2>1. e \in Nat /\ G = y + (G % tp)
    BY Division
  <2>2. y \in Nat
    BY <2>1
  <2> HIDE DEF y
  <2>3. G = y
    BY <2>1, <2>2
  <2>4. e # 0
    <3> SUFFICES ASSUME e = 0 PROVE FALSE
      OBVIOUS
    <3>1. y = 0 * tp
      BY DEF y
    <3> QED BY <2>3, <3>1
  <2> QED BY <2>1, <2>3, <2>4 DEF y
<1>2. x \in Nat /\ x * tp <= n /\ x * tp \in Nat
  <2>1. x \in Nat /\ n % tp \in 0..(tp - 1) /\ n = x * tp + (n % tp)
    BY Division
  <2>2. x * tp \in Nat
    BY <2>1
  <2> QED BY <2>1, <2>2
<1>3. k \in Nat /\ k + 1 <= x
  BY <1>2
<1> HIDE DEF e, x
<1>4. d \in Nat /\ f \in 0..(e - 1) /\ k = d * e + f
  BY <1>1, <1>3, Division
<1> HIDE DEF d, f
<1>5. k * tp = d * G + f * tp
  <2>1. f \in Nat /\ tp \in Nat /\ e \in Nat
    BY <1>1, <1>4
  <2>2. (d * e) * tp = d * (e * tp)
    BY <1>4, <2>1, Multiply
  <2>3. (d * e + f) * tp = (d * e) * tp + f * tp
    BY <1>4, <2>1
  <2> QED BY <1>1, <1>4, <2>2, <2>3
<1>6. (f + 1) * tp <= G /\ f * tp \in Nat /\ (f + 1) * tp = f * tp + tp
  <2>1. f \in Nat /\ f + 1 \in Nat /\ f + 1 <= e /\ tp \in Nat /\ e \in Nat
    BY <1>1, <1>4
  <2>2. (f + 1) * tp <= e * tp
    BY <2>1, MultiplyMonotonic
  <2> QED BY <1>1, <2>1, <2>2
<1>7. (k + 1) * tp <= x * tp /\ k * tp \in Nat /\ (k + 1) * tp = k * tp + tp
  <2>1. k + 1 \in Nat /\ tp \in Nat
    BY <1>3
  <2>2. (k + 1) * tp <= x * tp
    BY <1>2, <1>3, <2>1, MultiplyMonotonic
  <2> QED BY <1>3, <2>1, <2>2
<1> DEFINE a == k * tp
           b == f * tp
           p == x * tp
           q == d * G
<1>8. a \in Nat /\ b \in Nat /\ a = q + b /\ b + tp <= G /\ a + tp <= n /\ q \in Nat
  <2>1. a + tp <= p /\ p <= n /\ p \in Nat /\ a \in Nat
    BY <1>2, <1>7
  <2>2. b \in Nat /\ b + tp <= G
    BY <1>6
  <2>3. q \in Nat
    BY <1>4
  <2>4. a = q + b
    BY <1>5
  <2> HIDE DEF a, b, p, q
  <2> QED BY <2>1, <2>2, <2>3, <2>4
<1>9. ASSUME NEW r \in 1..tp PROVE a + r \in 1..n /\ ((a + r) - 1) \div G = d
  <2> HIDE DEF a, b, q
  <2> DEFINE s == b + r - 1
  <2>1. a + r \in 1..n /\ s \in 0..(G - 1) /\ (a + r) - 1 = q + s
    BY <1>8
  <2> HIDE DEF s
  <2>2. (d * G + s) \div G = d
    <3>1. d \in Nat /\ s \in 0..(G - 1) /\ G \in Nat \ {0}
      BY <1>4, <2>1
    <3> QED BY ONLY <3>1, DivisionOf
  <2> QED BY <2>1, <2>2 DEF q
<1>10. InBlock(a, tp, n, G, d)
  BY <1>9 DEF InBlock
<1> QED BY <1>4, <1>10

\* The tp workers after a are on one node.
OnNodeTogether(g, ws, a, tp) == SameNode(UNION {GpusOf(g, ws[a + r]) : r \in 1..tp})

\* The workers of ranks in one block are on one node.
LEMMA BlockOnNode ==
  ASSUME NEW g, NEW ws, NEW n \in Nat, NEW G \in Nat \ {0}, BlocksOn(g, ws, n, G),
         NEW tp \in Nat \ {0}, G % tp = 0, NEW k \in 0..(n \div tp - 1)
  PROVE  OnNodeTogether(g, ws, k * tp, tp)
<1> DEFINE a == k * tp
           S == UNION {GpusOf(g, ws[a + r]) : r \in 1..tp}
<1>0. PICK d \in Nat : InBlock(a, tp, n, G, d)
  BY RanksInBlock
<1>1. \A r \in 1..tp : a + r \in 1..n /\ ((a + r) - 1) \div G = d
  BY <1>0, Zenon DEF InBlock
<1> HIDE DEF a
<1>2. PICK node : \A l \in 1..n :
                    (l - 1) \div G = d => \A gpu \in GpusOf(g, ws[l]) : gpu[1] = node
  BY DEF BlocksOn
<1>3. \A r \in 1..tp : \A gpu \in GpusOf(g, ws[a + r]) : gpu[1] = node
  <2> TAKE r \in 1..tp
  <2>1. a + r \in 1..n /\ ((a + r) - 1) \div G = d
    BY <1>1
  <2>2. ASSUME NEW l, l = a + r PROVE \A gpu \in GpusOf(g, ws[l]) : gpu[1] = node
    <3>1. l \in 1..n /\ (l - 1) \div G = d
      BY <2>1, <2>2
    <3> QED BY <1>2, <3>1
  <2> QED BY <2>2
<1>4. \A gpu \in S : gpu[1] = node
  BY <1>3
<1>5. 1 \in 1..tp /\ GpusOf(g, ws[a + 1]) # {}
  <2>1. 1 \in 1..tp
    OBVIOUS
  <2>2. a + 1 \in 1..n
    BY <1>1, <2>1
  <2> QED BY <2>1, <2>2 DEF BlocksOn
<1>6. \E x : x \in S
  BY <1>5
<1> HIDE DEF S
<1>7. SameNode(S)
  BY <1>4, <1>6, OnSameNode
<1> QED BY <1>7 DEF S, a, OnNodeTogether

\* The tensor-parallel ranks of a model that fit on a node are on one.
LEMMA ModelOnNodes ==
  ASSUME SetupInv, NodesInv, NEW g \in {"teacher", "policy"}, Placed(g), WholeNodes,
         Shape("train").gpus % job.tp = 0, NEW k \in 0..(WorldSize("train") \div job.tp - 1)
  PROVE  SameNode(UNION {GpusOf(g, groups[g].workers[k * job.tp + r]) : r \in 1..job.tp})
<1> DEFINE n == WorldSize("train")
           G == Shape("train").gpus
           tp == job.tp
           ws == groups[g].workers
<1>1. BlocksOn(g, ws, n, G)
  BY ModelInBlocks
<1>2. tp \in Nat \ {0}
  BY JobTyped DEF SetupInv
<1>3. n \in Nat
  <2>1. g \in GroupNames /\ "train" = ClusterOf(g)
    BY DEF GroupNames, ClusterOf
  <2> QED BY <2>1, PlacedReserves DEF Reserves
<1>4. G \in Nat \ {0}
  <2>1. "train" \in ClusterNames /\ G \in Int
    BY ShapesTyped DEF SetupInv, ClusterNames
  <2>2. ~ SetupRefuses
    <3>1. g \in GroupNames /\ "train" = ClusterOf(g) /\ g # "reward"
      BY DEF GroupNames, ClusterOf
    <3>2. UsedBy(g)
      BY <3>1, PlacedReserves
    <3> QED BY <3>1, <3>2 DEF UsedBy
  <2>3. ~ (TrainShape.gpus <= 0) /\ Shape("train") = TrainShape
    BY <2>2 DEF SetupRefuses, Shape
  <2> QED BY <2>1, <2>3
<1>5. G % tp = 0 /\ k \in 0..(n \div tp - 1)
  OBVIOUS
<1> HIDE DEF n, G, tp, ws
<1>6. OnNodeTogether(g, ws, k * tp, tp)
  BY ONLY <1>1, <1>2, <1>3, <1>4, <1>5, BlockOnNode
<1> QED BY <1>6 DEF tp, ws, OnNodeTogether

\* No two workers of a group that is placed sit on one GPU.
LEMMA WorkersApart ==
  ASSUME SetupInv, NEW g \in GroupNames, Placed(g),
         NEW i \in DOMAIN groups[g].workers, NEW j \in DOMAIN groups[g].workers, i # j
  PROVE  GpusOf(g, groups[g].workers[i]) \cap GpusOf(g, groups[g].workers[j]) = {}
<1> DEFINE c == ClusterOf(g)
           ws == groups[g].workers
<1>1. Reserves(c) /\ ws = Layout(g)
  BY PlacedReserves
<1>2. \E size : LaidOut(ws, size, clusters[c].pgs)
  <2>1. CASE g = "engine"
    BY <1>1, <2>1, EngineLaidOut DEF Layout
  <2>2. CASE g # "engine"
    BY <1>1, <2>2, ModelLaidOut DEF Layout
  <2> QED BY <2>1, <2>2
<1> HIDE DEF ws
<1>3. GpusOf(g, ws[i]) \cap GpusOf(g, ws[j]) = {}
  BY <1>2, GpusApart DEF ws
<1> QED BY <1>3 DEF ws

\* The workers are where they should be.
LEMMA PlacementFollows ==
  ASSUME SetupInv, NodesInv
  PROVE  PlacementSound
<1>1. \A g \in GroupNames : Placed(g) =>
        LET ws == groups[g].workers
        IN  \A i, j \in DOMAIN ws : i # j => GpusOf(g, ws[i]) \cap GpusOf(g, ws[j]) = {}
  BY WorkersApart
<1>2. WholeNodes => \A g \in {"teacher", "policy"} :
        Placed(g) /\ Shape("train").gpus % job.tp = 0 =>
          \A k \in 0..(WorldSize("train") \div job.tp - 1) :
            SameNode(UNION {GpusOf(g, groups[g].workers[k * job.tp + r]) : r \in 1..job.tp})
  BY ModelOnNodes
<1>3. Placed("engine") =>
        LET ws == groups["engine"].workers
        IN  /\ WholeNodes /\ job.mp <= Shape(ClusterOf("engine")).gpus =>
                 \A i \in DOMAIN ws : SameNode(GpusOf("engine", ws[i]))
            /\ Len(ws) <= 1024 =>
                 \A i, j \in DOMAIN ws : i # j => Seed(ws[i]) # Seed(ws[j])
  <2> SUFFICES ASSUME Placed("engine")
               PROVE  LET ws == groups["engine"].workers
                      IN  /\ WholeNodes /\ job.mp <= Shape(ClusterOf("engine")).gpus =>
                               \A i \in DOMAIN ws : SameNode(GpusOf("engine", ws[i]))
                          /\ Len(ws) <= 1024 =>
                               \A i, j \in DOMAIN ws : i # j => Seed(ws[i]) # Seed(ws[j])
    OBVIOUS
  <2> DEFINE ws == groups["engine"].workers
             c == ClusterOf("engine")
  <2>1. WholeNodes /\ job.mp <= Shape(c).gpus =>
          \A i \in DOMAIN ws : SameNode(GpusOf("engine", ws[i]))
    BY EngineOnNode
  <2>2. "engine" \in GroupNames
    BY DEF GroupNames
  <2>3. Reserves(c) /\ ws = EngineLayout(c)
    BY <2>2, PlacedReserves DEF Layout
  <2>4. LaidOut(ws, job.mp, clusters[c].pgs) /\ SeedsDiffer(ws, Len(ws))
    BY <2>3, EngineLaidOut
  <2> HIDE DEF ws
  <2>5. Len(ws) <= 1024 => \A i, j \in DOMAIN ws : i # j => Seed(ws[i]) # Seed(ws[j])
    <3>1. PICK n \in Nat : DOMAIN ws = 1..n /\ Len(ws) = n
      BY <2>4 DEF LaidOut
    <3>2. n <= Stride => \A i, j \in 1..n : i # j => Seed(ws[i]) # Seed(ws[j])
      BY <2>4, <3>1 DEF SeedsDiffer
    <3> QED BY <3>1, <3>2 DEF Stride
  <2> QED BY <2>1, <2>5 DEF ws
<1>4. groups["engine"].at = "up" /\ Placed("policy") /\ job.colocated =>
        /\ GpusOfGroup("engine") \subseteq GpusOfGroup("policy")
        /\ WorldSize("train") % job.mp = 0 => GpusOfGroup("engine") = GpusOfGroup("policy")
  BY EngineOnPolicy
<1> QED BY <1>1, <1>2, <1>3, <1>4, Zenon DEF PlacementSound

\* In every job the workers of a group sit on different GPUs, ranks and engines that
\* fit on a node on one, engines sample with seeds of their own, and those that take
\* turns with the policy sit on its GPUs.
THEOREM PlacementIsSound == ProgramSpec => []PlacementSound
<1>1. SetupInv /\ NodesInv => PlacementSound
  BY PlacementFollows
<1> QED BY <1>1, SetupIsOrderly, NodesAreWhole, PTL

==============================================================================
