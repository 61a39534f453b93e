--------------------------- MODULE Stores_proofs ---------------------------
(***************************************************************************)
(* The two stores of a training job: the checkpoint directory, which       *)
(* outlives the process, and the lists of the replay buffer.               *)
(*                                                                         *)
(* For every number of steps, runs and rewinds, and whatever metrics are   *)
(* saved: a run that is killed between any two file system operations      *)
(* leaves a directory another run can resume from.                         *)
(*                                                                         *)
(* For every capacity, window and number of groups per sample: the three   *)
(* lists implement the set of labelled groups.                             *)
(*                                                                         *)
(* sample pops each list position by position, the highest first, so that  *)
(* no pop moves a position still to be popped.  What is left of a list of  *)
(* n entries is therefore told by one enumeration of the other positions,  *)
(* which depends on n and the positions alone (PoppedInOrder): the three   *)
(* lists, which have the same length, keep the same entries in the same    *)
(* order, and an entry keeps its labels.  The arrival numbers ascend along *)
(* the list (ListInv), so that they tell the entries apart, and the first  *)
(* of the intended positions are the oldest of the intended groups.        *)
(***************************************************************************)
EXTENDS Checkpoint, ReplayBufferLists, SequenceLemmas, FiniteSetTheorems,
        WellFoundedInduction, TLAPS

-----------------------------------------------------------------------------
(* The invariant.                                                          *)

Saving == {"info", "weights", "data", "finalize", "replace", "aside", "rank",
           "prune"}

Tmp == disk[<<"tmp", step>>]

TypeInv == TypeOK /\ (pc \in Saving => step \in Steps)

\* What the run has written so far.
Written ==
  /\ pc \in {"weights", "data", "finalize", "replace"} => Tmp.info = run
  /\ pc \in {"data", "finalize", "replace"} => Tmp.weights = run
  /\ pc \in {"finalize", "replace"} => Tmp.data = run
  /\ pc \in {"aside", "rank"} => Whole(disk[<<"step", step>>])

\* What is removed is never the latest step directory.
DoomedInv ==
  pc = "prune" => \A d \in doomed : \E t \in StepDirs \ doomed : t > d

\* LatestIsWhole, of a step with no later one.
Recoverable ==
  \A l \in StepDirs :
    (\A s \in StepDirs : s <= l) =>
      \/ Whole(disk[<<"step", l>>])
      \/ \E s \in Steps : s > l /\ Whole(disk[<<"old", s>>])

CrashInv == TypeInv /\ Written /\ DoomedInv /\ Recoverable /\ NothingLost

\* What ranking leaves, less what is still to be removed.
Kept == {c \in History : c.step \notin doomed}

KeptInv ==
  /\ pc = "prune" => Cardinality(Kept) <= KeepTopK + 1
  /\ pc = "pruned" => Cardinality(History) <= KeepTopK + 1

\* The directories that no save lists, ...
Stray ==
  {name \in Names :
     /\ disk[name].there
     /\ ~(\E s \in Steps : name = <<"step", s>> /\ disk[name].info # Missing)}

\* ... and those among them that are the business of what the run is doing.
InHand ==
  {name \in Names :
     \/ /\ pc \in {"info", "weights", "data", "finalize", "failed", "replace"}
        /\ name = <<"tmp", step>>
     \/ /\ pc \in {"replace", "aside"}
        /\ name = <<"old", step>>
     \/ /\ pc = "prune"
        /\ \E s \in doomed : name = <<"step", s>>}

\* A removal that has begun is that of the first of those still to be removed.
RemovalInv ==
  pc = "prune" =>
    \A s \in doomed :
      disk[<<"step", s>>].info = Missing =>
        \A t \in doomed \ {s} : Precedes(Entry(s), Entry(t))

RoomInv ==
  /\ KeptInv
  /\ RemovalInv
  /\ Cardinality(Stray \ InHand) <= 2 * (run - 1)

\* While no run has started below what it resumed from: steps only grow, ...
Growing ==
  /\ \A s \in Steps : ~ disk[<<"old", s>>].there
  /\ pc # "setup" => \A s \in StepDirs : s <= step
  /\ pc # "setup" => \A c \in saved : c.step <= step
  /\ pc \in {"info", "weights", "data", "finalize"} =>
       /\ step \notin StepDirs
       /\ \A c \in saved : c.step < step
  /\ pc \notin {"replace", "aside"}
\* ... and the checkpoints on disk are among those saved, the best among them.
Ranked ==
  /\ History \subseteq saved
  /\ \A c \in Top(saved, KeepTopK) :
       /\ c \in History
       /\ Whole(disk[<<"step", c.step>>])
       /\ pc = "prune" => c.step \notin doomed

BestInv ==
  /\ IsFiniteSet(saved)
  /\ \A c, d \in saved : c.step = d.step => c = d
  /\ rewinds = 0 => Growing /\ Ranked

-----------------------------------------------------------------------------
(* The greatest of a set of steps.                                         *)

\* The facts about the constants that the proofs use.
LEMMA Constants ==
  /\ KeepTopK \in Nat
  /\ UsesMetric \in BOOLEAN
  /\ HigherIsBetter \in BOOLEAN
  /\ Metrics \subseteq Nat
  /\ MaxStep \in Nat /\ MaxStep > 0
  /\ MaxRuns \in Nat /\ MaxRuns > 0
  /\ MaxRewinds \in Nat
BY CheckpointAssumption DEF CheckpointAssumption

\* A nonempty set of numbers up to a bound has a greatest element, which is
\* what Max chooses.
LEMMA Greatest ==
  ASSUME NEW S, NEW N \in Nat, S \subseteq 0..N, S # {}
  PROVE  Max(S) \in S /\ \A s \in S : s <= Max(S)
<1> DEFINE T == {t \in 0..N : N - t \in S}
<1>1. T \subseteq Nat /\ T # {}
  <2>1. PICK s \in S : TRUE
    OBVIOUS
  <2>2. N - s \in 0..N /\ N - (N - s) = s
    OBVIOUS
  <2> QED
    BY <2>1, <2>2
<1>2. IsWellFoundedOn(OpToRel(<, Nat), Nat)
  BY NatLessThanWellFounded
<1>3. \E t \in T : \A u \in T : <<u, t>> \notin OpToRel(<, Nat)
  <2> HIDE DEF T
  <2> QED
    BY <1>1, <1>2, WFMin
<1>4. PICK t \in T : \A u \in T : ~(u < t)
  <2> HIDE DEF T
  <2> QED
    BY <1>1, <1>3 DEF OpToRel
<1>5. N - t \in S /\ t \in 0..N
  OBVIOUS
<1>6. \A s \in S : N - t >= s
  <2> TAKE s \in S
  <2>1. N - s \in 0..N /\ N - (N - s) = s /\ s \in 0..N
    OBVIOUS
  <2>2. N - s \in T
    BY <2>1
  <2>3. ~(N - s < t)
    BY <1>4, <2>2
  <2> HIDE DEF T
  <2> QED
    BY <1>5, <2>1, <2>3
<1>7. \E x \in S : \A y \in S : x >= y
  BY <1>5, <1>6
<1> HIDE DEF T
<1>8. Max(S) \in S /\ \A s \in S : Max(S) >= s
  BY <1>7 DEF Max
<1> QED
  BY <1>8

-----------------------------------------------------------------------------
(* What the operations do to the directories.                              *)

\* Directories of steps and those set aside stay as they are.
StepsKept ==
  \A s \in Steps : /\ disk'[<<"step", s>>] = disk[<<"step", s>>]
                  /\ disk'[<<"old", s>>] = disk[<<"old", s>>]

DiskTyped ==
  /\ disk \in [Names -> Directory]
  /\ \A name \in Names : disk[name].there \/ disk[name] = NoDirectory

\* Writing a file changes the temporary directory alone, and only that file.
LEMMA WriteEffect ==
  ASSUME TypeInv, NEW file \in Files, NEW next, WriteFile(file, next),
         pc \in Saving
  PROVE  /\ DiskTyped'
         /\ StepsKept
         /\ \A name \in Names : name # <<"tmp", step>> => disk'[name] = disk[name]
         /\ \A f \in Files : Tmp'[f] = IF f = file THEN run ELSE Tmp[f]
<1> DEFINE t == <<"tmp", step>>
           d == [disk[t] EXCEPT !.there = TRUE, ![file] = run,
                                !.metric = IF file = "info" THEN metric ELSE @]
<1>1. /\ t \in Names /\ disk \in [Names -> Directory] /\ step \in Steps
      /\ run \in Content /\ metric \in Values
  BY Constants DEF TypeInv, TypeOK, Names, Content
<1>2. disk' = [disk EXCEPT ![t] = d]
  BY <1>1 DEF WriteFile
<1>3. d \in Directory /\ d.there
  BY <1>1 DEF Directory, Files
<1>4. \A f \in Files : d[f] = IF f = file THEN run ELSE disk[t][f]
  BY <1>1 DEF Directory, Files
<1> HIDE DEF d
<1>5. disk' \in [Names -> Directory] /\ disk'[t] = d
      /\ \A name \in Names : name # t => disk'[name] = disk[name]
  BY <1>1, <1>2, <1>3
<1>6. \A s \in Steps : /\ <<"step", s>> \in Names /\ <<"step", s>> # t
                       /\ <<"old", s>> \in Names /\ <<"old", s>> # t
  BY DEF Names
<1>7. step' = step
  BY DEF WriteFile
<1> QED
  BY <1>1, <1>3, <1>4, <1>5, <1>6, <1>7 DEF TypeInv, TypeOK, DiskTyped, StepsKept, Tmp

\* A rename moves a directory and leaves nothing behind.
LEMMA RenameEffect ==
  ASSUME TypeInv, step \in Steps,
         NEW from \in {"tmp", "step", "old"}, NEW to \in {"tmp", "step", "old"},
         from # to, disk' = Renamed(from, to), step' = step
  PROVE  /\ DiskTyped'
         /\ disk'[<<to, step>>] = disk[<<from, step>>]
         /\ disk'[<<from, step>>] = NoDirectory
         /\ \A name \in Names : name \notin {<<to, step>>, <<from, step>>} =>
              disk'[name] = disk[name]
<1> DEFINE f == <<from, step>>
           t == <<to, step>>
<1>1. f \in Names /\ t \in Names /\ f # t
  BY DEF Names
<1>2. DiskTyped
  BY DEF TypeInv, TypeOK, DiskTyped
<1>3. NoDirectory \in Directory
  BY Constants DEF NoDirectory, Directory, Content, Values, Missing, NoMetric
<1>4. disk' = [disk EXCEPT ![t] = disk[f], ![f] = NoDirectory]
  BY DEF Renamed
<1> HIDE DEF f, t
<1>5. /\ disk' \in [Names -> Directory]
      /\ disk'[t] = disk[f] /\ disk'[f] = NoDirectory
      /\ \A name \in Names : name \notin {t, f} => disk'[name] = disk[name]
  BY <1>1, <1>2, <1>3, <1>4 DEF DiskTyped
<1>6. \A name \in Names : disk'[name].there \/ disk'[name] = NoDirectory
  BY <1>1, <1>2, <1>5 DEF DiskTyped
<1> QED
  BY <1>5, <1>6 DEF DiskTyped, f, t

\* Removing goes file by file: what is left of a directory is what was there.
LEMMA RemoveEffect ==
  ASSUME TypeInv, NEW name \in Names, RemoveSome(name)
  PROVE  /\ DiskTyped'
         /\ \A other \in Names : other # name => disk'[other] = disk[other]
         /\ disk'[name].there => /\ disk[name].there
                                 /\ disk'[name].metric = disk[name].metric
         /\ disk'[name].info # Missing => disk[name].info # Missing
<1>1. DiskTyped
  BY DEF TypeInv, TypeOK, DiskTyped
<1>2. NoDirectory \in Directory /\ ~NoDirectory.there /\ NoDirectory.info = Missing
      /\ \A file \in Files : NoDirectory[file] = Missing
  BY Constants DEF NoDirectory, Directory, Content, Values, Missing, NoMetric, Files
<1>3. ASSUME NEW file \in Files, disk[name][file] # Missing,
             disk' = [disk EXCEPT ![name][file] = Missing]
      PROVE  /\ DiskTyped'
             /\ \A other \in Names : other # name => disk'[other] = disk[other]
             /\ disk[name].there /\ disk'[name].metric = disk[name].metric
             /\ disk'[name].info # Missing => disk[name].info # Missing
  <2> DEFINE d == [disk[name] EXCEPT ![file] = Missing]
  <2>1. disk[name].there
    BY <1>1, <1>2, <1>3 DEF DiskTyped
  <2>2. /\ d \in Directory /\ d.there /\ d.metric = disk[name].metric
        /\ d.info # Missing => disk[name].info # Missing
    BY <1>1, <2>1, Constants DEF Directory, Files, Content, Missing, DiskTyped
  <2>3. disk' = [disk EXCEPT ![name] = d]
    BY <1>3
  <2> HIDE DEF d
  <2>4. /\ disk' \in [Names -> Directory] /\ disk'[name] = d
        /\ \A other \in Names : other # name => disk'[other] = disk[other]
    BY <1>1, <2>2, <2>3 DEF DiskTyped
  <2> QED
    BY <1>1, <2>1, <2>2, <2>4 DEF DiskTyped
<1>4. ASSUME disk' = [disk EXCEPT ![name] = NoDirectory]
      PROVE  /\ DiskTyped'
             /\ \A other \in Names : other # name => disk'[other] = disk[other]
             /\ ~disk'[name].there /\ disk'[name].info = Missing
  BY <1>1, <1>2, <1>4 DEF DiskTyped
<1> QED
  BY <1>3, <1>4 DEF RemoveSome

\* A crash damages only the files of the temporary directory of the run that
\* crashes.
LEMMA CrashEffect ==
  ASSUME TypeInv, Crash
  PROVE  /\ DiskTyped' /\ StepsKept
         /\ \A name \in Names : name # <<"tmp", step>> => disk'[name] = disk[name]
<1>1. DiskTyped
  BY DEF TypeInv, TypeOK, DiskTyped
<1>2. CASE UNCHANGED disk
  BY <1>1, <1>2 DEF DiskTyped, StepsKept
<1>3. CASE /\ pc \in Files
           /\ disk' = [disk EXCEPT ![<<"tmp", step>>].there = TRUE,
                                   ![<<"tmp", step>>][pc] = Damaged]
  <2> DEFINE t == <<"tmp", step>>
             d == [disk[t] EXCEPT !.there = TRUE, ![pc] = Damaged]
  <2>1. step \in Steps /\ t \in Names
    BY <1>3 DEF TypeInv, Saving, Files, Names
  <2>2. d \in Directory /\ d.there
    <3>1. Damaged \in Content
      BY Constants DEF Damaged, Content
    <3>2. disk[t] \in Directory
      BY <1>1, <2>1 DEF DiskTyped
    <3> HIDE DEF t
    <3> QED
      BY <1>3, <3>1, <3>2 DEF Directory, Files
  <2>3. disk' = [disk EXCEPT ![t] = d]
    BY <1>1, <1>3, <2>1 DEF DiskTyped
  <2> HIDE DEF d
  <2>4. /\ disk' \in [Names -> Directory] /\ disk'[t] = d
        /\ \A name \in Names : name # t => disk'[name] = disk[name]
    BY <1>1, <2>1, <2>2, <2>3 DEF DiskTyped
  <2>5. \A s \in Steps : /\ <<"step", s>> \in Names /\ <<"step", s>> # t
                         /\ <<"old", s>> \in Names /\ <<"old", s>> # t
    BY DEF Names
  <2> QED
    BY <1>1, <2>2, <2>4, <2>5 DEF DiskTyped, StepsKept
<1> QED
  BY <1>2, <1>3 DEF Crash

-----------------------------------------------------------------------------
(* Types.                                                                  *)

\* The step a run resumes from is one whose directory has its final name.
LEMMA LatestStepDir ==
  /\ LatestStep \in StepDirs \cup {0} /\ LatestStep \in 0..MaxStep
  /\ \A s \in StepDirs : s <= LatestStep
<1>1. StepDirs \cup {0} \subseteq 0..MaxStep /\ StepDirs \cup {0} # {}
  BY Constants DEF StepDirs, Steps
<1> QED
  BY <1>1, Greatest, Constants DEF LatestStep

\* The steps that are ranked.
LEMMA HistorySteps ==
  /\ {c.step : c \in History} \subseteq StepDirs
  /\ \A c \in History : c = [step |-> c.step,
                             metric |-> disk[<<"step", c.step>>].metric]
  /\ StepDirs \subseteq Steps
<1>1. \A c \in History : \E s \in StepDirs :
        c = [step |-> s, metric |-> disk[<<"step", s>>].metric]
  BY DEF History, Entry
<1>2. \A c \in History :
        /\ c.step \in StepDirs
        /\ c = [step |-> c.step, metric |-> disk[<<"step", c.step>>].metric]
  <2> TAKE c \in History
  <2>1. PICK s \in StepDirs :
          c = [step |-> s, metric |-> disk[<<"step", s>>].metric]
    BY <1>1
  <2>2. c.step = s
    BY <2>1
  <2> QED
    BY <2>1, <2>2
<1> QED
  BY <1>2 DEF StepDirs

\* What is written, renamed or removed keeps its type.
LEMMA DirectoriesTyped ==
  ASSUME TypeInv,
         \/ InitTmpCheckpoint \/ SaveWeights \/ SaveDataloader
         \/ MoveNew \/ MoveAside \/ Replace \/ RemoveAside \/ Prune \/ Crash
  PROVE  DiskTyped'
<1>1. CASE InitTmpCheckpoint \/ SaveWeights \/ SaveDataloader
  <2>1. PICK file \in Files : \E next : WriteFile(file, next)
    BY <1>1 DEF InitTmpCheckpoint, SaveWeights, SaveDataloader, Files
  <2>2. pc \in Saving
    BY <2>1 DEF WriteFile, Files, Saving
  <2> QED
    BY <2>1, <2>2, WriteEffect
<1>2. CASE MoveNew \/ Replace
  <2>1. disk' = Renamed("tmp", "step") /\ step' = step /\ step \in Steps
    BY <1>2 DEF MoveNew, Replace, TypeInv, Saving
  <2> QED
    BY <2>1, RenameEffect
<1>3. CASE MoveAside
  <2>1. disk' = Renamed("step", "old") /\ step' = step /\ step \in Steps
    BY <1>3 DEF MoveAside, TypeInv, Saving
  <2> QED
    BY <2>1, RenameEffect
<1>4. CASE RemoveAside
  <2>1. <<"old", step>> \in Names /\ RemoveSome(<<"old", step>>)
    BY <1>4 DEF RemoveAside, TypeInv, Saving, Names
  <2> QED
    BY <2>1, RemoveEffect
<1>5. CASE Prune
  <2>1. PICK s \in doomed : RemoveSome(<<"step", s>>)
    BY <1>5 DEF Prune
  <2>2. <<"step", s>> \in Names
    BY DEF TypeInv, TypeOK, Names
  <2> QED
    BY <2>1, <2>2, RemoveEffect
<1>6. CASE Crash
  BY <1>6, CrashEffect
<1> QED
  BY <1>1, <1>2, <1>3, <1>4, <1>5, <1>6

\* The history of saved steps stays one of steps and metrics.
LEMMA SavedTyped ==
  ASSUME TypeInv, step \in Steps, RecordSaved
  PROVE  saved' \subseteq [step : Steps, metric : Values]
<1>1. disk[<<"tmp", step>>].metric \in Values
  BY DEF TypeInv, TypeOK, Names, Directory
<1> QED
  BY <1>1 DEF RecordSaved, TypeInv, TypeOK

\* Every step keeps the types.
LEMMA TypeStep == TypeInv /\ [Next]_vars => TypeInv'
<1> SUFFICES ASSUME TypeInv, [Next]_vars
             PROVE  TypeInv'
  OBVIOUS
<1>a. /\ run \in 1..MaxRuns /\ pc \in Pcs /\ step \in 0..MaxStep
      /\ metric \in Values /\ doomed \subseteq Steps
      /\ saved \subseteq [step : Steps, metric : Values]
      /\ rewinds \in 0..MaxRewinds
      /\ pc \in Saving => step \in Steps
  BY DEF TypeInv, TypeOK
<1>b. DiskTyped
  BY DEF DiskTyped, TypeInv, TypeOK
<1>c. ASSUME UNCHANGED disk
      PROVE  DiskTyped'
  BY <1>b, <1>c DEF DiskTyped
<1> SUFFICES /\ DiskTyped'
             /\ run' \in 1..MaxRuns /\ pc' \in Pcs /\ step' \in 0..MaxStep
             /\ metric' \in Values /\ doomed' \subseteq Steps
             /\ saved' \subseteq [step : Steps, metric : Values]
             /\ rewinds' \in 0..MaxRewinds
             /\ pc' \in Saving => step' \in Steps
  BY DEF TypeInv, TypeOK, DiskTyped
<1> USE Constants DEF Pcs, Saving
<1>1. CASE Resume
  <2>1. step' \in 0..MaxStep
    BY <1>1, LatestStepDir DEF Resume
  <2> QED
    BY <1>1, <1>a, <1>c, <2>1 DEF Resume
<1>2. CASE TrainStep
  BY <1>2, <1>a, <1>c DEF TrainStep, Steps
<1>3. CASE InitTmpCheckpoint \/ SaveWeights \/ SaveDataloader
  <2>1. DiskTyped'
    BY <1>3, DirectoriesTyped
  <2> QED
    BY <1>3, <1>a, <2>1
    DEF InitTmpCheckpoint, SaveWeights, SaveDataloader, WriteFile
<1>4. CASE MoveNew \/ Replace
  <2>1. DiskTyped'
    BY <1>4, DirectoriesTyped
  <2>2. saved' \subseteq [step : Steps, metric : Values]
    BY <1>4, <1>a, SavedTyped DEF MoveNew, Replace
  <2> QED
    BY <1>4, <1>a, <2>1, <2>2 DEF MoveNew, Replace
<1>5. CASE MoveAside \/ RemoveAside
  <2>1. DiskTyped'
    BY <1>5, DirectoriesTyped
  <2> QED
    BY <1>5, <1>a, <2>1 DEF MoveAside, RemoveAside
<1>6. CASE MoveAsideFails \/ AsideRemoved \/ Pruned
  BY <1>6, <1>a, <1>c DEF MoveAsideFails, AsideRemoved, Pruned
<1>7. CASE Rank
  <2>1. doomed' \subseteq Steps
    BY <1>7, HistorySteps DEF Rank
  <2> QED
    BY <1>7, <1>a, <1>c, <2>1 DEF Rank
<1>8. CASE Prune
  <2>1. DiskTyped'
    BY <1>8, DirectoriesTyped
  <2> QED
    BY <1>8, <1>a, <2>1 DEF Prune
<1>9. CASE Crash
  <2>1. DiskTyped'
    BY <1>9, DirectoriesTyped
  <2> QED
    BY <1>9, <1>a, <2>1 DEF Crash
<1>10. CASE UNCHANGED vars
  BY <1>10, <1>a, <1>c DEF vars
<1> QED
  BY <1>1, <1>2, <1>3, <1>4, <1>5, <1>6, <1>7, <1>8, <1>9, <1>10 DEF Next

\* The variables have their types at the start.
LEMMA TypeInit == Init => TypeInv
<1>1. NoDirectory \in Directory
  BY Constants DEF NoDirectory, Directory, Content, Values, Missing, NoMetric
<1> QED
  BY <1>1, Constants DEF Init, TypeInv, TypeOK, Pcs, Saving, Values

\* Every variable of Checkpoint keeps its type; a directory that is not there
\* has no files.
THEOREM CheckpointTypeCorrect == Spec => []TypeOK
<1>1. TypeInv => TypeOK
  BY DEF TypeInv
<1> QED
  BY <1>1, TypeInit, TypeStep, PTL DEF Spec

-----------------------------------------------------------------------------
(* What a crash may leave.                                                 *)

\* A whole checkpoint is in a directory that exists.
LEMMA WholeIsThere ==
  ASSUME TypeInv, NEW name \in Names, Whole(disk[name])
  PROVE  disk[name].there /\ disk[name].info # Missing
BY DEF TypeInv, TypeOK, Whole, NoDirectory, Missing

\* While the directories with final names are kept, so is all that depends on
\* them.
LEMMA SameSteps ==
  ASSUME TypeInv, StepsKept
  PROVE  /\ StepDirs' = StepDirs
         /\ History' = History
         /\ Recoverable => Recoverable'
         /\ NothingLost /\ UNCHANGED saved => NothingLost'
<1>1. StepDirs' = StepDirs
  BY DEF StepsKept, StepDirs
<1>2. History' = History
  <2>1. \A s \in StepDirs : disk'[<<"step", s>>] = disk[<<"step", s>>]
    BY DEF StepsKept, StepDirs
  <2>2. {t \in StepDirs : disk'[<<"step", t>>].info # Missing} =
          {t \in StepDirs : disk[<<"step", t>>].info # Missing}
    BY <2>1
  <2>3. History' = {[step |-> s, metric |-> disk'[<<"step", s>>].metric] :
                      s \in {t \in StepDirs : disk'[<<"step", t>>].info # Missing}}
    BY <1>1, Zenon DEF History, Entry
  <2> QED
    BY <2>1, <2>2, <2>3 DEF History, Entry
<1>a. \A s \in Steps :
        /\ Whole(disk'[<<"step", s>>]) <=> Whole(disk[<<"step", s>>])
        /\ Whole(disk'[<<"old", s>>]) <=> Whole(disk[<<"old", s>>])
  BY DEF StepsKept
<1>3. ASSUME Recoverable PROVE Recoverable'
  BY <1>1, <1>3, <1>a DEF Recoverable, StepDirs
<1>4. ASSUME NothingLost, UNCHANGED saved PROVE NothingLost'
  <2>2. ASSUME NEW c \in saved
        PROVE  \E s \in c.step .. MaxStep :
                 s \in StepDirs' \/ Whole(disk'[<<"old", s>>])
    <3>1. PICK s \in c.step .. MaxStep :
                 s \in StepDirs \/ Whole(disk[<<"old", s>>])
      BY <1>4, <2>2 DEF NothingLost
    <3>2. s \in Steps
      BY <2>2, <3>1, Constants DEF TypeInv, TypeOK, Steps
    <3> QED
      BY <1>1, <1>a, <3>1, <3>2
  <2> QED
    BY <1>4, <2>2 DEF NothingLost
<1> QED
  BY <1>1, <1>2, <1>3, <1>4

\* The directories of steps and those set aside, one by one.
LEMMA OtherNames ==
  \A s, t \in Steps :
    /\ <<"step", s>> \in Names /\ <<"old", s>> \in Names
    /\ <<"step", s>> \notin {<<"tmp", t>>, <<"old", t>>}
    /\ <<"old", s>> \notin {<<"tmp", t>>, <<"step", t>>}
    /\ s # t => <<"step", s>> # <<"step", t>> /\ <<"old", s>> # <<"old", t>>
BY DEF Names

\* A whole checkpoint gets its final name.
LEMMA InPlace ==
  ASSUME CrashInv, step \in Steps, step' = step, Whole(Tmp),
         disk' = Renamed("tmp", "step"), RecordSaved
  PROVE  /\ Whole(disk'[<<"step", step>>])
         /\ Recoverable' /\ NothingLost'
<1>1. TypeInv
  BY DEF CrashInv
<1>2. /\ DiskTyped'
      /\ disk'[<<"step", step>>] = Tmp
      /\ \A name \in Names : name \notin {<<"step", step>>, <<"tmp", step>>} =>
           disk'[name] = disk[name]
  BY <1>1, RenameEffect DEF Tmp
<1>3. /\ \A s \in Steps : s # step => disk'[<<"step", s>>] = disk[<<"step", s>>]
      /\ \A s \in Steps : disk'[<<"old", s>>] = disk[<<"old", s>>]
  BY <1>2, OtherNames
<1>4. Whole(disk'[<<"step", step>>])
  BY <1>2
<1>5. Tmp.there
  BY <1>1, WholeIsThere DEF Tmp, Names
<1>6. StepDirs' = StepDirs \cup {step}
  BY <1>2, <1>3, <1>5 DEF StepDirs
<1>7. Recoverable'
  <2>1. ASSUME NEW l \in StepDirs', \A s \in StepDirs' : s <= l, l # step
        PROVE  \/ Whole(disk'[<<"step", l>>])
               \/ \E s \in Steps : s > l /\ Whole(disk'[<<"old", s>>])
    <3>1. l \in StepDirs /\ \A s \in StepDirs : s <= l
      BY <1>6, <2>1
    <3>2. \/ Whole(disk[<<"step", l>>])
          \/ \E s \in Steps : s > l /\ Whole(disk[<<"old", s>>])
      BY <3>1 DEF CrashInv, Recoverable
    <3> QED
      BY <1>3, <2>1, <3>1, <3>2 DEF StepDirs
  <2> QED
    BY <1>4, <2>1 DEF Recoverable
<1>8. NothingLost'
  <2>1. ASSUME NEW c \in saved', c.step = step
        PROVE  \E s \in c.step .. MaxStep : s \in StepDirs'
    BY <1>6, <2>1, Constants DEF Steps
  <2>2. ASSUME NEW c \in saved', c.step # step
        PROVE  \E s \in c.step .. MaxStep :
                 s \in StepDirs' \/ Whole(disk'[<<"old", s>>])
    <3>1. c \in saved
      BY <2>2 DEF RecordSaved
    <3>2. PICK s \in c.step .. MaxStep :
                 s \in StepDirs \/ Whole(disk[<<"old", s>>])
      BY <3>1 DEF CrashInv, NothingLost
    <3>3. s \in Steps
      BY <1>1, <3>1, <3>2, Constants DEF TypeInv, TypeOK, Steps
    <3> QED
      BY <1>3, <1>6, <3>2, <3>3
  <2> QED
    BY <2>1, <2>2 DEF NothingLost
<1> QED
  BY <1>4, <1>7, <1>8

\* An existing checkpoint is set aside.
LEMMA SetAside ==
  ASSUME CrashInv, step \in Steps, step' = step, step \in StepDirs,
         ~Occupied(<<"old", step>>), disk' = Renamed("step", "old"),
         UNCHANGED saved
  PROVE  /\ disk'[<<"tmp", step>>] = Tmp
         /\ Recoverable' /\ NothingLost'
<1>1. TypeInv
  BY DEF CrashInv
<1>2. /\ DiskTyped'
      /\ disk'[<<"old", step>>] = disk[<<"step", step>>]
      /\ disk'[<<"step", step>>] = NoDirectory
      /\ \A name \in Names : name \notin {<<"old", step>>, <<"step", step>>} =>
           disk'[name] = disk[name]
  BY <1>1, RenameEffect
<1>3. \A s \in Steps : s # step =>
        /\ disk'[<<"step", s>>] = disk[<<"step", s>>]
        /\ disk'[<<"old", s>>] = disk[<<"old", s>>]
  BY <1>2, OtherNames
<1>4. disk'[<<"tmp", step>>] = Tmp
  BY <1>2 DEF Names, Tmp
<1>a. ~disk'[<<"step", step>>].there
  BY <1>2 DEF NoDirectory
<1>b. /\ Whole(disk'[<<"old", step>>]) <=> Whole(disk[<<"step", step>>])
      /\ \A s \in Steps : s # step =>
           /\ Whole(disk'[<<"step", s>>]) <=> Whole(disk[<<"step", s>>])
           /\ Whole(disk'[<<"old", s>>]) <=> Whole(disk[<<"old", s>>])
  BY <1>2, <1>3
<1>c. Steps \subseteq Nat /\ StepDirs \subseteq Steps
  BY DEF Steps, StepDirs
<1>d. ASSUME NEW s \in Steps, s > step, Whole(disk[<<"old", s>>])
      PROVE  Whole(disk'[<<"old", s>>])
  <2>1. s # step
    BY <1>c, <1>d
  <2> QED
    BY <1>b, <1>d, <2>1
<1>5. StepDirs' = StepDirs \ {step}
  BY <1>a, <1>3 DEF StepDirs
<1>6. Recoverable'
  <2> SUFFICES ASSUME NEW l \in StepDirs', \A s \in StepDirs' : s <= l
               PROVE  \/ Whole(disk'[<<"step", l>>])
                      \/ \E s \in Steps : s > l /\ Whole(disk'[<<"old", s>>])
    BY DEF Recoverable
  <2>1. l \in Steps /\ l \in StepDirs /\ l # step
    BY <1>5 DEF StepDirs
  <2>2. CASE l < step
    <3>1. \A s \in StepDirs : s <= step
      BY <1>5, <2>1, <2>2 DEF StepDirs, Steps
    <3>2. \/ Whole(disk[<<"step", step>>])
          \/ \E s \in Steps : s > step /\ Whole(disk[<<"old", s>>])
      BY <3>1 DEF CrashInv, Recoverable
    <3>3. \/ Whole(disk'[<<"old", step>>])
          \/ \E s \in Steps : s > step /\ Whole(disk'[<<"old", s>>])
      BY <1>c, <1>d, <1>b, <3>2, Zenon
    <3> QED
      BY <2>1, <2>2, <3>3 DEF Steps
  <2>3. CASE l > step
    <3>1. \A s \in StepDirs : s <= l
      BY <1>5, <2>1, <2>3 DEF Steps
    <3>2. \/ Whole(disk[<<"step", l>>])
          \/ \E s \in Steps : s > l /\ Whole(disk[<<"old", s>>])
      BY <2>1, <3>1 DEF CrashInv, Recoverable
    <3>3. CASE Whole(disk[<<"step", l>>])
      BY <1>b, <2>1, <3>3
    <3>4. CASE \E s \in Steps : s > l /\ Whole(disk[<<"old", s>>])
      <4>1. PICK s \in Steps : s > l /\ Whole(disk[<<"old", s>>])
        BY <3>4
      <4>2. s > step
        BY <1>c, <2>1, <2>3, <4>1
      <4> QED
        BY <1>d, <4>1, <4>2
    <3> QED
      BY <3>2, <3>3, <3>4
  <2> QED
    BY <2>1, <2>2, <2>3 DEF Steps
<1>7. NothingLost'
  <2> SUFFICES ASSUME NEW c \in saved
               PROVE  \E s \in c.step .. MaxStep :
                        s \in StepDirs' \/ Whole(disk'[<<"old", s>>])
    BY DEF NothingLost
  <2>1. PICK s \in c.step .. MaxStep : s \in StepDirs \/ Whole(disk[<<"old", s>>])
    BY DEF CrashInv, NothingLost
  <2>2. s \in Steps /\ c.step \in Steps
    BY <1>1, <2>1, Constants DEF TypeInv, TypeOK, Steps
  <2>3. CASE s # step
    BY <1>3, <1>5, <2>1, <2>2, <2>3
  <2>4. CASE s = step
    <3>1. CASE \E t \in StepDirs : t > step
      <4>1. PICK t \in StepDirs : t > step
        BY <3>1
      <4>2. t \in StepDirs' /\ t \in c.step .. MaxStep
        BY <1>5, <2>1, <2>2, <2>4, <4>1 DEF StepDirs, Steps
      <4> QED
        BY <4>2
    <3>2. CASE ~ \E t \in StepDirs : t > step
      <4>1. \A t \in StepDirs : t <= step
        BY <3>2 DEF StepDirs, Steps
      <4>2. \/ Whole(disk[<<"step", step>>])
            \/ \E t \in Steps : t > step /\ Whole(disk[<<"old", t>>])
        BY <4>1 DEF CrashInv, Recoverable
      <4>3. \E t \in Steps : t >= step /\ Whole(disk'[<<"old", t>>])
        <5>1. CASE Whole(disk[<<"step", step>>])
          BY <1>b, <1>c, <5>1
        <5>2. CASE \E t \in Steps : t > step /\ Whole(disk[<<"old", t>>])
          <6>1. PICK t \in Steps : t > step /\ Whole(disk[<<"old", t>>])
            BY <5>2
          <6>2. Whole(disk'[<<"old", t>>])
            BY <1>d, <6>1
          <6>3. t \in Nat /\ step \in Nat /\ t > step
            BY <1>c, <6>1
          <6>4. t >= step
            BY <6>3
          <6> QED
            BY <6>2, <6>4
        <5> QED
          BY <4>2, <5>1, <5>2
      <4> QED
        BY <2>2, <2>4, <2>1, <4>3 DEF Steps
    <3> QED
      BY <3>1, <3>2
  <2> QED
    BY <2>3, <2>4
<1> QED
  BY <1>4, <1>6, <1>7

\* What was set aside is removed once its successor is in place.
LEMMA AsideGoes ==
  ASSUME CrashInv, RemoveAside
  PROVE  /\ Whole(disk'[<<"step", step>>])
         /\ Recoverable' /\ NothingLost'
<1>1. TypeInv /\ step \in Steps /\ Whole(disk[<<"step", step>>])
  BY DEF CrashInv, Written, RemoveAside, TypeInv, Saving
<1>2. /\ \A s \in Steps : disk'[<<"step", s>>] = disk[<<"step", s>>]
      /\ \A s \in Steps : s # step => disk'[<<"old", s>>] = disk[<<"old", s>>]
  <2>1. \A other \in Names : other # <<"old", step>> => disk'[other] = disk[other]
    BY <1>1, OtherNames, RemoveEffect DEF RemoveAside
  <2> QED
    BY <1>1, <2>1, OtherNames
<1>3. StepDirs' = StepDirs
  BY <1>2 DEF StepDirs
<1>4. step \in StepDirs
  BY <1>1, WholeIsThere, OtherNames DEF StepDirs
<1>5. Steps \subseteq Nat /\ StepDirs \subseteq Steps
  BY DEF Steps, StepDirs
<1>6. /\ \A s \in Steps : Whole(disk'[<<"step", s>>]) <=> Whole(disk[<<"step", s>>])
      /\ \A s \in Steps : s # step =>
           (Whole(disk'[<<"old", s>>]) <=> Whole(disk[<<"old", s>>]))
  BY <1>2
<1>7. Recoverable'
  <2> SUFFICES ASSUME NEW l \in StepDirs, \A s \in StepDirs : s <= l
               PROVE  \/ Whole(disk'[<<"step", l>>])
                      \/ \E s \in Steps : s > l /\ Whole(disk'[<<"old", s>>])
    BY <1>3 DEF Recoverable
  <2>1. CASE Whole(disk[<<"step", l>>])
    BY <1>5, <1>6, <2>1
  <2>2. CASE \E s \in Steps : s > l /\ Whole(disk[<<"old", s>>])
    <3>1. PICK s \in Steps : s > l /\ Whole(disk[<<"old", s>>])
      BY <2>2
    <3>2. s # step
      BY <1>4, <1>5, <3>1
    <3> QED
      BY <1>6, <3>1, <3>2
  <2> QED
    BY <2>1, <2>2 DEF CrashInv, Recoverable
<1>8. NothingLost'
  <2> SUFFICES ASSUME NEW c \in saved
               PROVE  \E s \in c.step .. MaxStep :
                        s \in StepDirs' \/ Whole(disk'[<<"old", s>>])
    BY DEF NothingLost, RemoveAside
  <2>1. PICK s \in c.step .. MaxStep : s \in StepDirs \/ Whole(disk[<<"old", s>>])
    BY DEF CrashInv, NothingLost
  <2>2. s \in Steps
    BY <1>1, <2>1, Constants DEF TypeInv, TypeOK, Steps
  <2> QED
    BY <1>3, <1>4, <1>6, <2>1, <2>2
<1> QED
  BY <1>1, <1>6, <1>7, <1>8

\* Ranking spares the latest of the directories it ranks.
LEMMA RankSpares ==
  ASSUME CrashInv, Rank
  PROVE  \A d \in doomed' : \E t \in StepDirs \ doomed' : t > d
<1> DEFINE H == {c.step : c \in History}
<1>1. TypeInv /\ step \in Steps /\ Whole(disk[<<"step", step>>])
  BY DEF CrashInv, Written, Rank, TypeInv, Saving
<1>2. H # {} /\ H \subseteq StepDirs /\ H \subseteq 0..MaxStep
  <2>1. step \in StepDirs /\ disk[<<"step", step>>].info # Missing
    BY <1>1, WholeIsThere, OtherNames DEF StepDirs
  <2>2. [step |-> step, metric |-> disk[<<"step", step>>].metric] \in History
    BY <2>1 DEF History, Entry
  <2>3. H \subseteq StepDirs /\ StepDirs \subseteq Steps
    BY HistorySteps
  <2>4. Steps \subseteq 0..MaxStep
    BY Constants DEF Steps
  <2> QED
    BY <2>2, <2>3, <2>4
<1> HIDE DEF H
<1>3. Max(H) \in H /\ \A s \in H : s <= Max(H)
  BY <1>2, Greatest, Constants
<1>4. doomed' \subseteq H \ {Max(H)}
  <2>1. doomed' = {c.step : c \in History \ Top(History, KeepTopK)} \ {Max(H)}
    BY DEF Rank, H
  <2>2. {c.step : c \in History \ Top(History, KeepTopK)} \subseteq H
    BY DEF H
  <2> QED
    BY <2>1, <2>2
<1>5. \A d \in H : d \in Nat
  BY <1>2
<1>6. \A d \in doomed' : Max(H) > d
  BY <1>3, <1>4, <1>5
<1>7. Max(H) \in StepDirs \ doomed'
  BY <1>2, <1>3, <1>4
<1> QED
  BY <1>6, <1>7

\* Pruning spares it too.
LEMMA PruneEffect ==
  ASSUME CrashInv, Prune
  PROVE  /\ doomed' \subseteq doomed
         /\ StepDirs' \subseteq StepDirs
         /\ History' \subseteq History
         /\ StepDirs \ doomed \subseteq StepDirs'
         /\ \A s \in Steps \ doomed : disk'[<<"step", s>>] = disk[<<"step", s>>]
         /\ \A s \in Steps : disk'[<<"old", s>>] = disk[<<"old", s>>]
<1>1. PICK d \in doomed : /\ RemoveSome(<<"step", d>>)
                          /\ doomed' = {t \in doomed : disk'[<<"step", t>>].there}
  BY DEF Prune
<1>2. TypeInv /\ d \in Steps
  BY DEF CrashInv, TypeInv, TypeOK
<1>3. /\ \A other \in Names : other # <<"step", d>> => disk'[other] = disk[other]
      /\ disk'[<<"step", d>>].there =>
           /\ disk[<<"step", d>>].there
           /\ disk'[<<"step", d>>].metric = disk[<<"step", d>>].metric
      /\ disk'[<<"step", d>>].info # Missing => disk[<<"step", d>>].info # Missing
  BY <1>1, <1>2, OtherNames, RemoveEffect
<1>4. /\ \A s \in Steps : s # d => disk'[<<"step", s>>] = disk[<<"step", s>>]
      /\ \A s \in Steps : disk'[<<"old", s>>] = disk[<<"old", s>>]
  BY <1>2, <1>3, OtherNames
<1>5. \A s \in Steps : disk'[<<"step", s>>].there =>
        /\ disk[<<"step", s>>].there
        /\ disk'[<<"step", s>>].metric = disk[<<"step", s>>].metric
        /\ disk'[<<"step", s>>].info # Missing =>
             disk[<<"step", s>>].info # Missing
  BY <1>3, <1>4
<1>6. History' \subseteq History
  <2>1. \A s \in Steps :
          /\ s \in StepDirs <=> disk[<<"step", s>>].there
          /\ s \in StepDirs' <=> disk'[<<"step", s>>].there
    BY DEF StepDirs
  <2> SUFFICES ASSUME NEW s \in Steps, s \in StepDirs',
                      disk'[<<"step", s>>].info # Missing
               PROVE  [step |-> s, metric |-> disk'[<<"step", s>>].metric] \in History
    BY DEF History, Entry, StepDirs
  <2> QED
    BY <1>5, <2>1 DEF History, Entry
<1> QED
  BY <1>1, <1>3, <1>4, <1>6 DEF StepDirs

\* Pruning spares the latest step, so there is always one to resume from.
LEMMA PruneSpares ==
  ASSUME CrashInv, Prune
  PROVE  DoomedInv' /\ Recoverable' /\ NothingLost'
<1>1. /\ TypeInv /\ DoomedInv /\ pc = "prune"
      /\ \A d \in doomed : \E t \in StepDirs \ doomed : t > d
  BY DEF CrashInv, DoomedInv, Prune
<1>2. Steps \subseteq Nat /\ StepDirs \subseteq Steps /\ doomed \subseteq Steps
  BY <1>1 DEF Steps, StepDirs, TypeInv, TypeOK
<1>3. DoomedInv'
  BY <1>1, PruneEffect DEF DoomedInv
<1>4. /\ \A s \in Steps \ doomed :
           Whole(disk'[<<"step", s>>]) <=> Whole(disk[<<"step", s>>])
      /\ \A s \in Steps :
           Whole(disk'[<<"old", s>>]) <=> Whole(disk[<<"old", s>>])
  BY PruneEffect
<1>5. Recoverable'
  <2> SUFFICES ASSUME NEW l \in StepDirs', \A s \in StepDirs' : s <= l
               PROVE  \/ Whole(disk'[<<"step", l>>])
                      \/ \E s \in Steps : s > l /\ Whole(disk'[<<"old", s>>])
    BY DEF Recoverable
  <2>1. l \in StepDirs /\ StepDirs \ doomed \subseteq StepDirs'
    BY PruneEffect
  <2>2. \A s \in StepDirs : s <= l
    <3> TAKE s \in StepDirs
    <3>1. CASE s \notin doomed
      BY <2>1, <3>1
    <3>2. CASE s \in doomed
      <4>1. PICK t \in StepDirs \ doomed : t > s
        BY <1>1, <3>2
      <4>2. t <= l
        BY <2>1
      <4> QED
        BY <1>2, <2>1, <4>1, <4>2
    <3> QED
      BY <3>1, <3>2
  <2>3. l \notin doomed
    <3>1. SUFFICES ASSUME l \in doomed PROVE FALSE
      OBVIOUS
    <3>2. PICK t \in StepDirs \ doomed : t > l
      BY <1>1, <3>1
    <3> QED
      BY <1>2, <2>1, <2>2, <3>2
  <2>4. \/ Whole(disk[<<"step", l>>])
        \/ \E s \in Steps : s > l /\ Whole(disk[<<"old", s>>])
    BY <2>1, <2>2 DEF CrashInv, Recoverable
  <2> QED
    BY <1>2, <1>4, <2>1, <2>3, <2>4
<1>6. NothingLost'
  <2> SUFFICES ASSUME NEW c \in saved
               PROVE  \E s \in c.step .. MaxStep :
                        s \in StepDirs' \/ Whole(disk'[<<"old", s>>])
    BY DEF NothingLost, Prune
  <2>1. PICK s \in c.step .. MaxStep : s \in StepDirs \/ Whole(disk[<<"old", s>>])
    BY DEF CrashInv, NothingLost
  <2>2. s \in Steps /\ c.step \in Steps
    BY <1>1, <2>1, Constants DEF TypeInv, TypeOK, Steps
  <2>3. CASE s \in StepDirs /\ s \in doomed
    <3>1. PICK t \in StepDirs \ doomed : t > s
      BY <1>1, <2>3
    <3>2. t \in StepDirs' /\ t \in Steps
      BY <1>2, PruneEffect
    <3>3. t \in c.step .. MaxStep
      BY <2>1, <2>2, <3>1, <3>2 DEF Steps
    <3> QED
      BY <3>2, <3>3
  <2>4. CASE s \in StepDirs /\ s \notin doomed
    BY <2>4, PruneEffect
  <2>5. CASE Whole(disk[<<"old", s>>])
    BY <1>4, <2>2, <2>5
  <2> QED
    BY <2>1, <2>3, <2>4, <2>5
<1> QED
  BY <1>3, <1>5, <1>6

\* What does not touch the disk keeps the directories.
LEMMA SameDisk ==
  ASSUME UNCHANGED disk
  PROVE  StepsKept
BY DEF StepsKept

\* Every step keeps the invariant about crashes.
LEMMA CrashStep == CrashInv /\ [Next]_vars => CrashInv'
<1> SUFFICES ASSUME CrashInv, [Next]_vars
             PROVE  CrashInv'
  OBVIOUS
<1>0. TypeInv'
  BY TypeStep DEF CrashInv
<1>a. TypeInv /\ Written /\ DoomedInv /\ Recoverable /\ NothingLost
  BY DEF CrashInv
<1>b. pc \in {"finalize", "replace"} => Whole(Tmp)
  BY <1>a, Constants DEF Written, Whole, TypeInv, TypeOK
<1>c. ASSUME StepsKept, UNCHANGED saved
      PROVE  StepDirs' = StepDirs /\ Recoverable' /\ NothingLost'
  BY <1>a, <1>c, SameSteps
<1> SUFFICES Written' /\ DoomedInv' /\ Recoverable' /\ NothingLost'
  BY <1>0 DEF CrashInv
<1>1. CASE Resume \/ TrainStep \/ MoveAsideFails \/ Pruned
  <2>1. /\ UNCHANGED <<disk, saved>>
        /\ pc' \in {"train", "info", "failed", "pruned"}
    BY <1>1 DEF Resume, TrainStep, MoveAsideFails, Pruned
  <2> QED
    BY <1>c, <2>1, SameDisk DEF Written, DoomedInv
<1>2. CASE InitTmpCheckpoint \/ SaveWeights \/ SaveDataloader
  <2>1. PICK file \in Files : \E next : /\ WriteFile(file, next) /\ pc = file
                                        /\ pc' = next
    BY <1>2 DEF InitTmpCheckpoint, SaveWeights, SaveDataloader, Files, WriteFile
  <2>2. pc \in Saving
    BY <2>1 DEF Files, Saving
  <2>3. /\ StepsKept
        /\ \A f \in Files : Tmp'[f] = IF f = file THEN run ELSE Tmp[f]
    BY <1>a, <2>1, <2>2, WriteEffect
  <2>4. /\ \/ file = "info" /\ pc' = "weights"
           \/ file = "weights" /\ pc' = "data"
           \/ file = "data" /\ pc' = "finalize"
        /\ UNCHANGED <<run, saved>>
    BY <1>2, <2>1 DEF InitTmpCheckpoint, SaveWeights, SaveDataloader, WriteFile
  <2>5. /\ Tmp'.info = IF file = "info" THEN run ELSE Tmp.info
        /\ Tmp'.weights = IF file = "weights" THEN run ELSE Tmp.weights
        /\ Tmp'.data = IF file = "data" THEN run ELSE Tmp.data
    BY <2>3 DEF Files
  <2>6. Written'
    BY <1>a, <2>1, <2>4, <2>5 DEF Written
  <2>7. DoomedInv'
    BY <2>4 DEF DoomedInv
  <2> QED
    BY <1>c, <2>3, <2>4, <2>6, <2>7
<1>3. CASE MoveNew \/ Replace
  <2>1. /\ disk' = Renamed("tmp", "step") /\ step' = step /\ RecordSaved
        /\ pc' \in {"rank", "aside"} /\ pc \in {"finalize", "replace"}
    BY <1>3 DEF MoveNew, Replace
  <2>2. step \in Steps
    BY <1>a, <2>1 DEF TypeInv, Saving
  <2>3. Whole(disk'[<<"step", step>>]) /\ Recoverable' /\ NothingLost'
    BY <1>b, <2>1, <2>2, InPlace
  <2> QED
    BY <2>1, <2>3 DEF Written, DoomedInv
<1>4. CASE MoveAside
  <2>1. step \in Steps /\ step \in StepDirs
    BY <1>4, <1>a DEF MoveAside, TypeInv, Saving, StepDirs
  <2>2. disk'[<<"tmp", step>>] = Tmp /\ Recoverable' /\ NothingLost'
    BY <1>4, <2>1, SetAside DEF MoveAside
  <2>3. Written'
    BY <1>4, <1>a, <2>2 DEF MoveAside, Written, Tmp
  <2> QED
    BY <1>4, <2>2, <2>3 DEF MoveAside, DoomedInv
<1>5. CASE RemoveAside
  <2>1. Whole(disk'[<<"step", step>>]) /\ Recoverable' /\ NothingLost'
    BY <1>5, AsideGoes
  <2> QED
    BY <1>5, <2>1 DEF RemoveAside, Written, DoomedInv
<1>6. CASE AsideRemoved
  BY <1>6, <1>a, <1>c, SameDisk DEF AsideRemoved, Written, DoomedInv
<1>7. CASE Rank
  <2>1. \A d \in doomed' : \E t \in StepDirs \ doomed' : t > d
    BY <1>7, RankSpares
  <2>2. UNCHANGED <<disk, saved>> /\ pc' = "prune"
    BY <1>7 DEF Rank
  <2> QED
    BY <1>c, <2>1, <2>2, SameDisk DEF Written, DoomedInv
<1>8. CASE Prune
  BY <1>8, PruneSpares DEF Prune, Written
<1>9. CASE Crash
  <2>1. StepsKept /\ UNCHANGED saved /\ pc' = "setup"
    BY <1>9, <1>a, CrashEffect DEF Crash
  <2> QED
    BY <1>c, <2>1 DEF Written, DoomedInv
<1>10. CASE UNCHANGED vars
  <2>1. Written' /\ DoomedInv'
    BY <1>10, <1>a, <1>c, SameDisk DEF vars, Written, DoomedInv, Tmp
  <2> QED
    BY <1>10, <1>c, <2>1, SameDisk DEF vars
<1> QED
  BY <1>1, <1>2, <1>3, <1>4, <1>5, <1>6, <1>7, <1>8, <1>9, <1>10 DEF Next

\* It holds at the start.
LEMMA CrashInit == Init => CrashInv
<1> SUFFICES ASSUME Init
             PROVE  CrashInv
  OBVIOUS
<1>1. TypeInv
  BY TypeInit
<1>2. StepDirs = {}
  BY DEF Init, StepDirs, Names, NoDirectory
<1> QED
  BY <1>1, <1>2 DEF Init, CrashInv, Written, DoomedInv, Recoverable, NothingLost

\* Wherever runs are killed, the latest step directory is whole, unless a later
\* one has been set aside whole.
THEOREM LatestStaysWhole == Spec => []LatestIsWhole
<1>1. CrashInv => LatestIsWhole
  BY LatestStepDir DEF CrashInv, Recoverable, LatestIsWhole
<1> QED
  BY <1>1, CrashInit, CrashStep, PTL DEF Spec

\* Wherever runs are killed, the latest step there is, or one set aside whole,
\* is as high as any that was saved.
THEOREM NothingIsLost == Spec => []NothingLost
<1>1. CrashInv => NothingLost
  BY DEF CrashInv
<1> QED
  BY <1>1, CrashInit, CrashStep, PTL DEF Spec

-----------------------------------------------------------------------------
(* Ranking.                                                                *)

\* Checkpoints of distinct steps.
Ranking(C) ==
  /\ C \subseteq [step : Nat, metric : Int]
  /\ IsFiniteSet(C)
  /\ \A c, d \in C : c.step = d.step => c = d

Before(C, c) == {d \in C : Precedes(d, c)}

\* The order the checkpoints are ranked by is a strict total order.
LEMMA PrecedesOrders ==
  ASSUME NEW C, Ranking(C)
  PROVE  /\ \A c \in C : ~Precedes(c, c)
         /\ \A c, d \in C : c # d => Precedes(c, d) \/ Precedes(d, c)
         /\ \A c, d, e \in C : Precedes(c, d) /\ Precedes(d, e) => Precedes(c, e)
<1>1. \A c \in C : c.step \in Nat /\ c.metric \in Int
  BY DEF Ranking
<1>2. \A c, d \in C : c # d => c.step # d.step
  BY DEF Ranking
<1>3. NoMetric \in Int /\ HigherIsBetter \in BOOLEAN /\ UsesMetric \in BOOLEAN
  BY Constants DEF NoMetric
<1>4. \A c, d \in C : c # d => Precedes(c, d) \/ Precedes(d, c)
  BY <1>1, <1>2, <1>3 DEF Precedes, Better
<1>5. \A c, d, e \in C : Precedes(c, d) /\ Precedes(d, e) => Precedes(c, e)
  BY <1>1, <1>3 DEF Precedes, Better
<1>6. \A c \in C : ~Precedes(c, c)
  BY <1>1, <1>3 DEF Precedes, Better
<1> QED
  BY <1>4, <1>5, <1>6

\* Finitely many of them come before any one.
LEMMA BeforeFinite ==
  ASSUME NEW C, IsFiniteSet(C), NEW c
  PROVE  /\ IsFiniteSet(Before(C, c)) /\ Cardinality(Before(C, c)) \in Nat
         /\ Cardinality(Before(C, c)) <= Cardinality(C)
<1>1. Before(C, c) \in SUBSET C
  BY DEF Before
<1> QED
  BY <1>1, FS_Subset, FS_CardinalityType

\* The top k are at most k: the last of them has all others before it.
LEMMA TopSize ==
  ASSUME NEW C, Ranking(C), NEW k \in Nat
  PROVE  IsFiniteSet(Top(C, k)) /\ Cardinality(Top(C, k)) <= k
<1> DEFINE T == Top(C, k)
           N(c) == Cardinality(Before(C, c))
           S == {N(c) : c \in T}
<1>1. /\ T \subseteq C /\ IsFiniteSet(C) /\ IsFiniteSet(T)
      /\ \A c \in T : N(c) \in Nat /\ N(c) < k
  <2>1. T \in SUBSET C /\ IsFiniteSet(C)
    BY DEF Top, Ranking
  <2>2. \A c \in T : N(c) < k
    BY DEF Top, Before
  <2> QED
    BY <2>1, <2>2, FS_Subset, BeforeFinite
<1>2. CASE T = {}
  BY <1>2, FS_EmptySet
<1>3. CASE T # {}
  <2>1. S \subseteq 0..k /\ S # {}
    BY <1>1, <1>3
  <2>2. Max(S) \in S /\ \A s \in S : s <= Max(S)
    <3> HIDE DEF S
    <3> QED
      BY <2>1, Greatest
  <2>3. PICK c \in T : \A d \in T : N(d) <= N(c)
    BY <2>2
  <2> HIDE DEF T, S
  <2>4. \A d \in T \ {c} : Precedes(d, c)
    <3> SUFFICES ASSUME NEW d \in T, d # c, ~Precedes(d, c)
                 PROVE  FALSE
      OBVIOUS
    <3>1. c \in C /\ d \in C /\ Precedes(c, d)
      BY <1>1, PrecedesOrders
    <3>2. c \notin Before(C, c) /\ Before(C, c) \cup {c} \subseteq Before(C, d)
      BY <3>1, PrecedesOrders DEF Before
    <3>3. /\ IsFiniteSet(Before(C, c) \cup {c})
          /\ Cardinality(Before(C, c) \cup {c}) = N(c) + 1
      BY <1>1, <3>2, BeforeFinite, FS_AddElement
    <3>4. Cardinality(Before(C, c) \cup {c}) <= N(d)
      BY <1>1, <3>2, BeforeFinite, FS_Subset
    <3> QED
      BY <1>1, <2>3, <3>3, <3>4
  <2>5. T \ {c} \subseteq Before(C, c)
    BY <1>1, <2>4 DEF Before
  <2>6. Cardinality(T \ {c}) <= N(c)
    BY <1>1, <2>5, BeforeFinite, FS_Subset
  <2>7. Cardinality(T \ {c}) = Cardinality(T) - 1 /\ Cardinality(T) \in Nat
    BY <1>1, FS_RemoveElement, FS_CardinalityType
  <2>8. N(c) \in Nat /\ N(c) < k
    BY <1>1
  <2> HIDE DEF N
  <2>9. Cardinality(T) <= k
    BY <2>6, <2>7, <2>8
  <2> QED
    BY <1>1, <2>9 DEF T
<1> QED
  BY <1>2, <1>3

\* Who is at the top is there among fewer too.
LEMMA TopOfFewer ==
  ASSUME NEW C, IsFiniteSet(C), NEW D, D \subseteq C, NEW k \in Nat,
         NEW c \in Top(C, k), c \in D
  PROVE  c \in Top(D, k)
<1>1. Before(D, c) \in SUBSET Before(C, c)
  BY DEF Before
<1>2. Cardinality(Before(D, c)) <= Cardinality(Before(C, c))
  BY <1>1, BeforeFinite, FS_Subset
<1>3. Cardinality(Before(C, c)) < k
  BY DEF Top, Before
<1>4. IsFiniteSet(D)
  BY FS_Subset
<1>5. Cardinality(Before(C, c)) \in Nat /\ Cardinality(Before(D, c)) \in Nat
  BY <1>4, BeforeFinite
<1>6. Cardinality(Before(D, c)) < k
  BY <1>2, <1>3, <1>5
<1> QED
  BY <1>6 DEF Top, Before

\* The checkpoints in the directory can be ranked.
LEMMA HistoryRanking == TypeInv => Ranking(History)
<1> SUFFICES ASSUME TypeInv
             PROVE  Ranking(History)
  OBVIOUS
<1>1. \A c, d \in History : c.step = d.step => c = d
  BY HistorySteps
<1>2. \A c \in History : c.step \in Steps
  BY HistorySteps
<1>3. History \subseteq [step : Nat, metric : Int]
  <2> SUFFICES ASSUME NEW c \in History
               PROVE  c \in [step : Nat, metric : Int]
    OBVIOUS
  <2>1. <<"step", c.step>> \in Names
    BY <1>2 DEF Names
  <2>2. disk[<<"step", c.step>>].metric \in Values
    BY <2>1 DEF TypeInv, TypeOK, Directory
  <2>3. Values \subseteq Int /\ Steps \subseteq Nat
    BY Constants DEF Values, NoMetric, Steps
  <2>4. c = [step |-> c.step, metric |-> disk[<<"step", c.step>>].metric]
    BY HistorySteps
  <2> QED
    BY <1>2, <2>2, <2>3, <2>4
<1>4. IsFiniteSet(History)
  <2> DEFINE f == [c \in History |-> c.step]
  <2>1. f \in Injection(History, Steps)
    <3>1. f \in [History -> Steps]
      BY <1>2
    <3>2. \A c, d \in History : f[c] = f[d] => c = d
      BY <1>1
    <3> QED
      BY <3>1, <3>2 DEF Injection, IsInjective
  <2>2. IsFiniteSet(Steps)
    BY FS_Interval, Constants DEF Steps
  <2> QED
    BY <2>1, <2>2, FS_Injection
<1> QED
  BY <1>1, <1>3, <1>4 DEF Ranking

-----------------------------------------------------------------------------
(* How many checkpoints are kept.                                          *)

\* The ranking spares at most the top-k checkpoints and the latest one.
LEMMA RankRoom ==
  ASSUME TypeInv, Rank
  PROVE  Cardinality({c \in History : c.step \notin doomed'}) <= KeepTopK + 1
<1> DEFINE H == {c.step : c \in History}
           K == {c \in History : c.step \notin doomed'}
           T == Top(History, KeepTopK)
           L == {c \in History : c.step = Max(H)}
<1>1. Ranking(History)
  BY HistoryRanking
<1>2. doomed' = {c.step : c \in History \ T} \ {Max(H)}
  BY DEF Rank
<1>3. K \subseteq T \cup L
  <2> SUFFICES ASSUME NEW c \in K, c \notin T
               PROVE  c \in L
    OBVIOUS
  <2>1. c \in History /\ c.step \notin doomed'
    OBVIOUS
  <2> HIDE DEF T, H
  <2>2. c.step \in {d.step : d \in History \ T}
    BY <2>1
  <2> QED
    BY <1>2, <2>1, <2>2
<1>4. IsFiniteSet(T) /\ Cardinality(T) <= KeepTopK
  BY <1>1, TopSize, Constants
<1>5. \A c, d \in L : c = d
  BY <1>1 DEF Ranking
<1> HIDE DEF T, L, H, K
<1>6. IsFiniteSet(T \cup L) /\ Cardinality(T \cup L) <= KeepTopK + 1
  <2>1. Cardinality(T) \in Nat
    BY <1>4, FS_CardinalityType
  <2>2. CASE L = {}
    <3>1. T \cup L = T
      BY <2>2
    <3>2. Cardinality(T) <= KeepTopK + 1
      BY <1>4, <2>1, Constants
    <3> QED
      BY <1>4, <3>1, <3>2
  <2>3. CASE L # {}
    <3>1. PICK c \in L : TRUE
      BY <2>3
    <3>2. L = {c}
      BY <1>5, <3>1
    <3>3. /\ IsFiniteSet(T \cup {c})
          /\ Cardinality(T \cup {c}) =
               IF c \in T THEN Cardinality(T) ELSE Cardinality(T) + 1
      BY <1>4, FS_AddElement
    <3>4. Cardinality(T \cup {c}) <= KeepTopK + 1
      BY <1>4, <2>1, <3>3, Constants
    <3> QED
      BY <3>2, <3>3, <3>4
  <2> QED
    BY <2>2, <2>3
<1>7. Cardinality(K) <= Cardinality(T \cup L) /\ IsFiniteSet(K)
  BY <1>3, <1>6, FS_Subset
<1>8. Cardinality(K) \in Nat /\ Cardinality(T \cup L) \in Nat
  BY <1>6, <1>7, FS_CardinalityType
<1>9. Cardinality(K) <= KeepTopK + 1
  BY <1>6, <1>7, <1>8, Constants
<1> QED
  BY <1>9 DEF K

\* Every step keeps the bound on the checkpoints.
LEMMA KeptStep == CrashInv /\ KeptInv /\ [Next]_vars => KeptInv'
<1> SUFFICES ASSUME CrashInv, KeptInv, [Next]_vars
             PROVE  KeptInv'
  OBVIOUS
<1>a. TypeInv
  BY DEF CrashInv
<1>b. ASSUME UNCHANGED disk
      PROVE  History' = History
  BY <1>a, <1>b, SameDisk, SameSteps
<1>1. CASE Rank
  <2>1. Cardinality({c \in History : c.step \notin doomed'}) <= KeepTopK + 1
    BY <1>1, <1>a, RankRoom
  <2>2. History' = History /\ pc' = "prune"
    BY <1>1, <1>b DEF Rank
  <2> QED
    BY <2>1, <2>2 DEF KeptInv, Kept
<1>2. CASE Prune
  <2>1. Kept' \subseteq Kept
    <3> SUFFICES ASSUME NEW c \in History', c.step \notin doomed'
                 PROVE  c.step \notin doomed
      BY PruneEffect, <1>2 DEF Kept
    <3>1. c.step \in StepDirs'
      <4>1. PICK s \in StepDirs' :
              c = [step |-> s, metric |-> disk'[<<"step", s>>].metric]
        BY DEF History, Entry
      <4> QED
        BY <4>1
    <3> QED
      BY <1>2, <3>1 DEF Prune, StepDirs
  <2>2. IsFiniteSet(Kept)
    <3>1. IsFiniteSet(History) /\ Kept \in SUBSET History
      BY <1>a, HistoryRanking DEF Ranking, Kept
    <3> QED
      BY <3>1, FS_Subset
  <2>3. Cardinality(Kept') <= Cardinality(Kept)
    BY <2>1, <2>2, FS_Subset
  <2>4. Cardinality(Kept) \in Nat /\ Cardinality(Kept') \in Nat
    BY <2>1, <2>2, FS_Subset, FS_CardinalityType
  <2>5. pc = "prune" /\ pc' = "prune"
    BY <1>2 DEF Prune
  <2> QED
    BY <2>3, <2>4, <2>5, Constants DEF KeptInv
<1>3. CASE Pruned
  <2>1. pc = "prune" /\ doomed = {} /\ pc' = "pruned" /\ UNCHANGED disk
    BY <1>3 DEF Pruned
  <2>2. Kept = History
    BY <2>1 DEF Kept
  <2> QED
    BY <1>b, <2>1, <2>2 DEF KeptInv
<1>4. CASE UNCHANGED vars
  <2>1. History' = History /\ doomed' = doomed /\ pc' = pc
    BY <1>4, <1>b DEF vars
  <2> QED
    BY <2>1 DEF KeptInv, Kept
<1>5. CASE \/ Resume \/ TrainStep \/ InitTmpCheckpoint \/ SaveWeights
           \/ SaveDataloader \/ MoveNew \/ MoveAside \/ MoveAsideFails \/ Replace
           \/ RemoveAside \/ AsideRemoved \/ Crash
  <2>1. pc' \notin {"prune", "pruned"}
    BY <1>5 DEF Resume, TrainStep, InitTmpCheckpoint, SaveWeights, SaveDataloader,
       WriteFile, MoveNew, MoveAside, MoveAsideFails, Replace, RemoveAside,
       AsideRemoved, Crash
  <2> QED
    BY <2>1 DEF KeptInv
<1> QED
  BY <1>1, <1>2, <1>3, <1>4, <1>5 DEF Next

-----------------------------------------------------------------------------
(* What else is in the directory.                                          *)

\* Of two step directories only one precedes the other.
LEMMA ListedOrder ==
  ASSUME TypeInv, NEW s \in Steps, NEW t \in Steps,
         Precedes(Entry(s), Entry(t)), Precedes(Entry(t), Entry(s))
  PROVE  FALSE
<1>1. /\ disk[<<"step", s>>].metric \in Values /\ disk[<<"step", t>>].metric \in Values
      /\ s \in Int /\ t \in Int /\ Values \subseteq Int
  <2>1. <<"step", s>> \in Names /\ <<"step", t>> \in Names
    BY OtherNames
  <2>2. \A name \in Names : disk[name].metric \in Values
    BY DEF TypeInv, TypeOK, Directory
  <2>3. s \in Int /\ t \in Int
    BY DEF Steps
  <2>4. Values \subseteq Int
    BY Constants DEF Values, NoMetric
  <2> QED
    BY <2>1, <2>2, <2>3, <2>4
<1> DEFINE c == Entry(s)
           d == Entry(t)
<1>2. c.step \in Int /\ d.step \in Int /\ c.metric \in Int /\ d.metric \in Int
  BY <1>1 DEF Entry
<1>3. Precedes(c, d) /\ Precedes(d, c)
  OBVIOUS
<1> HIDE DEF c, d
<1> QED
  BY <1>2, <1>3, Constants DEF Precedes, Better, NoMetric

\* A directory that has not changed is as stray as it was.
LEMMA StraySame ==
  ASSUME NEW name \in Names, disk'[name] = disk[name]
  PROVE  name \in Stray' <=> name \in Stray
BY DEF Stray

\* A step directory with its training_info.json is listed.
LEMMA ListedIsNotStray ==
  ASSUME NEW s \in Steps, disk[<<"step", s>>].info # Missing
  PROVE  <<"step", s>> \notin Stray
BY DEF Stray

\* While a run goes on, nothing but what it has in hand becomes stray.
LEMMA StraysInHand ==
  ASSUME CrashInv, Next, ~Crash
  PROVE  Stray' \ InHand' \subseteq Stray \ InHand
<1> SUFFICES ASSUME NEW name \in Names, name \in Stray', name \notin InHand'
             PROVE  name \in Stray /\ name \notin InHand
  BY DEF Stray
<1>a. TypeInv /\ DiskTyped /\ disk'[name].there
  BY DEF CrashInv, TypeInv, TypeOK, DiskTyped, Stray
<1>b. ASSUME disk'[name] = disk[name]
      PROVE  name \in Stray
  BY <1>b, StraySame
<1>c. ~NoDirectory.there
  BY DEF NoDirectory
<1>1. CASE Resume \/ TrainStep \/ MoveAsideFails \/ Rank \/ Pruned
  <2>1. disk' = disk /\ name \in Stray
    BY <1>1, <1>b DEF Resume, TrainStep, MoveAsideFails, Rank, Pruned
  <2>2. CASE Resume \/ TrainStep \/ Rank
    BY <2>1, <2>2 DEF Resume, TrainStep, Rank, InHand
  <2>3. CASE MoveAsideFails
    BY <2>1, <2>3 DEF MoveAsideFails, InHand
  <2>4. CASE Pruned
    BY <2>1, <2>4 DEF Pruned, InHand
  <2> QED
    BY <1>1, <2>2, <2>3, <2>4
<1>2. CASE InitTmpCheckpoint \/ SaveWeights \/ SaveDataloader
  <2>1. PICK file \in Files : \E next : /\ WriteFile(file, next) /\ pc = file
                                        /\ pc' = next
    BY <1>2 DEF InitTmpCheckpoint, SaveWeights, SaveDataloader, Files, WriteFile
  <2>2. pc \in Files /\ pc' \in {"weights", "data", "finalize"} /\ step' = step
    BY <1>2 DEF InitTmpCheckpoint, SaveWeights, SaveDataloader, WriteFile, Files
  <2>3. name # <<"tmp", step>>
    BY <2>2 DEF InHand
  <2>4. disk'[name] = disk[name]
    BY <1>a, <2>1, <2>2, <2>3, WriteEffect DEF Saving, Files
  <2> QED
    BY <1>b, <2>2, <2>3, <2>4 DEF InHand, Files
<1>3. CASE MoveNew \/ Replace
  <2>1. /\ disk' = Renamed("tmp", "step") /\ step' = step /\ step \in Steps
        /\ Tmp.info = run /\ run > 0
    BY <1>3, <1>a, Constants DEF MoveNew, Replace, TypeInv, TypeOK, Saving, CrashInv, Written
  <2>2. /\ disk'[<<"step", step>>] = Tmp /\ disk'[<<"tmp", step>>] = NoDirectory
        /\ \A other \in Names : other \notin {<<"step", step>>, <<"tmp", step>>} =>
             disk'[other] = disk[other]
    BY <1>a, <2>1, RenameEffect DEF Tmp
  <2>3. disk'[<<"step", step>>].info # Missing
    BY <2>1, <2>2 DEF Missing, TypeInv, TypeOK
  <2>4. name \notin {<<"step", step>>, <<"tmp", step>>}
    BY <1>a, <1>c, <2>1, <2>2, <2>3 DEF Stray
  <2>5. name \in Stray
    BY <1>b, <2>2, <2>4
  <2>6. CASE MoveNew
    BY <2>4, <2>5, <2>6 DEF MoveNew, InHand
  <2>7. CASE Replace
    BY <2>4, <2>5, <2>7 DEF Replace, InHand
  <2> QED
    BY <1>3, <2>6, <2>7
<1>4. CASE MoveAside
  <2>1. /\ disk' = Renamed("step", "old") /\ step' = step /\ step \in Steps
        /\ pc = "finalize" /\ pc' = "replace"
    BY <1>4, <1>a DEF MoveAside, TypeInv, Saving
  <2>2. /\ disk'[<<"step", step>>] = NoDirectory
        /\ \A other \in Names : other \notin {<<"old", step>>, <<"step", step>>} =>
             disk'[other] = disk[other]
    BY <1>a, <2>1, RenameEffect
  <2>3. name \notin {<<"tmp", step>>, <<"old", step>>, <<"step", step>>}
    BY <1>a, <1>c, <2>1, <2>2 DEF InHand
  <2> QED
    BY <1>b, <2>1, <2>2, <2>3 DEF InHand
<1>5. CASE RemoveAside
  <2>1. /\ RemoveSome(<<"old", step>>) /\ <<"old", step>> \in Names
        /\ pc = "aside" /\ pc' = pc /\ step' = step
    BY <1>5, <1>a DEF RemoveAside, TypeInv, Saving, Names
  <2>2. name # <<"old", step>>
    BY <2>1 DEF InHand
  <2>3. disk'[name] = disk[name]
    BY <1>a, <2>1, <2>2, RemoveEffect
  <2> QED
    BY <1>b, <2>1, <2>2, <2>3 DEF InHand
<1>6. CASE AsideRemoved
  <2>1. disk' = disk /\ name # <<"old", step>> /\ pc = "aside"
    BY <1>6, <1>a DEF AsideRemoved
  <2> QED
    BY <1>b, <2>1 DEF InHand
<1>7. CASE Prune
  <2>1. PICK d \in doomed : /\ RemoveSome(<<"step", d>>)
                            /\ doomed' = {t \in doomed : disk'[<<"step", t>>].there}
    BY <1>7 DEF Prune
  <2>2. /\ <<"step", d>> \in Names /\ pc = "prune" /\ pc' = "prune"
        /\ \A other \in Names : other # <<"step", d>> => disk'[other] = disk[other]
    BY <1>7, <1>a, <2>1, OtherNames, RemoveEffect DEF Prune, TypeInv, TypeOK
  <2>3. \A t \in doomed : name # <<"step", t>>
    BY <1>a, <2>1, <2>2 DEF InHand
  <2> QED
    BY <1>b, <2>1, <2>2, <2>3 DEF InHand
<1> QED
  BY <1>1, <1>2, <1>3, <1>4, <1>5, <1>6, <1>7 DEF Next

\* A kill leaves at most two stray directories more.
LEMMA StraysOfACrash ==
  ASSUME CrashInv, RemovalInv, Crash
  PROVE  \E a, b : Stray' \subseteq (Stray \ InHand) \cup {a, b}
<1>1. TypeInv /\ Stray \subseteq Names /\ Stray' \subseteq Names
  BY DEF CrashInv, Stray
<1>2. CASE pc \in Files \cup {"finalize", "failed", "replace", "aside"}
  <2>1. Stray' \subseteq Stray \cup {<<"tmp", step>>}
    <3> SUFFICES ASSUME NEW name \in Names, name \in Stray', name # <<"tmp", step>>
                 PROVE  name \in Stray
      BY <1>1
    <3> QED
      BY <1>1, CrashEffect, StraySame
  <2>2. InHand \subseteq {<<"tmp", step>>, <<"old", step>>}
    BY <1>2 DEF InHand, Files
  <2>3. Stray' \subseteq (Stray \ InHand) \cup {<<"tmp", step>>, <<"old", step>>}
    BY <2>1, <2>2
  <2> QED
    BY <2>3
<1>3. CASE pc \notin Files
  <2>1. disk' = disk /\ Stray' = Stray
    BY <1>3 DEF Crash, Stray
  <2>2. CASE pc = "prune"
    <3>1. \A s, t \in doomed : <<"step", s>> \in Stray /\ <<"step", t>> \in Stray => s = t
      <4> SUFFICES ASSUME NEW s \in doomed, NEW t \in doomed, s # t,
                          <<"step", s>> \in Stray, <<"step", t>> \in Stray
                   PROVE  FALSE
        OBVIOUS
      <4>1. s \in Steps /\ t \in Steps
        BY <1>1 DEF TypeInv, TypeOK
      <4>2. disk[<<"step", s>>].info = Missing /\ disk[<<"step", t>>].info = Missing
        BY <4>1, ListedIsNotStray
      <4>3. Precedes(Entry(s), Entry(t)) /\ Precedes(Entry(t), Entry(s))
        BY <2>2, <4>2 DEF RemovalInv
      <4> QED
        BY <1>1, <4>1, <4>3, ListedOrder
    <3>2. InHand \subseteq {<<"step", s>> : s \in doomed}
      BY <2>2 DEF InHand
    <3>3. \E a : Stray \cap InHand \subseteq {a}
      BY <3>1, <3>2
    <3> QED
      BY <2>1, <3>3
  <2>3. CASE pc \notin {"prune", "finalize", "failed", "replace", "aside"}
    <3>1. InHand = {}
      BY <1>3, <2>3 DEF InHand, Files
    <3> QED
      BY <2>1, <3>1
  <2> QED
    BY <1>2, <2>2, <2>3
<1> QED
  BY <1>2, <1>3 DEF Files

\* Removals go one directory after the other.
LEMMA RemovalStep == CrashInv /\ RemovalInv /\ [Next]_vars => RemovalInv'
<1> SUFFICES ASSUME CrashInv, RemovalInv, [Next]_vars, pc' = "prune",
                    NEW u \in doomed', disk'[<<"step", u>>].info = Missing,
                    NEW t \in doomed' \ {u}
             PROVE  Precedes(Entry(u), Entry(t))'
  BY DEF RemovalInv
<1>a. TypeInv
  BY DEF CrashInv
<1>1. CASE Rank
  <2>1. \E c \in History : u = c.step
    BY <1>1 DEF Rank
  <2>2. PICK v \in Steps : u = v /\ disk[<<"step", v>>].info # Missing
    BY <2>1 DEF History, Entry, StepDirs
  <2> QED
    BY <1>1, <2>2 DEF Rank
<1>2. CASE Prune
  <2>1. PICK d \in doomed : /\ \A v \in doomed \ {d} : Precedes(Entry(d), Entry(v))
                            /\ RemoveSome(<<"step", d>>)
                            /\ doomed' = {v \in doomed : disk'[<<"step", v>>].there}
    BY <1>2 DEF Prune
  <2>2. /\ pc = "prune" /\ d \in Steps /\ u \in doomed /\ u \in Steps
        /\ t \in doomed /\ t \in Steps
    BY <1>2, <1>a, <2>1 DEF Prune, TypeInv, TypeOK
  <2>3. /\ \A s \in Steps : s # d => disk'[<<"step", s>>] = disk[<<"step", s>>]
        /\ disk'[<<"step", d>>].there =>
             disk'[<<"step", d>>].metric = disk[<<"step", d>>].metric
    BY <1>a, <2>1, <2>2, OtherNames, RemoveEffect
  <2>4. Entry(u)' = Entry(u) /\ Entry(t)' = Entry(t)
    BY <2>1, <2>2, <2>3 DEF Entry
  <2>5. Precedes(Entry(u), Entry(t))
    <3>1. CASE u = d
      BY <2>1, <2>2, <3>1
    <3>2. CASE u # d
      <4>1. disk[<<"step", u>>].info = Missing
        BY <2>2, <2>3, <3>2
      <4>2. Precedes(Entry(u), Entry(d)) /\ Precedes(Entry(d), Entry(u))
        BY <2>1, <2>2, <3>2, <4>1 DEF RemovalInv
      <4> QED
        BY <1>a, <2>2, <4>2, ListedOrder
    <3> QED
      BY <3>1, <3>2
  <2> HIDE DEF Entry
  <2> QED
    BY <2>4, <2>5 DEF Precedes, Better
<1>3. CASE UNCHANGED vars
  <2>1. Entry(u)' = Entry(u) /\ Entry(t)' = Entry(t)
    BY <1>3 DEF Entry, vars
  <2>2. Precedes(Entry(u), Entry(t))
    BY <1>3 DEF vars, RemovalInv
  <2> QED
    BY <2>1, <2>2 DEF Precedes, Better
<1>4. CASE \/ Resume \/ TrainStep \/ InitTmpCheckpoint \/ SaveWeights
           \/ SaveDataloader \/ MoveNew \/ MoveAside \/ MoveAsideFails \/ Replace
           \/ RemoveAside \/ AsideRemoved \/ Pruned \/ Crash
  BY <1>4 DEF Resume, TrainStep, InitTmpCheckpoint, SaveWeights, SaveDataloader,
     WriteFile, MoveNew, MoveAside, MoveAsideFails, Replace, RemoveAside,
     AsideRemoved, Pruned, Crash
<1> QED
  BY <1>1, <1>2, <1>3, <1>4 DEF Next

\* There are finitely many directories.
LEMMA NamesFinite == IsFiniteSet(Names)
<1>1. IsFiniteSet({"tmp", "step", "old"})
  <2>1. IsFiniteSet({"tmp"} \cup {"step"})
    BY FS_AddElement, FS_Singleton
  <2>2. IsFiniteSet(({"tmp"} \cup {"step"}) \cup {"old"})
    BY <2>1, FS_AddElement
  <2>3. ({"tmp"} \cup {"step"}) \cup {"old"} = {"tmp", "step", "old"}
    OBVIOUS
  <2> QED
    BY <2>2, <2>3
<1>2. IsFiniteSet(Steps)
  BY FS_Interval, Constants DEF Steps
<1> QED
  BY <1>1, <1>2, FS_Product DEF Names

\* Every run that is killed accounts for two stray directories at most.
LEMMA StraysStep ==
  ASSUME CrashInv, RemovalInv, [Next]_vars,
         Cardinality(Stray \ InHand) <= 2 * (run - 1)
  PROVE  Cardinality(Stray' \ InHand') <= 2 * (run' - 1)
<1> DEFINE S == Stray \ InHand
           T == Stray' \ InHand'
<1>1. IsFiniteSet(S) /\ Cardinality(S) \in Nat /\ run \in Nat
  <2>1. S \in SUBSET Names
    BY DEF Stray
  <2> HIDE DEF S
  <2> QED
    BY <2>1, NamesFinite, FS_Subset, FS_CardinalityType, Constants DEF CrashInv, TypeInv, TypeOK
<1>2. CASE T \subseteq S /\ run' = run
  <2> HIDE DEF S, T
  <2>1. IsFiniteSet(T) /\ Cardinality(T) <= Cardinality(S)
    BY <1>1, <1>2, FS_Subset
  <2>2. Cardinality(T) \in Nat
    BY <2>1, FS_CardinalityType
  <2>3. Cardinality(S) <= 2 * (run - 1)
    BY DEF S
  <2>4. Cardinality(T) <= 2 * (run' - 1)
    BY <1>1, <1>2, <2>1, <2>2, <2>3
  <2> QED
    BY <2>4 DEF T
<1>3. CASE Crash
  <2>1. PICK a, b : Stray' \subseteq S \cup {a, b}
    BY <1>3, StraysOfACrash
  <2>2. T \subseteq (S \cup {a}) \cup {b} /\ run' = run + 1
    BY <1>3, <2>1 DEF Crash
  <2>3. Cardinality(S) <= 2 * (run - 1)
    OBVIOUS
  <2> HIDE DEF S, T
  <2>4. /\ IsFiniteSet(S \cup {a})
        /\ Cardinality(S \cup {a}) = IF a \in S THEN Cardinality(S) ELSE Cardinality(S) + 1
    BY <1>1, FS_AddElement
  <2>5. /\ IsFiniteSet((S \cup {a}) \cup {b})
        /\ Cardinality((S \cup {a}) \cup {b}) =
             IF b \in S \cup {a} THEN Cardinality(S \cup {a}) ELSE Cardinality(S \cup {a}) + 1
    BY <2>4, FS_AddElement
  <2>6. IsFiniteSet(T) /\ Cardinality(T) <= Cardinality((S \cup {a}) \cup {b})
    BY <2>2, <2>5, FS_Subset
  <2>7. Cardinality(T) \in Nat
    BY <2>6, FS_CardinalityType
  <2>8. Cardinality(T) <= 2 * (run' - 1)
    BY <1>1, <2>2, <2>3, <2>4, <2>5, <2>6, <2>7
  <2> QED
    BY <2>8 DEF T
<1>4. CASE Next /\ ~Crash
  <2>1. run' = run
    BY <1>4 DEF Next, Resume, TrainStep, InitTmpCheckpoint, SaveWeights,
       SaveDataloader, WriteFile, MoveNew, MoveAside, MoveAsideFails, Replace,
       RemoveAside, AsideRemoved, Rank, Prune, Pruned
  <2> QED
    BY <1>2, <1>4, <2>1, StraysInHand
<1>5. CASE UNCHANGED vars
  <2>1. Stray' = Stray /\ InHand' = InHand /\ run' = run
    BY <1>5 DEF vars, Stray, InHand
  <2> QED
    BY <1>2, <2>1
<1> QED
  BY <1>3, <1>4, <1>5

\* After a save what is in the directory is listed or stray.
LEMMA RoomIsBounded ==
  ASSUME CrashInv, RoomInv
  PROVE  RoomBounded
<1> SUFFICES ASSUME pc = "pruned"
             PROVE  Cardinality({name \in Names : disk[name].there})
                      <= KeepTopK + 1 + 2 * (run - 1)
  BY DEF RoomBounded
<1> DEFINE D == {name \in Names : disk[name].there}
           f == [c \in History |-> <<"step", c.step>>]
           L == {f[c] : c \in History}
           S == Stray
<1>1. Cardinality(History) <= KeepTopK + 1 /\ Cardinality(S) <= 2 * (run - 1)
  <2>1. InHand = {}
    BY DEF InHand
  <2>2. S \ InHand = S
    BY <2>1
  <2> QED
    BY <2>2 DEF RoomInv, KeptInv
<1>2. D \subseteq L \cup S
  <2> SUFFICES ASSUME NEW name \in Names, disk[name].there, name \notin Stray
               PROVE  name \in L
    OBVIOUS
  <2>1. PICK s \in Steps : name = <<"step", s>> /\ disk[name].info # Missing
    BY DEF Stray
  <2>2. Entry(s) \in History /\ Entry(s).step = s
    BY <2>1 DEF History, Entry, StepDirs
  <2> QED
    BY <2>1, <2>2
<1>3. /\ IsFiniteSet(History) /\ Cardinality(History) \in Nat
      /\ IsFiniteSet(S) /\ Cardinality(S) \in Nat /\ run \in Nat
  <2>1. S \in SUBSET Names /\ IsFiniteSet(History) /\ run \in Nat
    BY HistoryRanking, Constants DEF CrashInv, TypeInv, TypeOK, Ranking, Stray
  <2> HIDE DEF S
  <2> QED
    BY <2>1, NamesFinite, FS_Subset, FS_CardinalityType
<1>4. IsFiniteSet(L) /\ Cardinality(L) <= Cardinality(History)
  <2>1. f \in Surjection(History, L)
    <3>1. f \in [History -> L] /\ \A y \in L : \E c \in History : f[c] = y
      OBVIOUS
    <3> HIDE DEF f, L
    <3> QED
      BY <3>1 DEF Surjection
  <2> HIDE DEF f, L
  <2> QED
    BY <1>3, <2>1, FS_Surjection
<1> HIDE DEF D, f, L, S
<1>5. /\ IsFiniteSet(L \cup S)
      /\ Cardinality(L \cup S) = Cardinality(L) + Cardinality(S) - Cardinality(L \cap S)
  BY <1>3, <1>4, FS_Union
<1>6. IsFiniteSet(D) /\ Cardinality(D) <= Cardinality(L \cup S)
  BY <1>2, <1>5, FS_Subset
<1>7. IsFiniteSet(L \cap S)
  BY <1>3, FS_Intersection
<1>8. /\ Cardinality(D) \in Nat /\ Cardinality(L) \in Nat
      /\ Cardinality(L \cap S) \in Nat
  BY <1>4, <1>6, <1>7, FS_CardinalityType
<1>9. Cardinality(D) <= KeepTopK + 1 + 2 * (run - 1)
  BY <1>1, <1>3, <1>4, <1>5, <1>6, <1>8, Constants
<1> QED
  BY <1>9 DEF D

\* Every step keeps the bound on the directory.
LEMMA RoomStep == CrashInv /\ RoomInv /\ [Next]_vars => RoomInv'
<1> SUFFICES ASSUME CrashInv, RoomInv, [Next]_vars
             PROVE  RoomInv'
  OBVIOUS
<1>1. /\ KeptInv /\ RemovalInv
      /\ Cardinality(Stray \ InHand) <= 2 * (run - 1)
  BY DEF RoomInv
<1>2. KeptInv' /\ RemovalInv'
  BY <1>1, KeptStep, RemovalStep
<1>3. Cardinality(Stray' \ InHand') <= 2 * (run' - 1)
  BY <1>1, StraysStep
<1> QED
  BY <1>2, <1>3 DEF RoomInv

\* It holds at the start, when there are no directories.
LEMMA RoomInit == Init => RoomInv
<1> SUFFICES ASSUME Init
             PROVE  RoomInv
  OBVIOUS
<1>1. Stray \ InHand = {}
  BY DEF Init, Stray, NoDirectory
<1>2. Cardinality(Stray \ InHand) = 0
  BY <1>1, FS_EmptySet
<1> QED
  BY <1>2 DEF Init, RoomInv, KeptInv, RemovalInv

\* After a save the directory holds at most one checkpoint more than keep_top_k
\* and at most two directories for every run that was killed, wherever the
\* writes, renames and removals of earlier runs were interrupted.
THEOREM RoomStaysBounded == Spec => []RoomBounded
<1>1. Init => CrashInv /\ RoomInv
  BY CrashInit, RoomInit
<1>2. CrashInv /\ RoomInv /\ [Next]_vars => (CrashInv /\ RoomInv)'
  BY CrashStep, RoomStep
<1>3. CrashInv /\ RoomInv => RoomBounded
  BY RoomIsBounded
<1> QED
  BY <1>1, <1>2, <1>3, PTL DEF Spec

-----------------------------------------------------------------------------
(* Which checkpoints are kept.                                             *)

\* The history of saved steps has one metric for each step, which is what the
\* ranking needs.
LEMMA SavedRanking == TypeInv /\ BestInv => Ranking(saved)
<1> SUFFICES ASSUME TypeInv, BestInv
             PROVE  Ranking(saved)
  OBVIOUS
<1>1. Values \subseteq Int /\ Steps \subseteq Nat
  BY Constants DEF Values, NoMetric, Steps
<1>2. saved \subseteq [step : Steps, metric : Values]
  BY DEF TypeInv, TypeOK
<1>3. saved \subseteq [step : Nat, metric : Int]
  BY <1>1, <1>2
<1> QED
  BY <1>3 DEF Ranking, BestInv

\* Saves leave at most one checkpoint of a step in the history.
LEMMA SavedOnce ==
  ASSUME BestInv, RecordSaved \/ UNCHANGED saved
  PROVE  IsFiniteSet(saved') /\ \A c, d \in saved' : c.step = d.step => c = d
<1>1. CASE UNCHANGED saved
  BY <1>1 DEF BestInv
<1>2. CASE RecordSaved
  <2> DEFINE new == [step |-> step, metric |-> disk[<<"tmp", step>>].metric]
             rest == {c \in saved : c.step # step}
  <2>1. saved' = rest \cup {new} /\ new.step = step
    BY <1>2 DEF RecordSaved
  <2>2. rest \in SUBSET saved
    OBVIOUS
  <2>3. IsFiniteSet(rest)
    BY <2>2, FS_Subset DEF BestInv
  <2>4. \A c \in rest : c.step # step
    OBVIOUS
  <2>5. \A c, d \in rest : c.step = d.step => c = d
    BY DEF BestInv
  <2> HIDE DEF new, rest
  <2>6. IsFiniteSet(saved')
    BY <2>1, <2>3, FS_AddElement
  <2> QED
    BY <2>1, <2>4, <2>5, <2>6
<1> QED
  BY <1>1, <1>2

\* Nothing that is ranked changes.
LEMMA BestSame ==
  ASSUME TypeInv, BestInv, StepsKept, UNCHANGED saved, rewinds = 0,
         pc' = "prune" => pc = "prune" /\ doomed' = doomed
  PROVE  Ranked'
<1>1. History' = History
  BY SameSteps
<1>2. Ranked
  BY DEF BestInv
<1>3. \A c \in Top(saved, KeepTopK) :
        disk'[<<"step", c.step>>] = disk[<<"step", c.step>>]
  <2>1. \A c \in saved : c.step \in Steps
    BY DEF TypeInv, TypeOK
  <2> QED
    BY <2>1 DEF StepsKept, Top
<1>4. Top(saved, KeepTopK)' = Top(saved, KeepTopK)
  BY DEF Top, Precedes, Better
<1>5. \A c \in Top(saved, KeepTopK) :
        Whole(disk'[<<"step", c.step>>]) <=> Whole(disk[<<"step", c.step>>])
  BY <1>3
<1> QED
  BY <1>1, <1>2, <1>4, <1>5 DEF Ranked

\* A new checkpoint joins the ranking.
LEMMA BestJoins ==
  ASSUME CrashInv, BestInv, MoveNew, rewinds = 0
  PROVE  Ranked' /\ Growing'
<1> DEFINE new == [step |-> step, metric |-> Tmp.metric]
<1>1. /\ TypeInv /\ Growing /\ Ranked /\ Ranking(saved) /\ step \in Steps
      /\ Whole(Tmp)
  BY SavedRanking, Constants
  DEF CrashInv, BestInv, MoveNew, TypeInv, TypeOK, Saving, Written, Whole
<1>2. /\ step \notin StepDirs /\ \A c \in saved : c.step < step
      /\ \A s \in StepDirs : s <= step
  BY <1>1 DEF Growing, MoveNew
<1>3. /\ \A c \in saved : c.step \in Steps
      /\ Steps \subseteq Nat
  BY <1>1 DEF TypeInv, TypeOK, Steps
<1>4. saved' = saved \cup {new}
  <2>0. \A c \in saved : c.step # step
    BY <1>1, <1>2, <1>3
  <2>1. {c \in saved : c.step # step} = saved
    BY <2>0
  <2> QED
    BY <2>1 DEF MoveNew, RecordSaved, Tmp
<1>5. /\ disk'[<<"step", step>>] = Tmp
      /\ \A s \in Steps : s # step => disk'[<<"step", s>>] = disk[<<"step", s>>]
      /\ \A s \in Steps : disk'[<<"old", s>>] = disk[<<"old", s>>]
  <2>1. disk' = Renamed("tmp", "step") /\ step' = step
    BY DEF MoveNew
  <2>2. /\ disk'[<<"step", step>>] = Tmp
        /\ \A name \in Names : name \notin {<<"step", step>>, <<"tmp", step>>} =>
             disk'[name] = disk[name]
    BY <1>1, <2>1, RenameEffect DEF Tmp
  <2> QED
    BY <1>1, <2>2, OtherNames
<1>6. Tmp.there /\ Tmp.info # Missing
  BY <1>1, WholeIsThere DEF Tmp, Names
<1>7. StepDirs' = StepDirs \cup {step}
  BY <1>1, <1>5, <1>6 DEF StepDirs
<1>8. History' = History \cup {new}
  <2> DEFINE A == {t \in StepDirs : disk[<<"step", t>>].info # Missing}
             R(s) == [step |-> s, metric |-> disk[<<"step", s>>].metric]
             Q(s) == [step |-> s, metric |-> disk'[<<"step", s>>].metric]
  <2>1. \A s \in StepDirs : disk'[<<"step", s>>] = disk[<<"step", s>>]
    BY <1>2, <1>5 DEF StepDirs
  <2>2. {t \in StepDirs' : disk'[<<"step", t>>].info # Missing} = A \cup {step}
    BY <1>5, <1>6, <1>7, <2>1
  <2>3. History' = {Q(s) : s \in A \cup {step}}
    BY <2>2 DEF History, Entry
  <2>4. History = {R(s) : s \in A}
    BY DEF History, Entry
  <2>5. Q(step) = new /\ \A s \in A : Q(s) = R(s)
    BY <1>5, <2>1
  <2> HIDE DEF A, Q, R, new
  <2> QED
    BY <2>3, <2>4, <2>5
<1>9. Growing'
  <2>1. /\ step' = step /\ pc' = "rank"
        /\ \A s \in Steps : ~ disk[<<"old", s>>].there
    BY <1>1 DEF MoveNew, Growing
  <2>2. \A s \in Steps : ~ disk'[<<"old", s>>].there
    BY <1>5, <2>1
  <2>3. \A s \in StepDirs' : s <= step
    BY <1>1, <1>2, <1>3, <1>7
  <2>4. \A c \in saved' : c.step <= step
    <3>1. new.step = step /\ step \in Nat /\ \A c \in saved : c.step \in Nat
      BY <1>1, <1>3
    <3> HIDE DEF new
    <3> QED
      BY <1>2, <1>4, <3>1
  <2> QED
    BY <2>1, <2>2, <2>3, <2>4 DEF Growing
<1>10. Ranked'
  <2>1. History' \subseteq saved'
    BY <1>1, <1>4, <1>8 DEF Ranked
  <2>2. Top(saved, KeepTopK)' = Top(saved', KeepTopK)
    BY DEF Top, Precedes, Better
  <2>3. ASSUME NEW c \in Top(saved', KeepTopK)
        PROVE  c \in History' /\ Whole(disk'[<<"step", c.step>>])
    <3>1. c \in saved'
      BY <2>3 DEF Top
    <3>2. CASE c = new
      BY <1>1, <1>5, <1>8, <3>2
    <3>3. CASE c # new
      <4>1. c \in saved
        BY <1>4, <3>1, <3>3
      <4>2. c \in Top(saved, KeepTopK)
        <5>1. IsFiniteSet(saved') /\ saved \subseteq saved'
          BY <1>4, SavedOnce DEF MoveNew
        <5> QED
          BY <2>3, <4>1, <5>1, TopOfFewer, Constants
      <4>3. c \in History /\ Whole(disk[<<"step", c.step>>])
        BY <1>1, <4>2 DEF Ranked
      <4>4. c.step # step /\ c.step \in Steps
        BY <1>1, <1>2, <1>3, <4>1
      <4> QED
        BY <1>5, <1>8, <4>3, <4>4
    <3> QED
      BY <3>2, <3>3
  <2>4. pc' = "rank"
    BY DEF MoveNew
  <2> QED
    BY <2>1, <2>2, <2>3, <2>4 DEF Ranked
<1> QED
  BY <1>9, <1>10

\* The best of all are the best of those that are left.
LEMMA RankKeepsBest ==
  ASSUME TypeInv, BestInv, Rank, rewinds = 0
  PROVE  \A c \in Top(saved, KeepTopK) : c.step \notin doomed'
<1>1. Ranked /\ Ranking(saved)
  BY SavedRanking DEF BestInv
<1> SUFFICES ASSUME NEW c \in Top(saved, KeepTopK), c.step \in doomed'
             PROVE  FALSE
  OBVIOUS
<1>2. c \in saved /\ c \in History /\ History \subseteq saved
  BY <1>1 DEF Ranked, Top
<1>3. c \in Top(History, KeepTopK)
  BY <1>1, <1>2, TopOfFewer, Constants DEF Ranking
<1>4. PICK d \in History \ Top(History, KeepTopK) : d.step = c.step
  BY DEF Rank
<1>5. d = c
  BY <1>1, <1>2, <1>4 DEF Ranking
<1> QED
  BY <1>3, <1>4, <1>5

\* Pruning removes nothing that is among the best.
LEMMA PruneKeepsBest ==
  ASSUME CrashInv, BestInv, Prune, rewinds = 0
  PROVE  Ranked'
<1>1. /\ Ranked /\ TypeInv /\ pc = "prune" /\ saved' = saved
  BY DEF CrashInv, BestInv, Prune
<1>2. /\ doomed' \subseteq doomed /\ History' \subseteq History
      /\ StepDirs \ doomed \subseteq StepDirs'
      /\ \A s \in Steps \ doomed : disk'[<<"step", s>>] = disk[<<"step", s>>]
  BY PruneEffect
<1>3. Top(saved, KeepTopK)' = Top(saved, KeepTopK)
  BY <1>1 DEF Top, Precedes, Better
<1>4. ASSUME NEW c \in Top(saved, KeepTopK)
      PROVE  /\ c \in History' /\ Whole(disk'[<<"step", c.step>>])
             /\ c.step \notin doomed'
  <2>1. /\ c \in History /\ c.step \notin doomed
        /\ Whole(disk[<<"step", c.step>>])
    BY <1>1, <1>4 DEF Ranked
  <2>2. /\ c.step \in StepDirs /\ c.step \in Steps
        /\ c = [step |-> c.step, metric |-> disk[<<"step", c.step>>].metric]
    BY <2>1, HistorySteps
  <2>3. disk'[<<"step", c.step>>] = disk[<<"step", c.step>>] /\ c.step \in StepDirs'
    BY <1>2, <2>1, <2>2
  <2>4. disk[<<"step", c.step>>].info # Missing
    BY <1>1, <2>1, <2>2, WholeIsThere, OtherNames
  <2>5. [step |-> c.step, metric |-> disk'[<<"step", c.step>>].metric] \in History'
    BY <2>3, <2>4 DEF History, Entry
  <2> QED
    BY <1>2, <2>1, <2>2, <2>3, <2>5
<1> QED
  BY <1>1, <1>2, <1>3, <1>4 DEF Ranked

\* As long as no run starts below what it resumed from, the steps of saves grow.
LEMMA GrowingStep ==
  ASSUME CrashInv, BestInv, Next, ~MoveNew, rewinds = 0, rewinds' = 0
  PROVE  Growing'
<1>1. /\ Growing /\ TypeInv /\ pc \notin {"replace", "aside"} /\ step \in Nat
      /\ \A c \in saved : c.step \in Nat
      /\ StepDirs \subseteq Nat
  BY Constants DEF BestInv, Growing, CrashInv, TypeInv, TypeOK, Steps, StepDirs
<1>2. ASSUME StepsKept
      PROVE  /\ StepDirs' = StepDirs
             /\ \A s \in Steps : ~ disk'[<<"old", s>>].there
  BY <1>1, <1>2, SameSteps DEF StepsKept, Growing
<1>3. CASE Resume
  <2>1. /\ step' = LatestStep /\ pc' = "train" /\ UNCHANGED <<disk, saved>>
    BY <1>3 DEF Resume
  <2>2. \A c \in saved : c.step <= LatestStep
    <3> TAKE c \in saved
    <3>1. PICK s \in c.step .. MaxStep : s \in StepDirs \/ Whole(disk[<<"old", s>>])
      BY DEF CrashInv, NothingLost
    <3>2. s \in Steps
      BY <1>1, <3>1, Constants DEF TypeInv, TypeOK, Steps
    <3>3. s \in StepDirs
      BY <1>1, <3>1, <3>2, WholeIsThere, OtherNames DEF Growing
    <3>4. s <= LatestStep /\ LatestStep \in Nat
      BY <3>3, LatestStepDir
    <3> QED
      BY <1>1, <3>1, <3>4
  <2>3. \A s \in StepDirs : s <= LatestStep
    BY LatestStepDir
  <2> QED
    BY <1>2, <2>1, <2>2, <2>3, SameDisk DEF Growing
<1>4. CASE TrainStep
  <2>1. /\ pc # "setup" /\ step' = step + 1 /\ pc' \in {"train", "info"}
        /\ UNCHANGED <<disk, saved>>
    BY <1>4 DEF TrainStep
  <2>2. StepDirs' = StepDirs /\ \A s \in Steps : ~ disk'[<<"old", s>>].there
    BY <1>2, <2>1, SameDisk
  <2>3. \A s \in StepDirs : s < step'
    BY <1>1, <2>1 DEF Growing
  <2>4. \A c \in saved : c.step < step'
    BY <1>1, <2>1 DEF Growing
  <2>5. step' \in Nat /\ step' \notin StepDirs
    BY <1>1, <2>1, <2>3
  <2>6. /\ \A s \in StepDirs : s <= step'
        /\ \A c \in saved : c.step <= step'
    BY <1>1, <2>3, <2>4, <2>5
  <2> QED
    BY <2>1, <2>2, <2>4, <2>5, <2>6 DEF Growing
<1>5. CASE InitTmpCheckpoint \/ SaveWeights \/ SaveDataloader
  <2>1. PICK file \in Files : \E next : WriteFile(file, next)
    BY <1>5 DEF InitTmpCheckpoint, SaveWeights, SaveDataloader, Files
  <2>2. pc \in Saving /\ UNCHANGED <<step, saved>>
    BY <2>1 DEF WriteFile, Files, Saving
  <2>3. StepsKept
    BY <1>1, <2>1, <2>2, WriteEffect
  <2>4. /\ pc \in {"info", "weights", "data"}
        /\ pc' \in {"weights", "data", "finalize"}
    BY <1>5 DEF InitTmpCheckpoint, SaveWeights, SaveDataloader, WriteFile
  <2> QED
    BY <1>1, <1>2, <2>2, <2>3, <2>4 DEF Growing
<1>6. CASE MoveAside \/ MoveAsideFails \/ Replace \/ RemoveAside \/ AsideRemoved
  <2>1. pc = "finalize" => step \in Steps
    BY <1>1 DEF TypeInv, Saving
  <2> QED
    BY <1>1, <1>6, <2>1 DEF MoveAside, MoveAsideFails, Replace, RemoveAside,
       AsideRemoved, Growing, StepDirs
<1>7. CASE Rank \/ Pruned
  <2>1. /\ UNCHANGED <<disk, step, saved>> /\ pc \in {"rank", "prune"}
        /\ pc' \in {"prune", "pruned"}
    BY <1>7 DEF Rank, Pruned
  <2> QED
    BY <1>1, <1>2, <2>1, SameDisk DEF Growing
<1>8. CASE Prune
  <2>1. /\ UNCHANGED <<step, saved>> /\ pc = "prune" /\ pc' = "prune"
    BY <1>8 DEF Prune
  <2>2. /\ StepDirs' \subseteq StepDirs
        /\ \A s \in Steps : disk'[<<"old", s>>] = disk[<<"old", s>>]
    BY <1>8, PruneEffect
  <2> QED
    BY <1>1, <2>1, <2>2 DEF Growing
<1>9. CASE Crash
  <2>1. StepsKept /\ pc' = "setup"
    BY <1>1, <1>9, CrashEffect DEF Crash
  <2> QED
    BY <1>2, <2>1 DEF Growing
<1> QED
  BY <1>3, <1>4, <1>5, <1>6, <1>7, <1>8, <1>9 DEF Next

\* Nor does any other step, as long as no run goes back to an earlier step.
LEMMA RankedStep ==
  ASSUME CrashInv, BestInv, Next, ~MoveNew, rewinds = 0, rewinds' = 0
  PROVE  Ranked'
<1>1. Growing /\ TypeInv /\ pc \notin {"replace", "aside"}
  BY DEF BestInv, Growing, CrashInv
<1>2. CASE Resume \/ TrainStep \/ Pruned
  <2>1. UNCHANGED <<disk, saved>> /\ pc' # "prune"
    BY <1>2 DEF Resume, TrainStep, Pruned
  <2> QED
    BY <1>1, <2>1, SameDisk, BestSame
<1>3. CASE InitTmpCheckpoint \/ SaveWeights \/ SaveDataloader
  <2>1. PICK file \in Files : \E next : WriteFile(file, next)
    BY <1>3 DEF InitTmpCheckpoint, SaveWeights, SaveDataloader, Files
  <2>2. pc \in Saving /\ UNCHANGED saved
    BY <2>1 DEF WriteFile, Files, Saving
  <2>3. StepsKept
    BY <1>1, <2>1, <2>2, WriteEffect
  <2>4. pc' # "prune"
    BY <1>3 DEF InitTmpCheckpoint, SaveWeights, SaveDataloader, WriteFile
  <2> QED
    BY <1>1, <2>2, <2>3, <2>4, BestSame
<1>4. CASE MoveAside \/ MoveAsideFails \/ Replace \/ RemoveAside \/ AsideRemoved
  <2>1. pc = "finalize" => step \in Steps
    BY <1>1 DEF TypeInv, Saving
  <2> QED
    BY <1>1, <1>4, <2>1 DEF MoveAside, MoveAsideFails, Replace, RemoveAside,
       AsideRemoved, Growing, StepDirs
<1>5. CASE Rank
  <2>1. /\ Ranked /\ UNCHANGED <<disk, saved>>
        /\ \A c \in Top(saved, KeepTopK) : c.step \notin doomed'
    BY <1>1, <1>5, RankKeepsBest DEF BestInv, Rank
  <2>2. /\ History' = History
        /\ Top(saved, KeepTopK)' = Top(saved, KeepTopK)
    BY <1>1, <2>1, SameDisk, SameSteps DEF Top, Precedes, Better
  <2> QED
    BY <2>1, <2>2 DEF Ranked
<1>6. CASE Prune
  BY <1>6, PruneKeepsBest
<1>7. CASE Crash
  <2>1. StepsKept /\ UNCHANGED saved /\ pc' # "prune"
    BY <1>1, <1>7, CrashEffect DEF Crash
  <2> QED
    BY <1>1, <2>1, BestSame
<1> QED
  BY <1>2, <1>3, <1>4, <1>5, <1>6, <1>7 DEF Next

\* Every step keeps the invariant about the best.
LEMMA BestStep == CrashInv /\ BestInv /\ [Next]_vars => BestInv'
<1> SUFFICES ASSUME CrashInv, BestInv, [Next]_vars
             PROVE  BestInv'
  OBVIOUS
<1>1. CASE UNCHANGED vars
  <2>1. StepsKept /\ StepDirs' = StepDirs
    BY <1>1, SameDisk, SameSteps DEF vars, CrashInv
  <2>2. rewinds = 0 => Growing'
    BY <1>1, <2>1 DEF vars, BestInv, Growing
  <2>3. rewinds = 0 => Ranked'
    BY <1>1, <2>1, BestSame DEF vars, CrashInv
  <2>4. IsFiniteSet(saved') /\ \A c, d \in saved' : c.step = d.step => c = d
    BY <1>1, SavedOnce DEF vars
  <2> QED
    BY <1>1, <2>2, <2>3, <2>4 DEF vars, BestInv
<1>2. CASE Next
  <2>1. RecordSaved \/ UNCHANGED saved
    BY <1>2 DEF Next, Resume, TrainStep, InitTmpCheckpoint, SaveWeights,
       SaveDataloader, WriteFile, MoveNew, MoveAside, MoveAsideFails, Replace,
       RemoveAside, AsideRemoved, Rank, Prune, Pruned, Crash
  <2>2. rewinds' = rewinds \/ rewinds' = rewinds + 1
    BY <1>2 DEF Next, Resume, TrainStep, InitTmpCheckpoint, SaveWeights,
       SaveDataloader, WriteFile, MoveNew, MoveAside, MoveAsideFails, Replace,
       RemoveAside, AsideRemoved, Rank, Prune, Pruned, Crash
  <2>3. rewinds' = 0 => rewinds = 0
    BY <2>2 DEF CrashInv, TypeInv, TypeOK
  <2>4. IsFiniteSet(saved') /\ \A c, d \in saved' : c.step = d.step => c = d
    BY <2>1, SavedOnce
  <2>5. rewinds' = 0 => Growing' /\ Ranked'
    <3>1. CASE MoveNew
      BY <2>3, <3>1, BestJoins
    <3>2. CASE ~MoveNew
      BY <1>2, <2>3, <3>2, GrowingStep, RankedStep
    <3> QED
      BY <3>1, <3>2
  <2> QED
    BY <2>4, <2>5 DEF BestInv
<1> QED
  BY <1>1, <1>2

\* It holds at the start.
LEMMA BestInit == Init => BestInv
<1> SUFFICES ASSUME Init
             PROVE  BestInv
  OBVIOUS
<1>1. /\ StepDirs = {}
      /\ \A s \in Steps : ~ disk[<<"old", s>>].there
  BY DEF Init, StepDirs, Names, NoDirectory
<1>2. History = {}
  BY <1>1 DEF History, Entry
<1>3. Top(saved, KeepTopK) = {}
  BY DEF Init, Top
<1> QED
  BY <1>1, <1>2, <1>3, FS_EmptySet DEF Init, BestInv, Growing, Ranked

\* The best keep_top_k checkpoints ever saved are on disk and whole, as long as
\* no run started below what it resumed from.
THEOREM BestAreKept == Spec => []BestKept
<1>1. Init => CrashInv /\ BestInv
  BY CrashInit, BestInit
<1>2. CrashInv /\ BestInv /\ [Next]_vars => (CrashInv /\ BestInv)'
  BY CrashStep, BestStep
<1>3. BestInv => BestKept
  BY DEF BestInv, Ranked, BestKept
<1> QED
  BY <1>1, <1>2, <1>3, PTL DEF Spec

-----------------------------------------------------------------------------
(* The lists of the replay buffer                                          *)

\* The lists have the same length and are in order of arrival.
ListInv ==
  /\ arrivals \in Nat /\ last_target_weight_already_generated \in Nat \cup {-1}
  /\ trajectories \in Seq(Nat) /\ trajectory_versions \in Seq(Nat)
  /\ target_weight_versions \in Seq(Nat)
  /\ Len(trajectory_versions) = Len(trajectories)
  /\ Len(target_weight_versions) = Len(trajectories)
  /\ \A i \in 1..Len(trajectories) : trajectories[i] <= arrivals
  /\ \A i, j \in 1..Len(trajectories) : i < j => trajectories[i] < trajectories[j]

\* The entries of a sequence.
LEMMA SeqEntries ==
  ASSUME NEW S, NEW s \in Seq(S)
  PROVE  /\ Len(s) \in Nat /\ DOMAIN s = 1..Len(s)
         /\ \A k \in 1..Len(s) : s[k] \in S
OBVIOUS

\* The entries of a sequence with an entry more.
LEMMA AppendEntries ==
  ASSUME NEW s \in Seq(Nat), NEW x \in Nat, NEW t, t = Append(s, x), NEW n, n = Len(s)
  PROVE  /\ t \in Seq(Nat) /\ Len(t) = n + 1 /\ t[n + 1] = x
         /\ \A k \in 1..n : t[k] = s[k]
<1>1. /\ Append(s, x) \in Seq(Nat) /\ Len(Append(s, x)) = Len(s) + 1
      /\ Append(s, x)[Len(s) + 1] = x
      /\ \A k \in 1..Len(s) : Append(s, x)[k] = s[k]
  OBVIOUS
<1> QED BY ONLY <1>1, t = Append(s, x), n = Len(s)

-----------------------------------------------------------------------------
(* Popping.                                                                *)

\* Positions of a list of n entries, in ascending order.
Ascending(indices, n) ==
  /\ indices \in Seq(1..n)
  /\ \A i, j \in 1..Len(indices) : i < j => indices[i] < indices[j]

\* The last positions of an ascending sequence leave room for those before.
LEMMA RoomBefore ==
  ASSUME NEW n \in Nat, NEW indices, Ascending(indices, n), NEW m, m = Len(indices)
  PROVE  \A k \in 1..m : indices[m - k + 1] \in 1..(n - k + 1)
<1>1. m \in Nat /\ \A i \in 1..m : indices[i] \in 1..n
  BY DEF Ascending
<1>2. \A i, j \in 1..m : i < j => indices[i] < indices[j]
  BY DEF Ascending
<1> DEFINE T == {k \in 0..m : k = 0 \/ indices[m - k + 1] \in 1..(n - k + 1)}
<1>3. 0 \in T
  BY <1>1
<1>4. ASSUME NEW k \in 0..(m - 1), k \in T
      PROVE  k + 1 \in T
  <2>1. /\ k + 1 \in 0..m /\ m - k \in 1..m /\ m - (k + 1) + 1 = m - k
        /\ indices[m - k] \in 1..n
    BY <1>1
  <2>2. CASE k = 0
    BY <1>1, <2>1, <2>2
  <2>3. CASE k # 0
    <3>1. m - k + 1 \in 1..m /\ m - k < m - k + 1
      BY <1>1, <2>3
    <3>2. indices[m - k] < indices[m - k + 1]
      BY <1>2, <2>1, <3>1
    <3>3. indices[m - k + 1] \in 1..(n - k + 1)
      BY <1>4, <2>3
    <3>4. indices[m - k] \in 1..(n - (k + 1) + 1)
      BY <2>1, <3>2, <3>3
    <3> QED BY <2>1, <3>4
  <2> QED BY <2>2, <2>3
<1> HIDE DEF T
<1>5. \A k \in 0..m : k \in T
  BY <1>1, <1>3, <1>4, InductionTo
<1> QED BY <1>1, <1>5 DEF T

\* What list.pop does.
LEMMA OnePop ==
  ASSUME NEW V, NEW list \in Seq(V), NEW x \in 1..Len(list)
  PROVE  /\ RemoveAt(list, x) \in Seq(V) /\ Len(RemoveAt(list, x)) = Len(list) - 1
         /\ \A i \in 1..(Len(list) - 1) :
              RemoveAt(list, x)[i] = IF i < x THEN list[i] ELSE list[i + 1]
<1> DEFINE n == Len(list)
           left == SubSeq(list, 1, x - 1)
           right == SubSeq(list, x + 1, n)
<1>1. n \in Nat /\ x \in 1..n
  OBVIOUS
<1>2. left \in Seq(V) /\ Len(left) = x - 1 /\ \A i \in 1..(x - 1) : left[i] = list[i]
  BY <1>1
<1>3. right \in Seq(V) /\ Len(right) = n - x /\ \A i \in 1..(n - x) : right[i] = list[i + x]
  BY <1>1
<1>4. RemoveAt(list, x) = left \o right
  BY DEF RemoveAt
<1> HIDE DEF left, right, n
<1>5. /\ left \o right \in Seq(V) /\ Len(left \o right) = n - 1
      /\ \A i \in 1..(n - 1) :
           (left \o right)[i] = IF i <= Len(left) THEN left[i] ELSE right[i - Len(left)]
  <2>1. PICK a, b : a = left /\ b = right
    OBVIOUS
  <2>2. a \in Seq(V) /\ b \in Seq(V) /\ Len(a) = x - 1 /\ Len(b) = n - x
    BY <1>2, <1>3, <2>1
  <2>3. /\ a \o b \in Seq(V) /\ Len(a \o b) = Len(a) + Len(b)
        /\ \A i \in 1..(Len(a) + Len(b)) :
             (a \o b)[i] = IF i <= Len(a) THEN a[i] ELSE b[i - Len(a)]
    BY ONLY <2>2, ConcatProperties, Zenon
  <2>4. Len(a) + Len(b) = n - 1
    BY <1>1, <2>2
  <2> QED BY <2>1, <2>3, <2>4
<1>6. \A i \in 1..(n - 1) :
        (left \o right)[i] = IF i < x THEN list[i] ELSE list[i + 1]
  <2> TAKE i \in 1..(n - 1)
  <2>1. CASE i < x
    BY <1>1, <1>2, <1>5, <2>1
  <2>2. CASE ~ (i < x)
    <3>1. i - (x - 1) \in 1..(n - x) /\ i - (x - 1) + x = i + 1 /\ ~ (i <= Len(left))
      BY <1>1, <1>2, <2>2
    <3> QED BY <1>2, <1>3, <1>5, <2>2, <3>1
  <2> QED BY <2>1, <2>2
<1> QED BY <1>4, <1>5, <1>6 DEF n

\* f has what is left of the list after each pop.
Pops(f, k, list, indices) ==
  /\ f \in [0..k -> Seq(Nat)]
  /\ f[0] = list
  /\ \A j \in 1..k : f[j] = RemoveAt(f[j - 1], indices[Len(indices) - j + 1])
  /\ \A j \in 0..k : Len(f[j]) = Len(list) - j

\* The recursive function of PopAll exists, and its value is the last of it.
LEMMA PopAllPops ==
  ASSUME NEW list \in Seq(Nat), NEW indices, Ascending(indices, Len(list))
  PROVE  \E f : /\ Pops(f, Len(indices), list, indices)
                /\ PopAll(list, indices) = f[Len(indices)]
<1> DEFINE n == Len(list)
           m == Len(indices)
           T == {k \in 0..m : \E f : Pops(f, k, list, indices)}
<1>1. n \in Nat /\ m \in Nat /\ \A k \in 1..m : indices[m - k + 1] \in 1..(n - k + 1)
  <2>1. n \in Nat /\ m \in Nat
    BY DEF Ascending
  <2>2. \A k \in 1..m : indices[m - k + 1] \in 1..(n - k + 1)
    BY <2>1, RoomBefore
  <2> QED BY <2>1, <2>2
<1>2. 0 \in T
  <2> DEFINE f == [k \in 0..0 |-> list]
  <2>1. f \in [0..0 -> Seq(Nat)] /\ f[0] = list /\ 0 \in 0..m
    BY <1>1
  <2>2. Len(f[0]) = Len(list) - 0
    BY <1>1, <2>1
  <2> HIDE DEF f
  <2>3. Pops(f, 0, list, indices)
    BY <2>1, <2>2 DEF Pops
  <2> QED BY <2>1, <2>3
<1>3. ASSUME NEW k \in 0..(m - 1), k \in T
      PROVE  k + 1 \in T
  <2>1. PICK f : Pops(f, k, list, indices)
    BY <1>3
  <2>2. /\ f \in [0..k -> Seq(Nat)] /\ f[0] = list
        /\ \A j \in 1..k : f[j] = RemoveAt(f[j - 1], indices[m - j + 1])
        /\ \A j \in 0..k : Len(f[j]) = n - j
    BY <2>1 DEF Pops
  <2>3. PICK x : x = indices[m - (k + 1) + 1]
    OBVIOUS
  <2>4. k \in Nat /\ k + 1 \in 1..m /\ k + 1 \in 0..m /\ k \in 0..k
    BY <1>1
  <2>5. f[k] \in Seq(Nat) /\ Len(f[k]) = n - k /\ x \in 1..Len(f[k])
    <3>1. x \in 1..(n - (k + 1) + 1)
      BY <1>1, <2>3, <2>4
    <3> QED BY <1>1, <2>2, <2>4, <3>1
  <2>6. RemoveAt(f[k], x) \in Seq(Nat) /\ Len(RemoveAt(f[k], x)) = n - (k + 1)
    <3>1. RemoveAt(f[k], x) \in Seq(Nat) /\ Len(RemoveAt(f[k], x)) = Len(f[k]) - 1
      BY <2>5, OnePop
    <3> QED BY <1>1, <2>4, <2>5, <3>1
  <2> DEFINE h == [j \in 0..(k + 1) |-> IF j = k + 1 THEN RemoveAt(f[k], x) ELSE f[j]]
  <2>7. h \in [0..(k + 1) -> Seq(Nat)] /\ h[0] = list
    BY <2>2, <2>4, <2>6
  <2>8. h[k + 1] = RemoveAt(f[k], x) /\ \A j \in 0..k : h[j] = f[j]
    BY <2>4
  <2> HIDE DEF h
  <2>9. \A j \in 1..(k + 1) : h[j] = RemoveAt(h[j - 1], indices[m - j + 1])
    <3> TAKE j \in 1..(k + 1)
    <3>1. CASE j = k + 1
      BY <2>3, <2>4, <2>8, <3>1
    <3>2. CASE j \in 1..k
      <4>1. j \in 0..k /\ j - 1 \in 0..k
        BY <2>4, <3>2
      <4> QED BY <2>2, <2>8, <3>2, <4>1
    <3> QED BY <2>4, <3>1, <3>2
  <2>10. \A j \in 0..(k + 1) : Len(h[j]) = n - j
    <3> TAKE j \in 0..(k + 1)
    <3>1. CASE j = k + 1
      BY <2>6, <2>8, <3>1
    <3>2. CASE j \in 0..k
      BY <2>2, <2>8, <3>2
    <3> QED BY <2>4, <3>1, <3>2
  <2>11. Pops(h, k + 1, list, indices)
    BY <2>7, <2>9, <2>10 DEF Pops
  <2> QED BY <2>4, <2>11
<1> HIDE DEF T
<1>4. m \in T
  <2>1. \A k \in 0..m : k \in T
    BY <1>1, <1>2, <1>3, InductionTo
  <2> QED BY <1>1, <2>1
<1>5. PICK g : Pops(g, m, list, indices)
  BY <1>4 DEF T
<1> DEFINE Is(f) == f = [k \in 0..m |-> IF k = 0 THEN list
                                        ELSE RemoveAt(f[k - 1], indices[m - k + 1])]
           left == CHOOSE f : Is(f)
<1>6. Is(g)
  <2>1. /\ g \in [0..m -> Seq(Nat)] /\ g[0] = list
        /\ \A j \in 1..m : g[j] = RemoveAt(g[j - 1], indices[m - j + 1])
    BY <1>5 DEF Pops
  <2>2. \A k \in 0..m : g[k] = IF k = 0 THEN list
                               ELSE RemoveAt(g[k - 1], indices[m - k + 1])
    BY <1>1, <2>1
  <2> HIDE DEF n, m
  <2> QED BY <2>1, <2>2
<1>7. Is(left)
  <2> HIDE DEF Is
  <2> QED BY <1>6
<1>8. PopAll(list, indices) = left[m]
  BY Zenon DEF PopAll
<1> HIDE DEF left
<1>9. /\ left = [k \in 0..m |-> left[k]] /\ left[0] = list
      /\ \A k \in 1..m : left[k] = RemoveAt(left[k - 1], indices[m - k + 1])
  <2> HIDE DEF n, m
  <2>1. \A k \in 1..m : k \in 0..m /\ k # 0
    BY <1>1
  <2>2. 0 \in 0..m
    BY <1>1
  <2> QED BY <1>7, <2>1, <2>2
<1> HIDE DEF Is
<1>10. \A k \in 0..m : left[k] = g[k]
  <2> DEFINE U == {k \in 0..m : left[k] = g[k]}
  <2>1. /\ g[0] = list
        /\ \A j \in 1..m : g[j] = RemoveAt(g[j - 1], indices[m - j + 1])
    BY <1>5 DEF Pops
  <2> HIDE DEF n, m
  <2>2. 0 \in U
    BY <1>1, <1>9, <2>1
  <2>3. ASSUME NEW k \in 0..(m - 1), k \in U PROVE k + 1 \in U
    <3>1. k + 1 \in 1..m /\ k + 1 \in 0..m /\ (k + 1) - 1 = k /\ left[k] = g[k]
      BY <1>1, <2>3
    <3>2. left[k + 1] = RemoveAt(left[k], indices[m - (k + 1) + 1])
      BY <1>9, <3>1
    <3>3. g[k + 1] = RemoveAt(g[k], indices[m - (k + 1) + 1])
      BY <2>1, <3>1
    <3> QED BY <3>1, <3>2, <3>3
  <2> HIDE DEF U
  <2>4. \A k \in 0..m : k \in U
    BY <1>1, <2>2, <2>3, InductionTo
  <2> QED BY <2>4 DEF U
<1>11. PopAll(list, indices) = g[m]
  BY <1>1, <1>8, <1>10
<1> QED BY <1>5, <1>11

\* e enumerates the positions that the first k pops leave, in ascending order;
\* those below the last position popped are still at their place.
Remaining(e, k, n, indices) ==
  /\ e \in [1..(n - k) -> 1..n]
  /\ \A i, j \in 1..(n - k) : i < j => e[i] < e[j]
  /\ \A p \in 1..n :
       (\E i \in 1..(n - k) : e[i] = p)
         <=> \A j \in (Len(indices) - k + 1)..Len(indices) : indices[j] # p
  /\ \A i \in 1..(n - k) :
       (\A j \in (Len(indices) - k + 1)..Len(indices) : i < indices[j]) => e[i] = i

\* Before the first pop all positions remain.
LEMMA AllRemain ==
  ASSUME NEW n \in Nat, NEW indices, Len(indices) \in Nat
  PROVE  Remaining([i \in 1..n |-> i], 0, n, indices)
<1> DEFINE e == [i \in 1..n |-> i]
           m == Len(indices)
<1>1. /\ n - 0 = n /\ (m - 0 + 1)..m = {} /\ e \in [1..n -> 1..n]
      /\ \A i \in 1..n : e[i] = i
  OBVIOUS
<1> HIDE DEF e
<1>2. \A i, j \in 1..n : i < j => e[i] < e[j]
  BY <1>1
<1>3. \A p \in 1..n : \E i \in 1..n : e[i] = p
  BY <1>1
<1> QED BY <1>1, <1>2, <1>3 DEF Remaining

\* One pop more leaves one position less.
LEMMA OneRemainsLess ==
  ASSUME NEW n \in Nat, NEW indices, Ascending(indices, n), NEW m, m = Len(indices),
         NEW k \in 0..(m - 1), NEW e, Remaining(e, k, n, indices),
         NEW x, x = indices[m - k], NEW h,
         h = [i \in 1..(n - (k + 1)) |-> IF i < x THEN e[i] ELSE e[i + 1]]
  PROVE  Remaining(h, k + 1, n, indices)
<1>1. /\ m \in Nat /\ k \in Nat /\ k + 1 \in 1..m /\ m - k \in 1..m
      /\ m - (k + 1) + 1 = m - k
  BY DEF Ascending
<1>2. \A i \in 1..m : indices[i] \in 1..n
  BY DEF Ascending
<1>3. x \in 1..(n - k)
  <2>1. indices[m - (k + 1) + 1] \in 1..(n - (k + 1) + 1)
    BY <1>1, RoomBefore
  <2> QED BY <1>1, <2>1
<1>4. \A j \in (m - k + 1)..m : x < indices[j]
  <2> TAKE j \in (m - k + 1)..m
  <2>1. m - k \in 1..m /\ j \in 1..m /\ m - k < j
    BY <1>1
  <2> QED BY <2>1 DEF Ascending
<1>5. /\ e \in [1..(n - k) -> 1..n]
      /\ \A i, j \in 1..(n - k) : i < j => e[i] < e[j]
      /\ \A p \in 1..n :
           (\E i \in 1..(n - k) : e[i] = p) <=> \A j \in (m - k + 1)..m : indices[j] # p
      /\ \A i \in 1..(n - k) : (\A j \in (m - k + 1)..m : i < indices[j]) => e[i] = i
  BY DEF Remaining
<1>6. e[x] = x
  BY <1>3, <1>4, <1>5
<1>7. \A i \in 1..(n - (k + 1)) :
        /\ i \in 1..(n - k) /\ i + 1 \in 1..(n - k)
        /\ h[i] = IF i < x THEN e[i] ELSE e[i + 1]
  BY <1>1
<1>8. h \in [1..(n - (k + 1)) -> 1..n]
  <2>1. \A i \in 1..(n - (k + 1)) : h[i] \in 1..n
    BY <1>5, <1>7
  <2> QED BY <2>1
<1>9. \A i, j \in 1..(n - (k + 1)) : i < j => h[i] < h[j]
  <2> SUFFICES ASSUME NEW i \in 1..(n - (k + 1)), NEW j \in 1..(n - (k + 1)), i < j
               PROVE  h[i] < h[j]
    OBVIOUS
  <2>1. \E a, b \in 1..(n - k) : a < b /\ h[i] = e[a] /\ h[j] = e[b]
    <3>1. CASE j < x
      <4>1. i \in 1..(n - k) /\ j \in 1..(n - k) /\ i < x
        BY <1>3, <1>7, <3>1
      <4>2. h[i] = e[i] /\ h[j] = e[j]
        BY <1>7, <3>1, <4>1
      <4> QED BY <4>1, <4>2
    <3>2. CASE i < x /\ ~ (j < x)
      <4>1. i < j + 1
        OBVIOUS
      <4>2. /\ i \in 1..(n - k) /\ j + 1 \in 1..(n - k)
            /\ h[i] = e[i] /\ h[j] = e[j + 1]
        BY <1>7, <3>2
      <4> QED BY <4>1, <4>2
    <3>3. CASE ~ (i < x)
      <4>1. i + 1 < j + 1 /\ ~ (j < x)
        BY <1>3, <3>3
      <4>2. /\ i + 1 \in 1..(n - k) /\ j + 1 \in 1..(n - k)
            /\ h[i] = e[i + 1] /\ h[j] = e[j + 1]
        BY <1>7, <3>3, <4>1
      <4> QED BY <4>1, <4>2
    <3> QED BY <1>3, <3>1, <3>2, <3>3
  <2>2. PICK a, b \in 1..(n - k) : a < b /\ h[i] = e[a] /\ h[j] = e[b]
    BY <2>1
  <2>3. e[a] < e[b]
    BY <1>5, <2>2
  <2> QED BY <2>2, <2>3
<1>10. ASSUME NEW p \in 1..n
       PROVE  (\E i \in 1..(n - (k + 1)) : h[i] = p)
                <=> (p # x /\ \E i \in 1..(n - k) : e[i] = p)
  <2>1. ASSUME NEW i \in 1..(n - (k + 1)), h[i] = p
        PROVE  p # x /\ \E a \in 1..(n - k) : e[a] = p
    <3>1. CASE i < x
      <4>1. h[i] = e[i] /\ i \in 1..(n - k) /\ e[i] < e[x]
        BY <1>3, <1>5, <1>7, <3>1
      <4> QED BY <1>3, <1>6, <2>1, <4>1
    <3>2. CASE ~ (i < x)
      <4>1. x < i + 1
        BY <1>3, <3>2
      <4>2. h[i] = e[i + 1] /\ i + 1 \in 1..(n - k) /\ e[x] < e[i + 1]
        BY <1>3, <1>5, <1>7, <3>2, <4>1
      <4> QED BY <1>3, <1>6, <2>1, <4>2
    <3> QED BY <3>1, <3>2
  <2>2. ASSUME p # x, NEW a \in 1..(n - k), e[a] = p
        PROVE  \E i \in 1..(n - (k + 1)) : h[i] = p
    <3>1. a # x
      BY <1>6, <2>2
    <3>2. CASE a < x
      <4>1. a \in 1..(n - (k + 1))
        BY <1>1, <1>3, <3>2
      <4> QED BY <1>7, <2>2, <3>2, <4>1
    <3>3. CASE x < a
      <4>1. a - 1 \in 1..(n - (k + 1)) /\ ~ (a - 1 < x) /\ (a - 1) + 1 = a
        BY <1>1, <1>3, <3>3
      <4> QED BY <1>7, <2>2, <4>1
    <3> QED BY <1>3, <3>1, <3>2, <3>3
  <2> QED BY <2>1, <2>2
<1>11. ASSUME NEW p \in 1..n
       PROVE  (\A j \in (m - (k + 1) + 1)..m : indices[j] # p)
                <=> (p # x /\ \A j \in (m - k + 1)..m : indices[j] # p)
  <2>1. \A j \in (m - (k + 1) + 1)..m : j = m - k \/ j \in (m - k + 1)..m
    BY <1>1
  <2>2. \A j \in (m - k + 1)..m : j \in (m - (k + 1) + 1)..m
    BY <1>1
  <2>3. m - k \in (m - (k + 1) + 1)..m
    BY <1>1
  <2> QED BY <2>1, <2>2, <2>3
<1>12. \A p \in 1..n :
         (\E i \in 1..(n - (k + 1)) : h[i] = p)
           <=> \A j \in (m - (k + 1) + 1)..m : indices[j] # p
  BY <1>5, <1>10, <1>11
<1>13. ASSUME NEW i \in 1..(n - (k + 1)),
              \A j \in (m - (k + 1) + 1)..m : i < indices[j]
       PROVE  h[i] = i
  <2>1. m - k \in (m - (k + 1) + 1)..m
    BY <1>1
  <2>2. i < x
    BY <1>13, <2>1
  <2>3. \A j \in (m - k + 1)..m : i < indices[j]
    <3>1. \A j \in (m - k + 1)..m : j \in (m - (k + 1) + 1)..m
      BY <1>1
    <3> QED BY <1>13, <3>1
  <2> QED BY <1>5, <1>7, <2>2, <2>3
<1> QED BY <1>8, <1>9, <1>12, <1>13 DEF Remaining

\* What popping the positions leaves of every list of n entries.
PopsLeave(e, m, n, indices) ==
  \A list \in Seq(Nat) : Len(list) = n =>
    /\ PopAll(list, indices) \in Seq(Nat)
    /\ Len(PopAll(list, indices)) = n - m
    /\ \A i \in 1..(n - m) : PopAll(list, indices)[i] = list[e[i]]

\* Popping the positions of an ascending sequence leaves the others, in their
\* order: which, depends on the length of the list alone.
LEMMA PoppedInOrder ==
  ASSUME NEW n \in Nat, NEW indices, Ascending(indices, n), NEW m, m = Len(indices)
  PROVE  \E e : Remaining(e, m, n, indices) /\ PopsLeave(e, m, n, indices)
<1> DEFINE Left(e, k) ==
             \A list, f :
               list \in Seq(Nat) /\ Len(list) = n /\ Pops(f, m, list, indices) =>
                 \A i \in 1..(n - k) : f[k][i] = list[e[i]]
           T == {k \in 0..m : \E e : Remaining(e, k, n, indices) /\ Left(e, k)}
<1>1. m \in Nat
  BY DEF Ascending
<1>2. 0 \in T
  <2> DEFINE e == [i \in 1..n |-> i]
  <2>1. Remaining(e, 0, n, indices)
    BY <1>1, AllRemain
  <2>2. ASSUME NEW list \in Seq(Nat), NEW f, Len(list) = n, Pops(f, m, list, indices)
        PROVE  \A i \in 1..(n - 0) : f[0][i] = list[e[i]]
    BY <2>2 DEF Pops
  <2> HIDE DEF e
  <2>3. Left(e, 0)
    BY <2>2
  <2> HIDE DEF Left
  <2> QED BY <1>1, <2>1, <2>3
<1>3. ASSUME NEW k \in 0..(m - 1), k \in T
      PROVE  k + 1 \in T
  <2>1. PICK e : Remaining(e, k, n, indices) /\ Left(e, k)
    BY <1>3
  <2>2. PICK x : x = indices[m - k]
    OBVIOUS
  <2>3. PICK h : h = [i \in 1..(n - (k + 1)) |-> IF i < x THEN e[i] ELSE e[i + 1]]
    OBVIOUS
  <2>4. Remaining(h, k + 1, n, indices)
    BY ONLY <2>1, <2>2, <2>3, OneRemainsLess, n \in Nat, Ascending(indices, n),
            m = Len(indices), k \in 0..(m - 1)
  <2>5. /\ k + 1 \in 1..m /\ k \in 0..m /\ k + 1 \in 0..m /\ m - (k + 1) + 1 = m - k
        /\ (k + 1) - 1 = k /\ k \in Nat
    BY <1>1
  <2>6. x \in 1..(n - k)
    <3>1. indices[m - (k + 1) + 1] \in 1..(n - (k + 1) + 1)
      BY <2>5, RoomBefore
    <3> QED BY <2>2, <2>5, <3>1
  <2>7. ASSUME NEW list \in Seq(Nat), NEW f, Len(list) = n, Pops(f, m, list, indices)
        PROVE  \A i \in 1..(n - (k + 1)) : f[k + 1][i] = list[h[i]]
    <3>1. /\ f[k] \in Seq(Nat) /\ Len(f[k]) = n - k
          /\ f[k + 1] = RemoveAt(f[k], x)
      BY <2>2, <2>5, <2>7 DEF Pops
    <3>2. \A i \in 1..(n - k) : f[k][i] = list[e[i]]
      BY <2>1, <2>7
    <3>3. \A i \in 1..(n - k - 1) :
            RemoveAt(f[k], x)[i] = IF i < x THEN f[k][i] ELSE f[k][i + 1]
      <4>1. x \in 1..Len(f[k])
        BY <2>6, <3>1
      <4> QED BY <3>1, <4>1, OnePop
    <3> TAKE i \in 1..(n - (k + 1))
    <3>4. i \in 1..(n - k - 1) /\ i \in 1..(n - k) /\ i + 1 \in 1..(n - k)
      BY <2>5
    <3>5. h[i] = IF i < x THEN e[i] ELSE e[i + 1]
      BY <2>3
    <3> QED BY <3>1, <3>2, <3>3, <3>4, <3>5
  <2>8. Left(h, k + 1)
    BY <2>7
  <2> HIDE DEF Left
  <2> QED BY <2>4, <2>5, <2>8
<1> HIDE DEF T
<1>4. m \in T
  <2>1. \A k \in 0..m : k \in T
    BY <1>1, <1>2, <1>3, InductionTo
  <2> QED BY <1>1, <2>1
<1>5. PICK e : Remaining(e, m, n, indices) /\ Left(e, m)
  BY <1>4 DEF T
<1>6. ASSUME NEW list \in Seq(Nat), Len(list) = n
      PROVE  /\ PopAll(list, indices) \in Seq(Nat)
             /\ Len(PopAll(list, indices)) = n - m
             /\ \A i \in 1..(n - m) : PopAll(list, indices)[i] = list[e[i]]
  <2>1. PICK f : Pops(f, m, list, indices) /\ PopAll(list, indices) = f[m]
    BY <1>6, PopAllPops
  <2>2. f[m] \in Seq(Nat) /\ Len(f[m]) = n - m
    BY <1>1, <1>6, <2>1 DEF Pops
  <2>3. \A i \in 1..(n - m) : f[m][i] = list[e[i]]
    BY <1>5, <1>6, <2>1
  <2> QED BY <2>1, <2>2, <2>3
<1>7. PopsLeave(e, m, n, indices)
  BY ONLY <1>6 DEF PopsLeave
<1> QED BY <1>5, <1>7

-----------------------------------------------------------------------------
(* The positions that sample selects.                                      *)

\* Of two numbers, the greater.
LEMMA MaxOfTwo ==
  ASSUME NEW a \in Int, NEW b \in Int
  PROVE  Max({a, b}) = IF b > a THEN b ELSE a
<1>1. \E x \in {a, b} : \A y \in {a, b} : x >= y
  OBVIOUS
<1>2. Max({a, b}) \in {a, b} /\ \A y \in {a, b} : Max({a, b}) >= y
  BY <1>1, Zenon DEF Max
<1> QED BY <1>2

\* The version the position was pushed for is the current one, and its weights
\* are those of the window.
MeantFor(i, cur) ==
  trajectory_versions[i] \in MinValid(cur)..cur /\ target_weight_versions[i] = cur

\* IntendedIndices has the positions that are meant for the version, in order.
LEMMA IntendedInOrder ==
  ASSUME ListInv, NEW cur, NEW r, r = IntendedIndices(cur)
  PROVE  /\ Ascending(r, Len(trajectories))
         /\ \A p \in 1..Len(trajectories) :
              MeantFor(p, cur) <=> \E k \in 1..Len(r) : r[k] = p
<1> DEFINE n == Len(trajectories)
           d == [i \in DOMAIN trajectories |-> i]
           set == {i \in 1..n : MeantFor(i, cur)}
           Is(g) == g = [s \in SUBSET DOMAIN d |->
                           IF s = {} THEN <<>>
                           ELSE IF MeantFor(d[Max(s)], cur)
                                THEN Append(g[s \ {Max(s)}], d[Max(s)])
                                ELSE g[s \ {Max(s)}]]
           F == [p \in (1..n) \X Seq(1..n) |->
                   IF p[1] \in set THEN Append(p[2], p[1]) ELSE p[2]]
<1>1. /\ n \in Nat /\ DOMAIN trajectories = 1..n /\ DOMAIN d = 1..n /\ d \in Seq(1..n)
      /\ Len(d) = n /\ \A i \in 1..n : d[i] = i
  BY DEF ListInv
<1> HIDE DEF n, d
<1>2. F \in [(1..n) \X Seq(1..n) -> Seq(1..n)]
  <2> HIDE DEF set
  <2>1. \A k \in 1..n : \A q \in Seq(1..n) : Append(q, k) \in Seq(1..n)
    BY <1>1
  <2> QED BY <2>1
<1>3. PICK g \in [SUBSET (1..n) -> Seq(1..n)] : Folds(g, n, <<>>, F)
  <2>1. <<>> \in Seq(1..n)
    OBVIOUS
  <2> HIDE DEF F
  <2> QED BY <1>1, <1>2, <2>1, FoldExists, Zenon
<1>4. ASSUME NEW s \in SUBSET (1..n), s # {}
      PROVE  /\ F[<<Max(s), g[s \ {Max(s)}]>>]
                = IF MeantFor(d[Max(s)], cur) THEN Append(g[s \ {Max(s)}], d[Max(s)])
                                              ELSE g[s \ {Max(s)}]
             /\ Max(s) \in 1..n /\ d[Max(s)] = Max(s)
  <2>1. Max(s) \in 1..n /\ d[Max(s)] = Max(s)
    BY <1>1, <1>4, MaxOfSet
  <2>2. g[s \ {Max(s)}] \in Seq(1..n)
    OBVIOUS
  <2> QED BY <2>1, <2>2
<1>5. Is(g)
  <2> HIDE DEF F
  <2>1. \A s \in SUBSET (1..n) :
          g[s] = IF s = {} THEN <<>>
                 ELSE IF MeantFor(d[Max(s)], cur) THEN Append(g[s \ {Max(s)}], d[Max(s)])
                                                  ELSE g[s \ {Max(s)}]
    <3>1. \A s \in SUBSET (1..n) :
            g[s] = IF s = {} THEN <<>> ELSE F[<<Max(s), g[s \ {Max(s)}]>>]
      BY <1>3 DEF Folds
    <3> QED BY <1>4, <3>1
  <2> QED BY <1>1, <1>3, <2>1
<1> DEFINE iter == CHOOSE h : Is(h)
<1>6. Is(iter)
  <2> HIDE DEF Is
  <2> QED BY <1>5
<1>7. IntendedIndices(cur) = iter[DOMAIN d]
  BY Zenon DEF IntendedIndices, FoldLeftDomain, FoldLeft, MapThenFoldSet, MeantFor, d
<1>8. \A s \in SUBSET (1..n) :
        iter[s] = IF s = {} THEN <<>>
                  ELSE IF d[Max(s)] \in set
                  THEN Append(iter[s \ {Max(s)}], d[Max(s)])
                  ELSE iter[s \ {Max(s)}]
  <2> HIDE DEF iter
  <2>1. \A s \in SUBSET (1..n) : s # {} => (d[Max(s)] \in set <=> MeantFor(d[Max(s)], cur))
    BY <1>4
  <2> HIDE DEF set
  <2> QED BY <1>1, <1>6, <2>1
<1> HIDE DEF iter, Is
<1>9. KeptUpTo(d, n, set, r) /\ r \in Seq(1..n)
  <2>1. KeptUpTo(d, Len(d), set, iter[1..Len(d)]) /\ iter[1..Len(d)] \in Seq(1..n)
    <3> HIDE DEF set
    <3>1. d \in Seq(1..n) /\ Len(d) = n
      BY <1>1
    <3> QED BY ONLY <1>8, <3>1, KeptByFold
  <2> QED BY <1>1, <1>7, <2>1
<1> HIDE DEF set
<1>10. PICK e \in [1..Len(r) -> 1..n] :
         /\ \A i \in 1..Len(r) : r[i] = d[e[i]] /\ d[e[i]] \in set
         /\ \A i, j \in 1..Len(r) : i < j => e[i] < e[j]
         /\ \A p \in 1..n : d[p] \in set => \E i \in 1..Len(r) : e[i] = p
  BY <1>9 DEF KeptUpTo
<1>11. \A i \in 1..Len(r) : r[i] = e[i] /\ e[i] \in 1..n /\ e[i] \in set
  BY <1>1, <1>10
<1>12. Ascending(r, n)
  BY <1>9, <1>10, <1>11 DEF Ascending
<1>13. \A p \in 1..n : MeantFor(p, cur) <=> \E k \in 1..Len(r) : r[k] = p
  <2> TAKE p \in 1..n
  <2>1. p \in set <=> MeantFor(p, cur)
    BY DEF set
  <2> QED BY <1>1, <1>10, <1>11, <2>1
<1> QED BY <1>12, <1>13 DEF n

\* The first k entries of a sequence r over 1..n.
FirstOf(sel, k, r, n) ==
  /\ Len(sel) = k
  /\ \A i \in 1..k : sel[i] = r[i] /\ sel[i] \in 1..n /\ i \in 1..Len(r)

\* The first positions of an ascending sequence.
LEMMA FirstInOrder ==
  ASSUME NEW n \in Nat, NEW r, Ascending(r, n), NEW k \in Nat, k <= Len(r),
         NEW sel, sel = SubSeq(r, 1, k)
  PROVE  Ascending(sel, n) /\ FirstOf(sel, k, r, n)
<1>1. r \in Seq(1..n) /\ Len(r) \in Nat
  BY DEF Ascending
<1>2. sel \in Seq(1..n) /\ Len(sel) = k /\ \A i \in 1..k : sel[i] = r[i]
  BY <1>1
<1>3. \A i \in 1..k : i \in 1..Len(r) /\ r[i] \in 1..n
  BY <1>1
<1> QED BY <1>1, <1>2, <1>3 DEF Ascending, FirstOf

-----------------------------------------------------------------------------
(* The steps.                                                              *)

\* The facts about the constants that the proofs use.
LEMMA ListConstants ==
  /\ MaxSize \in Nat \ {0} /\ MaxAge \in Nat
  /\ \A v \in Versions : v \in Nat
  /\ \A n \in Counts : n \in Nat
BY ListsAssumption

\* A list from which the positions of sel were popped, e the others.
PoppedFrom(new, old, e, k) ==
  /\ new \in Seq(Nat) /\ Len(new) = Len(old) - k
  /\ \A i \in 1..(Len(old) - k) : new[i] = old[e[i]]

\* What a sample takes: the first positions meant for the version; what it
\* leaves: the same others in each list.
LEMMA SampleTakes ==
  ASSUME ListInv, NEW n \in Counts, NEW cur \in Versions, Sample(n, cur),
         NEW L, L = Len(trajectories)
  PROVE  \E sel, e :
           /\ Ascending(sel, L) /\ Len(sel) = n
           /\ \A k \in 1..n : MeantFor(sel[k], cur)
           /\ \A p \in 1..L :
                MeantFor(p, cur) /\ (\A k \in 1..n : sel[k] # p) => \A k \in 1..n : sel[k] < p
           /\ Remaining(e, n, L, sel)
           /\ reply' = [i \in 1..n |-> trajectories[sel[i]]]
           /\ PoppedFrom(trajectories', trajectories, e, n)
           /\ PoppedFrom(trajectory_versions', trajectory_versions, e, n)
           /\ PoppedFrom(target_weight_versions', target_weight_versions, e, n)
<1>1. PICK r, sel : r = IntendedIndices(cur) /\ sel = SubSeq(r, 1, n)
  OBVIOUS
<1>2. /\ Len(r) >= n
      /\ reply' = [i \in 1..n |-> trajectories[sel[i]]]
      /\ trajectories' = PopAll(trajectories, sel)
      /\ trajectory_versions' = PopAll(trajectory_versions, sel)
      /\ target_weight_versions' = PopAll(target_weight_versions, sel)
  BY <1>1 DEF Sample
<1>3. /\ L \in Nat /\ n \in Nat
      /\ trajectories \in Seq(Nat) /\ trajectory_versions \in Seq(Nat)
      /\ target_weight_versions \in Seq(Nat)
      /\ Len(trajectory_versions) = L /\ Len(target_weight_versions) = L
  BY ListConstants DEF ListInv
<1>4. /\ Ascending(r, L) /\ Len(r) \in Nat
      /\ \A p \in 1..L : MeantFor(p, cur) <=> \E k \in 1..Len(r) : r[k] = p
  <2>1. Ascending(r, L)
        /\ \A p \in 1..L : MeantFor(p, cur) <=> \E k \in 1..Len(r) : r[k] = p
    BY <1>1, IntendedInOrder
  <2> QED BY <2>1 DEF Ascending
<1>5. /\ Ascending(sel, L) /\ Len(sel) = n
      /\ \A i \in 1..n : sel[i] = r[i] /\ sel[i] \in 1..L /\ i \in 1..Len(r)
  <2>1. n <= Len(r)
    BY <1>2, <1>3, <1>4
  <2>2. Ascending(r, L) /\ L \in Nat /\ n \in Nat /\ sel = SubSeq(r, 1, n)
    BY <1>1, <1>3, <1>4
  <2>3. Ascending(sel, L) /\ FirstOf(sel, n, r, L)
    BY ONLY <2>1, <2>2, FirstInOrder
  <2> QED BY <2>3 DEF FirstOf
<1>6. \A k \in 1..n : MeantFor(sel[k], cur)
  BY <1>4, <1>5
<1>7. ASSUME NEW p \in 1..L, MeantFor(p, cur), \A k \in 1..n : sel[k] # p, NEW k \in 1..n
      PROVE  sel[k] < p
  <2>1. PICK j \in 1..Len(r) : r[j] = p
    BY <1>4, <1>7
  <2>2. ~ j \in 1..n
    BY <1>5, <1>7, <2>1
  <2>3. k < j
    BY <1>3, <1>4, <2>2
  <2>4. k \in 1..Len(r) /\ sel[k] = r[k]
    BY <1>5
  <2>5. \A a, b \in 1..Len(r) : a < b => r[a] < r[b]
    BY <1>4 DEF Ascending
  <2> QED BY <2>1, <2>3, <2>4, <2>5
<1>8. PICK e :
        Remaining(e, n, L, sel) /\ PopsLeave(e, n, L, sel)
  <2>1. L \in Nat /\ Ascending(sel, L) /\ n = Len(sel)
    BY <1>3, <1>5
  <2> QED BY ONLY <2>1, PoppedInOrder
<1>9. /\ PoppedFrom(trajectories', trajectories, e, n)
      /\ PoppedFrom(trajectory_versions', trajectory_versions, e, n)
      /\ PoppedFrom(target_weight_versions', target_weight_versions, e, n)
  BY <1>2, <1>3, <1>8 DEF PoppedFrom, PopsLeave
<1> QED BY <1>2, <1>5, <1>6, <1>7, <1>8, <1>9

\* A push keeps the order of arrival.
LEMMA PushInv ==
  ASSUME ListInv, NEW ver \in Versions, NEW tgt \in Versions, PushWithWaitSignal(ver, tgt)
  PROVE  ListInv'
<1> DEFINE L == Len(trajectories)
<1>1. /\ L \in Nat /\ ver \in Nat /\ tgt \in Nat /\ arrivals \in Nat
      /\ last_target_weight_already_generated \in Int
      /\ trajectories \in Seq(Nat) /\ trajectory_versions \in Seq(Nat)
      /\ target_weight_versions \in Seq(Nat)
      /\ Len(trajectory_versions) = L /\ Len(target_weight_versions) = L
  BY ListConstants DEF ListInv
<1>2. /\ arrivals' = arrivals + 1
      /\ last_target_weight_already_generated' =
           Max({last_target_weight_already_generated, tgt})
      /\ trajectories' = Append(trajectories, arrivals + 1)
      /\ trajectory_versions' = Append(trajectory_versions, ver)
      /\ target_weight_versions' = Append(target_weight_versions, tgt)
  BY DEF PushWithWaitSignal
<1>3. /\ trajectories' \in Seq(Nat) /\ Len(trajectories') = L + 1
      /\ trajectories'[L + 1] = arrivals + 1
      /\ \A i \in 1..L : trajectories'[i] = trajectories[i]
  <2>1. arrivals + 1 \in Nat
    BY <1>1
  <2> QED BY <1>1, <1>2, <2>1, AppendEntries
<1>4. /\ trajectory_versions' \in Seq(Nat) /\ Len(trajectory_versions') = L + 1
      /\ target_weight_versions' \in Seq(Nat) /\ Len(target_weight_versions') = L + 1
  BY <1>1, <1>2, AppendEntries
<1>5. last_target_weight_already_generated' \in Nat \cup {-1}
  <2>1. PICK a, b, c : a = last_target_weight_already_generated /\ b = tgt
                       /\ c = last_target_weight_already_generated'
    OBVIOUS
  <2>2. a \in Nat \cup {-1} /\ b \in Nat /\ c = Max({a, b})
    BY <1>1, <1>2, <2>1 DEF ListInv
  <2>3. c = IF b > a THEN b ELSE a
    BY ONLY <2>2, MaxOfTwo
  <2> QED BY ONLY <2>1, <2>2, <2>3
<1>6. \A i \in 1..L : trajectories[i] \in Nat /\ trajectories[i] <= arrivals
  BY <1>1 DEF ListInv
<1>7. \A i, j \in 1..L : i < j => trajectories[i] < trajectories[j]
  BY DEF ListInv
<1> HIDE DEF L
<1>8. \A i \in 1..(L + 1) : trajectories'[i] <= arrivals'
  <2> TAKE i \in 1..(L + 1)
  <2>1. CASE i = L + 1
    BY <1>1, <1>2, <1>3, <2>1
  <2>2. CASE i \in 1..L
    <3>1. trajectories'[i] = trajectories[i] /\ trajectories[i] <= arrivals
      BY <1>3, <1>6, <2>2
    <3>2. trajectories[i] \in Nat /\ arrivals' = arrivals + 1 /\ arrivals \in Nat
      BY <1>1, <1>2, <1>6, <2>2
    <3> QED BY <3>1, <3>2
  <2> QED BY <1>1, <2>1, <2>2
<1>9. \A i, j \in 1..(L + 1) : i < j => trajectories'[i] < trajectories'[j]
  <2> SUFFICES ASSUME NEW i \in 1..(L + 1), NEW j \in 1..(L + 1), i < j
               PROVE  trajectories'[i] < trajectories'[j]
    OBVIOUS
  <2>1. i \in 1..L
    BY <1>1
  <2>2. CASE j = L + 1
    <3>1. /\ trajectories'[i] = trajectories[i] /\ trajectories'[j] = arrivals + 1
          /\ trajectories[i] \in Nat /\ trajectories[i] <= arrivals /\ arrivals \in Nat
      BY <1>1, <1>3, <1>6, <2>1, <2>2
    <3> QED BY <3>1
  <2>3. CASE j \in 1..L
    BY <1>3, <1>7, <2>1, <2>3
  <2> QED BY <1>1, <2>2, <2>3
<1>10. arrivals' \in Nat
  BY <1>1, <1>2
<1> QED BY <1>3, <1>4, <1>5, <1>8, <1>9, <1>10 DEF ListInv

\* A sample keeps the order of arrival.
LEMMA SampleInv ==
  ASSUME ListInv, NEW n \in Counts, NEW cur \in Versions, Sample(n, cur)
  PROVE  ListInv'
<1>1. PICK L : L = Len(trajectories)
  OBVIOUS
<1>2. PICK sel, e :
        /\ Len(sel) = n /\ Remaining(e, n, L, sel)
        /\ PoppedFrom(trajectories', trajectories, e, n)
        /\ PoppedFrom(trajectory_versions', trajectory_versions, e, n)
        /\ PoppedFrom(target_weight_versions', target_weight_versions, e, n)
  BY <1>1, SampleTakes
<1>3. UNCHANGED <<last_target_weight_already_generated, arrivals>>
  BY DEF Sample
<1>4. /\ L \in Nat /\ n \in Nat
      /\ Len(trajectory_versions) = L /\ Len(target_weight_versions) = L
      /\ \A i \in 1..L : trajectories[i] <= arrivals
      /\ \A i, j \in 1..L : i < j => trajectories[i] < trajectories[j]
  BY <1>1, ListConstants DEF ListInv
<1>5. /\ e \in [1..(L - n) -> 1..L]
      /\ \A i, j \in 1..(L - n) : i < j => e[i] < e[j]
  BY <1>2 DEF Remaining
<1>6. /\ trajectories' \in Seq(Nat) /\ trajectory_versions' \in Seq(Nat)
      /\ target_weight_versions' \in Seq(Nat)
      /\ Len(trajectories') = L - n /\ Len(trajectory_versions') = L - n
      /\ Len(target_weight_versions') = L - n
      /\ \A i \in 1..(L - n) : trajectories'[i] = trajectories[e[i]]
  BY <1>1, <1>2, <1>4 DEF PoppedFrom
<1>7. \A i \in 1..(L - n) : trajectories'[i] <= arrivals'
  BY <1>3, <1>4, <1>5, <1>6
<1>8. \A i, j \in 1..(L - n) : i < j => trajectories'[i] < trajectories'[j]
  <2> TAKE i, j \in 1..(L - n)
  <2>1. e[i] \in 1..L /\ e[j] \in 1..L /\ (i < j => e[i] < e[j])
    BY <1>5
  <2> QED BY <1>4, <1>6, <2>1
<1>9. arrivals' \in Nat /\ last_target_weight_already_generated' \in Nat \cup {-1}
  BY <1>3 DEF ListInv
<1> QED BY <1>6, <1>7, <1>8, <1>9 DEF ListInv

\* Every step keeps the invariant.
LEMMA ListStep == ListInv /\ [ListsNext]_listVars => ListInv'
<1> SUFFICES ASSUME ListInv, [ListsNext]_listVars PROVE ListInv'
  OBVIOUS
<1>1. ASSUME NEW ver \in Versions, NEW tgt \in Versions, PushWithWaitSignal(ver, tgt)
      PROVE  ListInv'
  BY <1>1, PushInv
<1>2. ASSUME NEW n \in Counts, NEW cur \in Versions, Sample(n, cur)
      PROVE  ListInv'
  BY <1>2, SampleInv
<1>3. CASE Clear
  <2>1. <<>> \in Seq(Nat) /\ Len(<<>>) = 0
    OBVIOUS
  <2>2. /\ trajectories' = <<>> /\ trajectory_versions' = <<>>
        /\ target_weight_versions' = <<>>
        /\ UNCHANGED <<last_target_weight_already_generated, arrivals>>
    BY <1>3 DEF Clear
  <2> QED BY <2>1, <2>2 DEF ListInv
<1>4. CASE UNCHANGED listVars
  BY <1>4 DEF ListInv, listVars, lists
<1> QED BY <1>1, <1>2, <1>3, <1>4 DEF ListsNext

\* It holds of the empty lists.
LEMMA ListInit == ListsInit => ListInv
<1>1. <<>> \in Seq(Nat) /\ Len(<<>>) = 0
  OBVIOUS
<1> QED BY <1>1 DEF ListsInit, ListInv

-----------------------------------------------------------------------------
(* The labelled groups at the positions.                                   *)

\* The groups at these positions.
GroupsAt(indices) == {GroupAt(indices[k]) : k \in 1..Len(indices)}

\* The groups of the buffer.
Buffered == {GroupAt(i) : i \in DOMAIN trajectories}

\* A group is told by the arrival number at its position.
LEMMA GroupIsTold ==
  ASSUME ListInv
  PROVE  /\ DOMAIN trajectories = 1..Len(trajectories) /\ Len(trajectories) \in Nat
         /\ \A i, j \in 1..Len(trajectories) : GroupAt(i) = GroupAt(j) => i = j
<1>1. DOMAIN trajectories = 1..Len(trajectories) /\ Len(trajectories) \in Nat
  BY DEF ListInv
<1>2. ASSUME NEW i \in 1..Len(trajectories), NEW j \in 1..Len(trajectories),
             GroupAt(i) = GroupAt(j)
      PROVE  i = j
  <2>1. GroupAt(i).no = GroupAt(j).no
    BY <1>2
  <2>2. trajectories[i] = trajectories[j]
    BY ONLY <2>1 DEF GroupAt
  <2>3. \A a, b \in 1..Len(trajectories) : a < b => trajectories[a] < trajectories[b]
    BY DEF ListInv
  <2>4. trajectories[i] \in Nat /\ trajectories[j] \in Nat
    BY SeqEntries DEF ListInv
  <2> QED BY <1>1, <2>2, <2>3, <2>4
<1> QED BY <1>1, <1>2

\* There are as many groups as positions.
LEMMA GroupsCounted ==
  ASSUME ListInv, NEW indices, Ascending(indices, Len(trajectories))
  PROVE  IsFiniteSet(GroupsAt(indices)) /\ Cardinality(GroupsAt(indices)) = Len(indices)
<1> DEFINE m == Len(indices)
           f == [k \in 1..m |-> GroupAt(indices[k])]
<1>1. m \in Nat /\ \A k \in 1..m : indices[k] \in 1..Len(trajectories)
  BY DEF Ascending
<1>2. \A i, j \in 1..m : i # j => indices[i] # indices[j]
  <2>1. \A i, j \in 1..m : i < j => indices[i] < indices[j]
    BY DEF Ascending
  <2>2. \A k \in 1..m : indices[k] \in Nat
    BY <1>1
  <2> QED BY <1>1, <2>1, <2>2
<1>3. f \in Surjection(1..m, GroupsAt(indices))
  BY DEF Surjection, GroupsAt
<1>4. \A i, j \in 1..m : f[i] = f[j] => i = j
  BY <1>1, <1>2, GroupIsTold
<1>5. f \in Injection(1..m, GroupsAt(indices))
  BY <1>4 DEF Injection, IsInjective, GroupsAt
<1>6. IsFiniteSet(1..m) /\ Cardinality(1..m) = m
  <2>1. \A n \in Nat : IsFiniteSet(1..n) /\ Cardinality(1..n) = IF 1 > n THEN 0 ELSE n - 1 + 1
    BY FS_Interval
  <2>2. \A n \in Nat : (IF 1 > n THEN 0 ELSE n - 1 + 1) = n
    OBVIOUS
  <2> QED BY <1>1, <2>1, <2>2
<1> HIDE DEF f, m
<1>7. /\ IsFiniteSet(GroupsAt(indices))
      /\ Cardinality(GroupsAt(indices)) = Cardinality(1..m)
  BY <1>3, <1>5, <1>6, FS_Surjection
<1> QED BY <1>6, <1>7 DEF m

\* The buffer holds as many groups as the lists have entries.
LEMMA BufferCounted ==
  ASSUME ListInv
  PROVE  IsFiniteSet(Buffered) /\ Cardinality(Buffered) = Len(trajectories)
<1>1. PICK d : d = [i \in 1..Len(trajectories) |-> i]
  OBVIOUS
<1>2. DOMAIN trajectories = 1..Len(trajectories) /\ Len(trajectories) \in Nat
  BY GroupIsTold
<1>3. /\ d \in Seq(1..Len(trajectories)) /\ Len(d) = Len(trajectories)
      /\ \A i \in 1..Len(trajectories) : d[i] = i
  BY <1>1, <1>2
<1>4. Ascending(d, Len(trajectories))
  BY <1>2, <1>3 DEF Ascending
<1>5. GroupsAt(d) = Buffered
  BY <1>2, <1>3 DEF GroupsAt, Buffered
<1> QED BY <1>3, <1>4, <1>5, GroupsCounted

\* Both modules count with the operator of FiniteSets.
LEMMA BufferCounts ==
  ASSUME NEW S PROVE Buffer!Cardinality(S) = Cardinality(S)
  BY DEF Buffer!Cardinality, Cardinality

-----------------------------------------------------------------------------
(* Every call is a call on the set of groups.                              *)

\* A push adds the group with the next number.
LEMMA PushRefines ==
  ASSUME ListInv, NEW ver \in Versions, NEW tgt \in Versions, PushWithWaitSignal(ver, tgt)
  PROVE  Buffer!Push(ver, tgt)
<1>1. PICK L : L = Len(trajectories)
  OBVIOUS
<1>2. /\ L \in Nat /\ DOMAIN trajectories = 1..L /\ L < MaxSize /\ MaxSize \in Nat
      /\ trajectories \in Seq(Nat) /\ trajectory_versions \in Seq(Nat)
      /\ target_weight_versions \in Seq(Nat)
      /\ Len(trajectory_versions) = L /\ Len(target_weight_versions) = L
      /\ ver \in Nat /\ tgt \in Nat /\ arrivals + 1 \in Nat
      /\ last_target_weight_already_generated \in Int
  BY <1>1, ListConstants, GroupIsTold DEF ListInv, PushWithWaitSignal
<1>3. /\ arrivals' = arrivals + 1
      /\ last_target_weight_already_generated' =
           Max({last_target_weight_already_generated, tgt})
      /\ trajectories' = Append(trajectories, arrivals + 1)
      /\ trajectory_versions' = Append(trajectory_versions, ver)
      /\ target_weight_versions' = Append(target_weight_versions, tgt)
  BY DEF PushWithWaitSignal
<1>4. ~ Buffer!Cardinality(Buffered) >= MaxSize
  <2>1. Buffer!Cardinality(Buffered) = L
    BY <1>1, BufferCounted, BufferCounts
  <2> QED BY <1>2, <2>1
<1>5. last_target_weight_already_generated' =
        IF tgt > last_target_weight_already_generated
        THEN tgt ELSE last_target_weight_already_generated
  BY <1>2, <1>3, MaxOfTwo
<1>6. /\ DOMAIN trajectories' = 1..(L + 1)
      /\ \A i \in 1..L : /\ trajectories'[i] = trajectories[i]
                         /\ trajectory_versions'[i] = trajectory_versions[i]
                         /\ target_weight_versions'[i] = target_weight_versions[i]
      /\ trajectories'[L + 1] = arrivals + 1 /\ trajectory_versions'[L + 1] = ver
      /\ target_weight_versions'[L + 1] = tgt
  <2>0. /\ trajectories' \in Seq(Nat) /\ Len(trajectories') = L + 1
        /\ trajectories'[L + 1] = arrivals + 1
        /\ \A i \in 1..L : trajectories'[i] = trajectories[i]
    BY <1>1, <1>2, <1>3, AppendEntries
  <2>1. DOMAIN trajectories' = 1..(L + 1)
    BY <2>0, SeqEntries
  <2>2. /\ trajectory_versions'[L + 1] = ver
        /\ \A i \in 1..L : trajectory_versions'[i] = trajectory_versions[i]
    BY <1>2, <1>3, AppendEntries
  <2>3. /\ target_weight_versions'[L + 1] = tgt
        /\ \A i \in 1..L : target_weight_versions'[i] = target_weight_versions[i]
    BY <1>2, <1>3, AppendEntries
  <2> QED BY <2>0, <2>1, <2>2, <2>3
<1>7. /\ \A i \in 1..L : GroupAt(i)' = GroupAt(i)
      /\ GroupAt(L + 1)' = [no |-> arrivals + 1, ver |-> ver, tgt |-> tgt]
  BY <1>6 DEF GroupAt
<1>8. /\ Buffered = {GroupAt(i) : i \in 1..L}
      /\ Buffered' = {GroupAt(i)' : i \in 1..(L + 1)}
  BY <1>2, <1>6 DEF Buffered
<1>9. Buffered' = Buffered \cup {[no |-> arrivals + 1, ver |-> ver, tgt |-> tgt]}
  <2>1. 1..(L + 1) = 1..L \cup {L + 1}
    BY <1>2
  <2> QED BY ONLY <1>7, <1>8, <2>1
<1> QED BY <1>3, <1>4, <1>5, <1>9 DEF Buffer!Push, Buffer!BufferFull, Buffered

\* Clearing the lists empties the set.
LEMMA ClearRefines ==
  ASSUME Clear
  PROVE  Buffer!ClearBuffer
<1>1. DOMAIN trajectories' = {}
  BY DEF Clear
<1>2. UNCHANGED <<last_target_weight_already_generated, arrivals>>
  BY DEF Clear
<1> QED BY <1>1, <1>2 DEF Buffer!ClearBuffer

\* Calls on the lists that leave them alone leave the set alone.
LEMMA ListsAreBuffer == UNCHANGED listVars => UNCHANGED Buffer!bufferVars
BY DEF listVars, lists, Buffer!bufferVars, GroupAt

\* The window of the lists is that of the set.
LEMMA SameWindow ==
  ASSUME NEW cur \in Versions
  PROVE  MinValid(cur) = Buffer!MinValidVersion(cur, MaxAge)
<1>1. cur \in Nat /\ MaxAge \in Nat
  BY ListConstants
<1>2. Max({0, cur - MaxAge}) = IF cur - MaxAge > 0 THEN cur - MaxAge ELSE 0
  BY <1>1, MaxOfTwo
<1> QED BY <1>2 DEF MinValid, Buffer!MinValidVersion

\* The intended groups are those at the positions meant for the version.
LEMMA SameIntended ==
  ASSUME ListInv, NEW cur \in Versions
  PROVE  /\ Buffer!Intended(cur, MaxAge) =
              {GroupAt(p) : p \in {q \in 1..Len(trajectories) : MeantFor(q, cur)}}
         /\ ~Stale(cur) => ~Buffer!SampleRaises(cur, MaxAge)
<1>1. PICK L, w : L = Len(trajectories) /\ w = MinValid(cur)
  OBVIOUS
<1>2. /\ Buffered = {GroupAt(p) : p \in 1..L} /\ DOMAIN trajectories = 1..L
      /\ w = Buffer!MinValidVersion(cur, MaxAge)
  BY <1>1, GroupIsTold, SameWindow DEF Buffered
<1>3. /\ cur \in Nat /\ MaxAge \in Nat /\ w \in Int
      /\ \A p \in 1..L : trajectory_versions[p] \in Nat
  <2>1. cur \in Nat /\ MaxAge \in Nat
    BY ListConstants
  <2>2. w \in Int
    BY <1>2, <2>1 DEF Buffer!MinValidVersion
  <2>3. \A p \in 1..L : trajectory_versions[p] \in Nat
    BY <1>1 DEF ListInv
  <2> QED BY <2>1, <2>2, <2>3
<1>4. \A p \in 1..L : MeantFor(p, cur) <=> /\ w <= GroupAt(p).ver /\ GroupAt(p).ver <= cur
                                           /\ GroupAt(p).tgt = cur
  BY <1>1, <1>3 DEF MeantFor, GroupAt
<1>5. Buffer!Intended(cur, MaxAge) =
        {g \in Buffered : w <= g.ver /\ g.ver <= cur /\ g.tgt = cur}
  BY <1>2 DEF Buffer!Intended, Buffered
<1>6. Buffer!Intended(cur, MaxAge) =
        {GroupAt(p) : p \in {q \in 1..L : MeantFor(q, cur)}}
  BY ONLY <1>2, <1>4, <1>5
<1>7. ASSUME ~Stale(cur) PROVE ~Buffer!SampleRaises(cur, MaxAge)
  <2>1. \A p \in 1..L : ~ trajectory_versions[p] < w
    BY <1>1, <1>2, <1>7 DEF Stale
  <2>2. \A g \in Buffered : ~ g.ver < w
    BY <1>2, <2>1 DEF GroupAt
  <2>3. Buffer!TooOld(cur, MaxAge) = {g \in Buffered : g.ver < w}
    BY <1>2 DEF Buffer!TooOld, Buffered
  <2> QED BY <2>2, <2>3 DEF Buffer!SampleRaises
<1> QED BY <1>1, <1>6, <1>7

\* A sample returns the oldest of the intended groups and takes those away.
LEMMA SampleRefines ==
  ASSUME ListInv, NEW n \in Counts, NEW cur \in Versions, Sample(n, cur)
  PROVE  \E sel \in SUBSET Buffered :
           /\ Buffer!SampleReturns(n, cur, MaxAge, sel)
           /\ {g.no : g \in sel} = ToSet(reply')
<1>1. PICK L : L = Len(trajectories)
  OBVIOUS
<1>2. PICK sel, e :
        /\ Ascending(sel, L) /\ Len(sel) = n
        /\ \A k \in 1..n : MeantFor(sel[k], cur)
        /\ \A p \in 1..L :
             MeantFor(p, cur) /\ (\A k \in 1..n : sel[k] # p) => \A k \in 1..n : sel[k] < p
        /\ Remaining(e, n, L, sel)
        /\ reply' = [i \in 1..n |-> trajectories[sel[i]]]
        /\ PoppedFrom(trajectories', trajectories, e, n)
        /\ PoppedFrom(trajectory_versions', trajectory_versions, e, n)
        /\ PoppedFrom(target_weight_versions', target_weight_versions, e, n)
  BY <1>1, SampleTakes
<1>3. /\ L \in Nat /\ n \in Nat /\ DOMAIN trajectories = 1..L
      /\ Len(trajectory_versions) = L /\ Len(target_weight_versions) = L
      /\ \A i, j \in 1..L : i < j => trajectories[i] < trajectories[j]
      /\ \A i, j \in 1..L : GroupAt(i) = GroupAt(j) => i = j
  BY <1>1, ListConstants, GroupIsTold DEF ListInv
<1>4. \A k \in 1..n : sel[k] \in 1..L
  <2>1. sel \in Seq(1..L) /\ Len(sel) = n
    BY <1>2 DEF Ascending
  <2>2. \A k \in 1..Len(sel) : sel[k] \in 1..L
    BY <2>1, SeqEntries
  <2> QED BY ONLY <2>1, <2>2
<1>5. PICK S : S = GroupsAt(sel)
  OBVIOUS
<1>6. S = {GroupAt(sel[k]) : k \in 1..n}
  BY <1>2, <1>5 DEF GroupsAt
<1>7. Buffered = {GroupAt(p) : p \in 1..L}
  BY <1>3 DEF Buffered
<1>8. PICK I : I = {GroupAt(p) : p \in {q \in 1..L : MeantFor(q, cur)}}
  OBVIOUS
<1>9. ASSUME NEW p \in 1..L
      PROVE  GroupAt(p) \in S <=> \E k \in 1..n : sel[k] = p
  BY <1>3, <1>4, <1>6
<1>10. S \in SUBSET I /\ S \in SUBSET Buffered
  BY <1>2, <1>4, <1>6, <1>7, <1>8
<1>11. Buffer!Cardinality(S) = n
  BY <1>1, <1>2, <1>5, GroupsCounted, BufferCounts
<1>12. ASSUME NEW g \in S, NEW h \in I \ S
       PROVE  g.no < h.no
  <2>1. PICK k \in 1..n : g = GroupAt(sel[k])
    BY <1>6
  <2>2. PICK p \in 1..L : MeantFor(p, cur) /\ h = GroupAt(p)
    BY <1>8
  <2>3. \A j \in 1..n : sel[j] # p
    BY <1>9, <2>2
  <2>4. sel[k] < p
    BY <1>2, <2>2, <2>3
  <2>5. trajectories[sel[k]] < trajectories[p]
    BY <1>3, <1>4, <2>4
  <2> QED BY <2>1, <2>2, <2>5 DEF GroupAt
<1>13. S \in Buffer!Oldest(Buffer!Intended(cur, MaxAge), n)
  <2>1. Buffer!Intended(cur, MaxAge) = I
    BY <1>1, <1>8, SameIntended
  <2> QED BY <1>10, <1>11, <1>12, <2>1 DEF Buffer!Oldest
<1>14. /\ e \in [1..(L - n) -> 1..L]
       /\ \A p \in 1..L : (\E i \in 1..(L - n) : e[i] = p) <=> \A k \in 1..n : sel[k] # p
  <2>1. /\ e \in [1..(L - n) -> 1..L]
        /\ \A p \in 1..L : (\E i \in 1..(L - n) : e[i] = p)
             <=> \A k \in (Len(sel) - n + 1)..Len(sel) : sel[k] # p
    BY <1>2 DEF Remaining
  <2>2. (Len(sel) - n + 1)..Len(sel) = 1..n
    BY <1>2, <1>3
  <2> QED BY <2>1, <2>2
<1>15. DOMAIN trajectories' = 1..(L - n)
       /\ \A i \in 1..(L - n) : GroupAt(i)' = GroupAt(e[i])
  <2>1. /\ Len(trajectories') = L - n /\ trajectories' \in Seq(Nat)
        /\ \A i \in 1..(L - n) : trajectories'[i] = trajectories[e[i]]
    BY <1>1, <1>2 DEF PoppedFrom
  <2>2. \A i \in 1..(L - n) : trajectory_versions'[i] = trajectory_versions[e[i]]
    BY <1>2, <1>3 DEF PoppedFrom
  <2>3. \A i \in 1..(L - n) : target_weight_versions'[i] = target_weight_versions[e[i]]
    BY <1>2, <1>3 DEF PoppedFrom
  <2> QED BY <2>1, <2>2, <2>3 DEF GroupAt
<1>16. Buffered' = {GroupAt(e[i]) : i \in 1..(L - n)}
  BY <1>15 DEF Buffered
<1>17. Buffered' = Buffered \ S
  <2>1. ASSUME NEW g \in Buffered' PROVE g \in Buffered \ S
    <3>1. PICK i \in 1..(L - n) : g = GroupAt(e[i])
      BY <1>16
    <3>2. e[i] \in 1..L /\ \A k \in 1..n : sel[k] # e[i]
      BY <1>14
    <3> QED BY <1>7, <1>9, <3>1, <3>2
  <2>2. ASSUME NEW g \in Buffered \ S PROVE g \in Buffered'
    <3>1. PICK p \in 1..L : g = GroupAt(p)
      BY <1>7
    <3>2. \A k \in 1..n : sel[k] # p
      BY <1>9, <3>1
    <3>3. PICK i \in 1..(L - n) : e[i] = p
      BY <1>14, <3>2
    <3> QED BY <1>16, <3>1, <3>3
  <2> QED BY <2>1, <2>2
<1>18. {g.no : g \in S} = ToSet(reply')
  <2>1. {g.no : g \in S} = {trajectories[sel[k]] : k \in 1..n}
    <3>1. \A k \in 1..n : GroupAt(sel[k]).no = trajectories[sel[k]]
      BY DEF GroupAt
    <3> QED BY ONLY <1>6, <3>1
  <2>2. ToSet(reply') = {trajectories[sel[k]] : k \in 1..n}
    BY <1>2 DEF ToSet
  <2> QED BY <2>1, <2>2
<1>19. /\ ~Buffer!SampleRaises(cur, MaxAge)
       /\ UNCHANGED <<last_target_weight_already_generated, arrivals>>
  BY SameIntended DEF Sample
<1>20. Buffer!SampleReturns(n, cur, MaxAge, S)
  BY <1>13, <1>17, <1>19 DEF Buffer!SampleReturns, Buffered
<1> QED BY <1>10, <1>18, <1>20

\* The lists implement the set of labelled groups: every call on them is the
\* call on the set, and a sample removes exactly the groups that it returned.
THEOREM ListsImplementBuffer == ListsSpec => ImplementsBuffer
<1>1. ListsInit => Buffer!BufferInit
  BY DEF ListsInit, Buffer!BufferInit, Buffer!NoTarget
<1>2. ListInv /\ [ListsNext]_listVars =>
        [\/ \E ver, tgt \in Versions : Buffer!Push(ver, tgt)
         \/ \E n \in Counts, cur \in Versions :
              \E sel \in SUBSET {GroupAt(i) : i \in DOMAIN trajectories} :
                /\ Buffer!SampleReturns(n, cur, MaxAge, sel)
                /\ {g.no : g \in sel} = ToSet(reply')
         \/ Buffer!ClearBuffer]_(Buffer!bufferVars)
  <2> SUFFICES ASSUME ListInv, [ListsNext]_listVars
               PROVE  \/ \E ver, tgt \in Versions : Buffer!Push(ver, tgt)
                      \/ \E n \in Counts, cur \in Versions :
                           \E sel \in SUBSET Buffered :
                             /\ Buffer!SampleReturns(n, cur, MaxAge, sel)
                             /\ {g.no : g \in sel} = ToSet(reply')
                      \/ Buffer!ClearBuffer
                      \/ UNCHANGED Buffer!bufferVars
    BY DEF Buffered
  <2>1. ASSUME NEW ver \in Versions, NEW tgt \in Versions, PushWithWaitSignal(ver, tgt)
        PROVE  Buffer!Push(ver, tgt)
    BY <2>1, PushRefines
  <2>2. ASSUME NEW n \in Counts, NEW cur \in Versions, Sample(n, cur)
        PROVE  \E sel \in SUBSET Buffered :
                 /\ Buffer!SampleReturns(n, cur, MaxAge, sel)
                 /\ {g.no : g \in sel} = ToSet(reply')
    BY <2>2, SampleRefines
  <2>3. Clear => Buffer!ClearBuffer
    BY ClearRefines
  <2>4. UNCHANGED listVars => UNCHANGED Buffer!bufferVars
    BY ListsAreBuffer
  <2> QED BY <2>1, <2>2, <2>3, <2>4 DEF ListsNext
<1> QED BY <1>1, <1>2, ListInit, ListStep, PTL DEF ListsSpec, ImplementsBuffer

\* Whatever was pushed, sampled and cleared, the lists (class ReplayBuffer)
\* have the same length and hold the groups in order of arrival.
THEOREM ListsInOrder == ListsSpec => []ListsTypeOK
<1>1. ListInv => ListsTypeOK
  <2> SUFFICES ASSUME ListInv PROVE ListsTypeOK
    OBVIOUS
  <2>1. /\ Len(trajectories) \in Nat /\ DOMAIN trajectories = 1..Len(trajectories)
        /\ IsFiniteSet(Buffered)
    BY GroupIsTold, BufferCounted
  <2>2. Buffered \in SUBSET Buffer!Group
    <3>1. \A i \in 1..Len(trajectories) :
            /\ trajectories[i] \in Nat /\ trajectory_versions[i] \in Nat
            /\ target_weight_versions[i] \in Nat
      BY DEF ListInv
    <3> QED BY <2>1, <3>1 DEF Buffered, GroupAt, Buffer!Group
  <2>3. Buffer!BufferTypeOK
    BY <2>1, <2>2 DEF Buffer!BufferTypeOK, Buffer!NoTarget, Buffered, ListInv,
       Buffer!IsFiniteSet, IsFiniteSet
  <2> QED BY <2>1, <2>3 DEF ListsTypeOK, ListInv
<1> QED BY <1>1, ListInit, ListStep, PTL DEF ListsSpec

=============================================================================
