---------------------------- MODULE MCAsyncGRPO ----------------------------
(***************************************************************************)
(* Instances of AsyncGRPO for TLC.  A configuration gives the numbers; the *)
(* constants the code derives from them are defined here.                  *)
(***************************************************************************)
EXTENDS AsyncGRPO, TLC

CONSTANTS w1, w2

MCMaxSize == NumPrompts * MaxAge * 2
MCTargets == StartStep .. LastVersion + MaxAge
MCOneSlot == {w1}
MCTwoSlots == {w1, w2}

\* Worker slots are interchangeable in the runs without liveness properties.
SlotSymmetry == Permutations(Slots)
=============================================================================
