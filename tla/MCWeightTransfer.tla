-------------------------- MODULE MCWeightTransfer --------------------------
(* Configurations of the weight transfer for the model checker. *)
EXTENDS WeightTransfer

Transfer(transport, sizes, limit) ==
  [transport |-> transport, ranks |-> 2, sizes |-> sizes, limit |-> limit,
   buffers |-> 2, tp |-> 2, refits |-> 1, faults |-> FALSE]

\* Parameters of one and of two aligned sizes; groups of two and of one; three
\* groups for two buffers; a group that is exactly full, and one that is last
\* and full; a parameter that fits into no buffer; one rank and two refits, or
\* two ranks; SGLang servers of one and of two ranks.
MCSetups ==
  {[Transfer("ipc", <<1, 2, 3, 1, 2>>, 8) EXCEPT !.ranks = 1, !.refits = 2,
                                                 !.faults = TRUE],
   Transfer("ipc", <<2, 1, 3>>, 8),
   [Transfer("ipc", <<2, 1, 3>>, 6) EXCEPT !.ranks = 1]}
  \cup {[Transfer("collective", sizes, 3) EXCEPT !.faults = f] :
          sizes \in {<<1, 2, 2, 3, 1, 4>>, <<4, 3, 1>>}, f \in BOOLEAN}
  \cup {[Transfer("collective", <<1, 3, 2, 1, 3, 1>>, 3) EXCEPT !.refits = 2]}
  \cup {[Transfer("http", <<1, 2, 3>>, 0) EXCEPT !.tp = t, !.faults = f,
                                                  !.refits = 2] :
          t \in {1, 2}, f \in BOOLEAN}

=============================================================================
