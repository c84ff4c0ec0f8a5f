----------------------------- MODULE MCInsights -----------------------------
(***************************************************************************)
(* An instance of the ticket service and the workers with their books and  *)
(* their insights for TLC.                                                 *)
(***************************************************************************)
EXTENDS Insights, TLC

Begun == {r \in Requests : pc[r] # "idle"}

UnderWay == {r \in Begun : pc[r] \notin Ended}

\* Two calls at a time are under way, and three in all move the ticket.  What one
\* that stopped or was refused has left is what it had committed, and what a job
\* that was given up or lost has left is what a slow one has by then.
Scene ==
  /\ Cardinality(UnderWay) <= 2
  /\ \A r \in Begun : pc[r] \notin {"stopped", "rejected"}
  /\ Cardinality(Begun \cap (Moves \cup BulkCloses)) <= 3
  /\ \A j \in Jobs : arq[j].state \notin {"failed", "lost"}

\* The bulk calls are interchangeable.
Symmetry == Permutations(BulkCloses)

=============================================================================
