----------------------------- MODULE MCPipeline -----------------------------
(* Pipeline with the texts that the tables and rules tell apart.           *)
EXTENDS Pipeline, TLC

CONSTANTS h1, h2

\* A text with no keyword at all, and the score of one table set.
Plain(h) == [head |-> h, blank |-> FALSE, outage |-> FALSE,
             titleBilling |-> FALSE, titleTechnical |-> FALSE,
             cats |-> <<0, 0, 0, 0>>, pris |-> <<0, 0, 0, 0>>]

MCTexts ==
  { Plain(h1),
    [Plain(h1) EXCEPT !.pris = <<1, 1, 1, 1>>],
    [Plain(h2) EXCEPT !.outage = TRUE, !.titleBilling = TRUE,
                      !.cats = <<1, 0, 0, 0>>, !.pris = <<1, 0, 0, 0>>],
    [Plain(h2) EXCEPT !.cats = <<0, 1, 0, 1>>, !.pris = <<0, 1, 0, 0>>],
    [Plain(h2) EXCEPT !.cats = <<0, 0, 0, 2>>, !.pris = <<2, 0, 1, 0>>] }

MCAnswers ==
  { [category |-> "bug", priority |-> "critical", confidence |-> 900],
    [category |-> "other", priority |-> "other", confidence |-> 0] }

Symmetry == Permutations(Runs) \cup Permutations(Workers)

=============================================================================
