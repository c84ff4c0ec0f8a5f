--------------------------- MODULE MCIntegrations ---------------------------
(***************************************************************************)
(* An instance of Integrations for TLC.                                    *)
(***************************************************************************)
EXTENDS Integrations, TLC

\* Two scenes: requests of the ticket service racing among themselves, or
\* deliveries and other calls about the integration, racing each other and one
\* request.
Scene ==
  \/ \A c \in HookCalls : ipc[c] = "idle"
  \/ Cardinality({r \in Requests \ Ingests : pc[r] # "idle"}) <= 1

\* Calls of one kind are interchangeable.
Symmetry == Permutations(Ingests) \cup Permutations(Tickets \ Ingests)
            \cup Permutations(Tests) \cup Permutations(Deletes)

=============================================================================
