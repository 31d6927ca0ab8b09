--------------------------- MODULE MCHistoryStore ---------------------------
(* Instances of HistoryStore for TLC. *)
EXTENDS HistoryStore

\* Consent given and saving switched on, switched on without consent,
\* switched off, a total below the session's limit (refused), a larger one.
MCPatches == {[enabled |-> TRUE, consent |-> TRUE], [enabled |-> TRUE],
              [enabled |-> FALSE], [max |-> 1], [max |-> 4]}

Symmetry == Permutations(SessionId) \cup Permutations(HistoryCaller)
=============================================================================
