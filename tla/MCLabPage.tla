----------------------------- MODULE MCLabPage ------------------------------
(* The instance of LabPage for TLC. *)
EXTENDS LabPage

\* A thread, its turn, and a request that Codex settles by itself.
MCObservations == {Plain("thread-started"), TurnStarted("turn"), Revoked(1)}
\* Up to a decision; less for a process that was restarted.
MCMaxGen == [simulation |-> <<4, 1>>, codex |-> <<5, 1>>]
=============================================================================
