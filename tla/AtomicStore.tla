---------------------------- MODULE AtomicStore -----------------------------
(***************************************************************************)
(* What the profile store promises its caller: one store, that each        *)
(* operation changes in one step or not at all.  A server that could not   *)
(* read the store goes on with an empty one, until it is started again or  *)
(* its first change replaces what was there.                               *)
(***************************************************************************)
EXTENDS ProfileOps

VARIABLES
  store,
  unread  \* the store could not be read

vars == <<store, unread>>

Init == store = EmptyStore /\ unread = FALSE

Base == IF unread THEN EmptyStore ELSE store

Perform(op) ==
  /\ ~Throws(op, Base)
  /\ store' = Effect(op, Base)
  /\ unread' = FALSE

ReadAgain == unread' \in BOOLEAN /\ UNCHANGED store

Next == (\E op \in Op : Perform(op)) \/ ReadAgain

Spec == Init /\ [][Next]_vars
=============================================================================
