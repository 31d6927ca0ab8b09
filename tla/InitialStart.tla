---------------------------- MODULE InitialStart ----------------------------
(***************************************************************************)
(* The one-shot buffer of runtime/initial-start-delivery.ts.  The very     *)
(* first start event and its commentary wait here until both exist and a   *)
(* WebSocket client is open; every later session is broadcast directly.    *)
(* The operators map a buffer to the buffer an operation leaves.           *)
(***************************************************************************)
EXTENDS Naturals

NoGeneration == 0

\* `started`, `consumed`, and `pending`: the generation of the buffered event
\* (NoGeneration when there is none) and whether its commentary has arrived.
StartBuffer == [started : BOOLEAN, consumed : BOOLEAN,
                pending : Nat, ready : BOOLEAN]

EmptyStart == [started |-> FALSE, consumed |-> FALSE,
               pending |-> NoGeneration, ready |-> FALSE]

\* begin(): only the first call may buffer, and it does so only if nobody
\* is connected.
Buffers(b, nobodyConnected) == ~b.started /\ nobodyConnected

MutBegun(b, generation, nobodyConnected) ==
  IF nobodyConnected
  THEN [started |-> TRUE, consumed |-> FALSE,
        pending |-> generation, ready |-> FALSE]
  ELSE [b EXCEPT !.started = TRUE, !.consumed = TRUE]
Begun(b, generation, nobodyConnected) ==
  IF b.started THEN b
  ELSE IF nobodyConnected
       THEN [started |-> TRUE, consumed |-> FALSE,
             pending |-> generation, ready |-> FALSE]
       ELSE [b EXCEPT !.started = TRUE, !.consumed = TRUE]

\* setCommentary(): ignored once consumed, or for another generation.
MutWithCommentary(b, generation) ==
  IF b.consumed \/ b.pending = generation THEN b
  ELSE [b EXCEPT !.ready = TRUE]
WithCommentary(b, generation) ==
  IF b.consumed \/ b.pending # generation THEN b
  ELSE [b EXCEPT !.ready = TRUE]

\* invalidate() as index.ts calls it, without an argument.
Invalidated(b) ==
  [b EXCEPT !.consumed = TRUE, !.pending = NoGeneration, !.ready = FALSE]

\* tryDeliver(): the guard, and the buffer once both messages are sent.
Deliverable(b, someoneOpen) ==
  ~b.consumed /\ b.pending # NoGeneration /\ b.ready /\ someoneOpen

Consumed(b) ==
  [b EXCEPT !.consumed = TRUE, !.pending = NoGeneration, !.ready = FALSE]
=============================================================================
