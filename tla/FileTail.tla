------------------------------ MODULE FileTail ------------------------------
(***************************************************************************)
(* input/file-tail.ts: follow a log file that another process appends to   *)
(* and may truncate.  A change event starts a read: fs.stat, then a stream *)
(* of what lies between the read position and the size that was found.     *)
(*                                                                         *)
(* The lines ever written are numbered 1, 2, ...: the file holds the lines *)
(* base+1 .. written, and a position counts lines of the present file.     *)
(***************************************************************************)
EXTENDS Naturals, FiniteSets

CONSTANTS
  TailLines,    \* how many lines are shown at the start
  MaxWritten    \* bound: number of lines

ASSUME TailLinesAssumption == TailLines \in Nat
ASSUME BoundAssumption == MaxWritten \in Nat

VARIABLES
  base,      \* lines that truncations have removed
  written,   \* lines written so far
  changed,   \* a change event is due
  phase,     \* "new", "shown", "watching" (this.watcher # null) or "stopped"
  position,  \* this.readPosition
  reading,   \* "no", "stat" or "stream": this.isReading and what it awaits
  found,     \* the size that fs.stat found
  emitted,   \* lines emitted as data
  repeated,  \* a line was emitted more than once
  failed,    \* a read has failed
  first      \* the first line that was emitted at the start

fileVars == <<base, written>>
readVars == <<position, reading, found>>
dataVars == <<emitted, repeated, failed, first>>
tailVars == <<fileVars, changed, phase, readVars, dataVars>>

Size == written - base

Emit(lines) ==
  /\ emitted' = emitted \cup lines
  /\ repeated' = (repeated \/ lines \cap emitted # {})

-----------------------------------------------------------------------------
(* The process that writes the log.                                        *)

Write ==
  /\ written < MaxWritten
  /\ written' = written + 1
  /\ changed' = (changed \/ phase = "watching")
  /\ UNCHANGED <<base, phase, readVars, dataVars>>

Truncate ==
  /\ Size > 0
  /\ base' = written
  /\ changed' = (changed \/ phase = "watching")
  /\ UNCHANGED <<written, phase, readVars, dataVars>>

-----------------------------------------------------------------------------
(* The tail.                                                               *)

\* start(): the end of the file is shown, and the whole of it counts as read.
ShownFrom == IF Size > TailLines THEN written - TailLines + 1 ELSE base + 1

Show ==
  /\ phase = "new"
  /\ phase' = "shown"
  /\ position' = Size
  /\ first' = ShownFrom
  /\ Emit(ShownFrom .. written)
  /\ UNCHANGED <<fileVars, changed, reading, found, failed>>

\* The writer may append before fs.watch is called.
Watch ==
  /\ phase = "shown"
  /\ phase' = "watching"
  /\ UNCHANGED <<fileVars, changed, readVars, dataVars>>

\* The "change" event: ignored while a read is under way.
Change ==
  /\ changed /\ phase = "watching"
  /\ changed' = FALSE
  /\ reading' = IF reading = "no" THEN "stat" ELSE reading
  /\ UNCHANGED <<fileVars, phase, position, found, dataVars>>

\* fs.stat succeeds: a smaller size means a truncated file, an equal one that
\* there is nothing to read.
MutStatNoReset ==
  /\ reading = "stat"
  /\ found' = Size
  /\ reading' = IF Size <= position THEN "no" ELSE "stream"
  /\ UNCHANGED <<fileVars, changed, phase, position, dataVars>>
Stat ==
  /\ reading = "stat"
  /\ found' = Size
  /\ position' = IF Size < position THEN 0 ELSE position
  /\ reading' = IF Size <= position' THEN "no" ELSE "stream"
  /\ UNCHANGED <<fileVars, changed, phase, dataVars>>

\* The stream ends: it has read what the file now holds between the position
\* and the size found, and the position moves to that size.
MinOf(a, b) == IF a <= b THEN a ELSE b
Chunk == (base + position + 1) .. (base + MinOf(found, Size))

MutStreamEnds ==
  /\ reading = "stream"
  /\ reading' = "no"
  /\ position' = Size
  /\ Emit(Chunk)
  /\ UNCHANGED <<fileVars, changed, phase, found, failed, first>>
StreamEnds ==
  /\ reading = "stream"
  /\ reading' = "no"
  /\ position' = found
  /\ Emit(Chunk)
  /\ UNCHANGED <<fileVars, changed, phase, found, failed, first>>

\* fs.stat or the stream reports an error: the position stays.
ReadFails ==
  /\ reading # "no"
  /\ reading' = "no" /\ failed' = TRUE
  /\ UNCHANGED <<fileVars, changed, phase, position, found, emitted, repeated, first>>

\* stop(): a read that is under way goes on.
Stop ==
  /\ phase = "watching"
  /\ phase' = "stopped" /\ changed' = FALSE
  /\ UNCHANGED <<fileVars, readVars, dataVars>>

TailInit ==
  /\ base = 0 /\ written \in 0 .. MaxWritten /\ changed = FALSE
  /\ phase = "new" /\ position = 0 /\ reading = "no" /\ found = 0
  /\ emitted = {} /\ repeated = FALSE /\ failed = FALSE /\ first = 0

TailNext ==
  \/ Write \/ Truncate
  \/ Show \/ Watch \/ Change \/ Stat \/ StreamEnds \/ ReadFails \/ Stop

TailSpec == TailInit /\ [][TailNext]_tailVars

\* Events are delivered and file operations end, one way or another; writers
\* and stops owe nothing.
TailFairSpec ==
  /\ TailSpec
  /\ WF_tailVars(Watch) /\ WF_tailVars(Change) /\ WF_tailVars(Stat \/ StreamEnds \/ ReadFails)

-----------------------------------------------------------------------------

TailTypeOK ==
  /\ base \in Nat /\ written \in Nat /\ base <= written
  /\ changed \in BOOLEAN /\ repeated \in BOOLEAN /\ failed \in BOOLEAN
  /\ phase \in {"new", "shown", "watching", "stopped"}
  /\ position \in Nat /\ found \in Nat /\ first \in Nat
  /\ reading \in {"no", "stat", "stream"}
  /\ emitted \subseteq Nat

\* Until the file is truncated, what was emitted is exactly what lies between
\* the first shown line and the read position: failing reads, ignored events
\* and a stop in the middle of a read neither skip a line nor repeat one.
ExactlyTheReadLines ==
  base = 0 =>
    /\ ~repeated
    /\ phase # "new" => emitted = first .. position

\* What makes that inductive: until then a read never asks for lines beyond
\* the end of the file, and the position never passes the size that was found.
TailInv ==
  base = 0 =>
    /\ position <= written
    /\ reading = "stream" => position <= found /\ found <= written
    /\ phase = "new" => reading = "no" /\ emitted = {}
    /\ phase # "new" => first >= 1 /\ first <= position + 1
    /\ ExactlyTheReadLines

\* A change event that finds the tail idle has everything emitted that was
\* written by then, unless the file is truncated or a read fails.
IdleChangeIsRead ==
  \A n \in 1 .. MaxWritten :
    (written = n /\ base = 0 /\ changed /\ reading = "no" /\ phase = "watching")
      ~> (n \in emitted \/ n < first \/ base > 0 \/ failed \/ phase = "stopped")

\* A truncated file that is still shorter than the read position when an idle
\* tail learns of a change is read from its beginning, unless the writer goes
\* on first or the read fails.
ShortFileIsReread ==
  \A b, n \in 1 .. MaxWritten :
    ( /\ base = b /\ written = n /\ Size < position
      /\ changed /\ reading = "no" /\ phase = "watching" )
      ~> (b + 1 .. n \subseteq emitted \/ base # b \/ written # n \/ failed
            \/ phase = "stopped")

\* A change of the file reaches the page: neither an event that comes while
\* nothing is read nor a truncation below the read position is lost.
ChangesAreRead == IdleChangeIsRead /\ ShortFileIsReread
=============================================================================
