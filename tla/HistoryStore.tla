---------------------------- MODULE HistoryStore ----------------------------
(***************************************************************************)
(* The history of sessions kept on disk, apps/server/src/history/store.ts: *)
(* a settings file, a manifest that lists the sessions with their counts,  *)
(* and one file of records per session.  Every operation that writes holds *)
(* the promise-chain lock and changes the disk in several steps; between   *)
(* two of them a call may fail or the process may end.  Settings or a      *)
(* manifest that cannot be read count as if there were none.               *)
(*                                                                         *)
(* Time counts days, sizes count units.  Session ids are UUIDs: an id is   *)
(* never used again.  Sessions that ended at the same time are pruned in   *)
(* any order (the code keeps the manifest's).                              *)
(***************************************************************************)
EXTENDS Naturals, Sequences, FiniteSets, FiniteSetsExt, SequencesExt

CONSTANTS
  SessionId,   \* ids the factory may return
  HistoryCaller,      \* concurrent callers of the store
  Sizes,       \* bytes of a record
  DefaultMax,  \* DEFAULT_HISTORY_MAX_BYTES and the limit per session
  DefaultMaxSession,
  Patches,     \* what updateSettings is called with
  MaxTime,     \* bound: the last day
  MaxFaults    \* bound: failing disk calls and crashes

ASSUME SizesAssumption ==
  /\ Sizes \subseteq Nat \ {0}
  /\ DefaultMaxSession \in Nat \ {0} /\ DefaultMax \in Nat /\ DefaultMaxSession <= DefaultMax
ASSUME BoundsAssumption == MaxTime \in Nat /\ MaxFaults \in Nat

VARIABLES
  now,         \* Date.now()
  settings,    \* settings/history.json, or the defaults while there is none
  manifest,    \* manifest.json: the listed sessions, none if there is no file
  files,       \* sessions/<id>.jsonl
  call,        \* per caller: the operation it awaits, and how far it got
  queue,       \* the chain of `operation` promises: callers, the lock's holder first
  faults,      \* failures so far
  \* Observed by the properties only:
  issued,      \* ids given out
  acked,       \* appendRecord calls per session that returned true
  damaged,     \* sessions one of whose appends was cut off
  dropped,     \* sessions that pruning or a deletion has chosen
  forgotten,   \* sessions a manifest was written without, as it could not be read
  overlooked   \* sessions not closed as saving went off, as a read had failed

stored == <<settings, manifest, files>>
listing == <<forgotten, overlooked>>
history == <<issued, acked, damaged, dropped, listing>>
historyVars == <<now, stored, call, queue, faults, history>>

Settings == [enabled : BOOLEAN, consent : BOOLEAN, days : Nat, max : Nat, maxSession : Nat]
Session == [status : {"active", "completed", "aborted"}, start : Nat, end : Nat,
            count : Nat, bytes : Nat]
\* Complete lines that parse, whether one does not, and what follows the
\* last newline: nothing, part of a record, or a record without its newline.
File == [good : Nat, bad : BOOLEAN, tail : {"none", "part", "whole"}]
Requests ==
  [op : {"delete", "deleteAll", "enforce", "settings"}] \cup [op : {"create"}, id : SessionId]
  \cup [op : {"append"}, id : SessionId, size : Sizes]
Steps == {"list", "prune", "append", "count", "unlist", "tree", "settings"}
\* A function from some of the ids to values of a set.
PerSession(f, Value) == \E S \in SUBSET SessionId : f \in [S -> Value]

\* A caller that waits for nothing; one whose operation has not taken the
\* lock; and one whose operation is under way: what was asked, the step it is
\* at, the manifest it has in memory, the settings it goes by (updateSettings:
\* those it will save), and the time pruneLocked counts retention from.
Free == [at |-> "idle"]
Queued == [at |-> "queued"]
IsCall(x) ==
  /\ DOMAIN x = {"req", "at", "m", "by", "since"}
  /\ x.req \in Requests /\ x.at \in Steps /\ PerSession(x.m, Session)
  /\ x.by \in Settings /\ x.since \in Nat

\* updateSettings is typed: a patch gives some of the settings.
ASSUME PatchesAssumption ==
  \A p \in Patches :
    /\ \A k \in DOMAIN p \cap {"enabled", "consent"} : p[k] \in BOOLEAN
    /\ \A k \in DOMAIN p \cap {"days", "max", "maxSession"} : p[k] \in Nat

Defaults == [enabled |-> FALSE, consent |-> FALSE, days |-> 1,
             max |-> DefaultMax, maxSession |-> DefaultMaxSession]
NewSession == [status |-> "active", start |-> now, end |-> 0, count |-> 0, bytes |-> 0]
EmptyFile == [good |-> 0, bad |-> FALSE, tail |-> "none"]

Without(f, i) == [j \in DOMAIN f \ {i} |-> f[j]]
With(f, i, v) == [j \in DOMAIN f \cup {i} |-> IF j = i THEN v ELSE f[j]]
Total(m) == MapThenSumSet(LAMBDA i : m[i].bytes, DOMAIN m)
Active(m) == {i \in DOMAIN m : m[i].status = "active"}
EndTime(s) == IF s.status = "active" THEN s.start ELSE s.end

\* parseJsonLines: an incomplete last line is skipped, any other fails the read.
Records(i) ==
  IF i \notin DOMAIN files THEN 0
  ELSE files[i].good + (IF files[i].tail = "whole" THEN 1 ELSE 0)
Unreadable(i) == i \in DOMAIN files /\ files[i].bad

-----------------------------------------------------------------------------
(* withLock: the callers run one after the other, in the order they came;  *)
(* the lock is released however the operation ends.                        *)

MutHoldsLock(c) == call[c] # Free
HoldsLock(c) == queue # <<>> /\ Head(queue) = c

Resolved(c) == [call EXCEPT ![c] = Free]
Return(c) == call' = Resolved(c) /\ queue' = Tail(queue)
\* The operation goes on from `step` with the manifest `m` in memory.
GoOn(c, step, m) ==
  call' = [call EXCEPT ![c].at = step, ![c].m = m] /\ UNCHANGED queue

\* The arguments of a queued call are chosen when it takes the lock: nothing
\* looks at them before.
Ask(c) ==
  /\ call[c] = Free
  /\ call' = [call EXCEPT ![c] = Queued] /\ queue' = Append(queue, c)
  /\ UNCHANGED <<now, stored, faults, history>>

Running(c) == HoldsLock(c) /\ call[c] \notin {Free, Queued}
At(c, step) == Running(c) /\ call[c].at = step
Begins(c) == HoldsLock(c) /\ call[c] = Queued
Req(c) == call[c].req
Goes(c, r, step, m, by) ==
  /\ call' = [call EXCEPT ![c] = [req |-> r, at |-> step, m |-> m, by |-> by,
                                  since |-> IF step = "prune" THEN now ELSE 0]]
  /\ UNCHANGED queue

\* readSettings and readManifest: a file that cannot be read, or does not hold
\* what it should, gives the defaults, or an empty manifest.
MayFail(unread) ==
  IF unread = {} THEN UNCHANGED faults ELSE faults < MaxFaults /\ faults' = faults + 1
ReadSettings(unread) == IF "settings" \in unread THEN Defaults ELSE settings
ReadManifest(unread) == IF "manifest" \in unread THEN <<>> ELSE manifest

(* createSession: the empty file first, then the manifest, read again.     *)

Create(c) ==
  /\ Begins(c)
  /\ \E unread \in SUBSET {"settings"} :
       /\ MayFail(unread)
       /\ IF ~ReadSettings(unread).enabled THEN Return(c) /\ UNCHANGED <<files, issued>>
          ELSE \E i \in SessionId \ issued :
                 /\ issued' = issued \cup {i} /\ files' = With(files, i, EmptyFile)
                 /\ Goes(c, [op |-> "create", id |-> i], "list", <<>>, settings)
  /\ UNCHANGED <<now, settings, manifest, acked, damaged, dropped, listing>>

ListCreated(c) ==
  /\ At(c, "list")
  /\ \E unread \in SUBSET {"manifest"} :
       /\ MayFail(unread)
       /\ manifest' = With(ReadManifest(unread), Req(c).id, NewSession)
  /\ forgotten' = forgotten \cup (DOMAIN manifest \ DOMAIN manifest')
  /\ Return(c)
  /\ UNCHANGED <<now, settings, files, issued, acked, damaged, dropped, overlooked>>

(* appendRecord: prune, append, then count.                                *)

Fits(s, size) == s.bytes + size <= settings.maxSession

\* Settings that cannot be read are disabled, and a manifest that cannot be
\* read lists no session: in both cases nothing is appended.
AppendBegins(c) ==
  /\ Begins(c)
  /\ \E r \in [op : {"append"}, id : SessionId, size : Sizes],
        unread \in SUBSET {"settings", "manifest"} :
       /\ MayFail(unread)
       /\ IF /\ ReadSettings(unread).enabled
             /\ r.id \in Active(ReadManifest(unread)) /\ Fits(manifest[r.id], r.size)
          THEN Goes(c, r, "prune", manifest, settings) ELSE Return(c)
  /\ UNCHANGED <<now, stored, history>>

Enforce(c) ==
  /\ Begins(c)
  /\ \E unread \in SUBSET {"settings", "manifest"} :
       /\ MayFail(unread)
       /\ Goes(c, [op |-> "enforce"], "prune", ReadManifest(unread), ReadSettings(unread))
  /\ UNCHANGED <<now, stored, history>>

\* pruneLocked: sessions that are over, oldest first, while they are
\* expired or the total does not leave room.
Added(c) == IF Req(c).op = "append" THEN Req(c).size ELSE 0
MutCandidates(m) == DOMAIN m
Candidates(m) == DOMAIN m \ Active(m)
Oldest(m) == {i \in Candidates(m) : \A j \in Candidates(m) : EndTime(m[i]) <= EndTime(m[j])}
Expired(c, i) == EndTime(call[c].m[i]) + call[c].by.days < call[c].since
MutOverLimit(c) == Total(call[c].m) > call[c].by.max
OverLimit(c) == Total(call[c].m) + Added(c) > call[c].by.max
Prunable(c) == {i \in Oldest(call[c].m) : OverLimit(c) \/ Expired(c, i)}

PruneOne(c) ==
  /\ At(c, "prune")
  /\ \E i \in Prunable(c) :
       /\ files' = Without(files, i)
       /\ GoOn(c, "prune", Without(call[c].m, i))
       /\ dropped' = dropped \cup {i}
  /\ UNCHANGED <<now, settings, manifest, faults, issued, acked, damaged, listing>>

\* Thrown before the manifest is written.
StorageLimit(c) ==
  /\ At(c, "prune") /\ Prunable(c) = {} /\ OverLimit(c)
  /\ Return(c)
  /\ UNCHANGED <<now, stored, faults, history>>

Pruned(c) ==
  /\ At(c, "prune") /\ Prunable(c) = {} /\ ~OverLimit(c)
  /\ manifest' = call[c].m
  /\ forgotten' = forgotten \cup (DOMAIN manifest \ (DOMAIN manifest' \cup dropped))
  /\ IF Req(c).op = "append" THEN GoOn(c, "append", call[c].m) ELSE Return(c)
  /\ UNCHANGED <<now, settings, files, faults, issued, acked, damaged, dropped, overlooked>>

\* A record appended behind an incomplete line makes one line with it.
Appended(f) ==
  IF f.tail = "none" THEN [f EXCEPT !.good = @ + 1] ELSE [f EXCEPT !.bad = TRUE, !.tail = "none"]
Torn(f, tail) == [f EXCEPT !.tail = IF @ = "none" THEN tail ELSE "part"]
\* appendFile creates a file that is not there.
FileOf(i) == IF i \in DOMAIN files THEN files[i] ELSE EmptyFile

AppendFile(c) ==
  /\ At(c, "append")
  /\ files' = With(files, Req(c).id, Appended(FileOf(Req(c).id)))
  /\ GoOn(c, "count", call[c].m)
  /\ UNCHANGED <<now, settings, manifest, faults, history>>

Counted(m, i, size) == [m EXCEPT ![i].count = @ + 1, ![i].bytes = @ + size]

Count(c) ==
  /\ At(c, "count")
  /\ manifest' = Counted(call[c].m, Req(c).id, Req(c).size)
  /\ acked' = [acked EXCEPT ![Req(c).id] = @ + 1]
  /\ Return(c)
  /\ UNCHANGED <<now, settings, files, faults, issued, damaged, dropped, listing>>

(* endSession, deleteSession and deleteAllSessions.                        *)

Ended(m, i, status) == [m EXCEPT ![i].status = status, ![i].end = now]

EndSession(c) ==
  /\ Begins(c)
  /\ \E i \in SessionId, status \in {"completed", "aborted"}, unread \in SUBSET {"manifest"} :
       /\ MayFail(unread)
       /\ manifest' = IF i \in Active(ReadManifest(unread)) THEN Ended(manifest, i, status)
                      ELSE manifest
  /\ Return(c)
  /\ UNCHANGED <<now, settings, files, history>>

Delete(c) ==
  /\ Begins(c)
  /\ \E i \in SessionId, unread \in SUBSET {"manifest"} :
     /\ MayFail(unread)
     /\ IF i \notin DOMAIN ReadManifest(unread) THEN Return(c) /\ UNCHANGED <<files, dropped>>
        ELSE LET last == DOMAIN manifest = {i}
             IN /\ files' = Without(files, i)
                /\ dropped' = dropped \cup {i} \cup (IF last THEN DOMAIN files ELSE {})
                /\ Goes(c, [op |-> "delete"], IF last THEN "tree" ELSE "unlist",
                        Without(manifest, i), settings)
  /\ UNCHANGED <<now, settings, manifest, issued, acked, damaged, listing>>

Unlist(c) ==
  /\ At(c, "unlist")
  /\ manifest' = call[c].m
  /\ Return(c)
  /\ UNCHANGED <<now, settings, files, faults, history>>

DeleteAll(c) ==
  /\ Begins(c)
  /\ dropped' = dropped \cup DOMAIN manifest \cup DOMAIN files
  /\ Goes(c, [op |-> "deleteAll"], "tree", <<>>, settings)
  /\ UNCHANGED <<now, stored, faults, issued, acked, damaged, listing>>

\* rm -r of the history directory: one entry at a time, in any order.
RemoveEntry(c) ==
  /\ At(c, "tree")
  /\ \/ \E i \in DOMAIN files : files' = Without(files, i) /\ UNCHANGED manifest
     \/ manifest # <<>> /\ manifest' = <<>> /\ UNCHANGED files
  /\ UNCHANGED <<now, settings, call, queue, faults, history>>

TreeRemoved(c) ==
  /\ At(c, "tree") /\ files = <<>> /\ manifest = <<>>
  /\ Return(c)
  /\ UNCHANGED <<now, stored, faults, history>>

(* updateSettings: disabling first ends the sessions, then saves.          *)

Patched(s, p) == [k \in DOMAIN s |-> IF k \in DOMAIN p THEN p[k] ELSE s[k]]
Valid(s) == s.days > 0 /\ s.maxSession > 0 /\ s.maxSession <= s.max
Consented(s) == s.enabled => s.consent
MutAborted(m) == m
Aborted(m) == [i \in DOMAIN m |-> IF m[i].status = "active"
                                  THEN [m[i] EXCEPT !.status = "aborted", !.end = now] ELSE m[i]]

Update(c) ==
  /\ Begins(c)
  /\ \E p \in Patches, unread \in SUBSET {"settings", "manifest"} :
     LET current == ReadSettings(unread)
         next    == Patched(current, p)
         m       == ReadManifest(unread)
     IN /\ MayFail(unread)
        /\ IF Valid(next) /\ Consented(next)
           THEN /\ manifest' = IF current.enabled /\ ~next.enabled /\ Active(m) # {}
                               THEN Aborted(m) ELSE manifest
                /\ overlooked' = IF unread # {} /\ ~next.enabled
                                 THEN overlooked \cup Active(manifest) ELSE overlooked
                /\ Goes(c, [op |-> "settings"], "settings", <<>>, next)
           ELSE Return(c) /\ UNCHANGED <<manifest, overlooked>>
  /\ UNCHANGED <<now, settings, files, issued, acked, damaged, dropped, forgotten>>

SaveSettings(c) ==
  /\ At(c, "settings")
  /\ settings' = call[c].by
  /\ Return(c)
  /\ UNCHANGED <<now, manifest, files, faults, history>>

(* What else goes wrong, and time.                                         *)

\* The disk call the operation awaits fails and changes nothing: writeAtomic
\* removes its temporary file.
DiskError(c) ==
  /\ Running(c)
  /\ faults < MaxFaults /\ faults' = faults + 1
  /\ Return(c)
  /\ UNCHANGED <<now, stored, history>>

Cut(c) ==
  \E tail \in {"part", "whole"} :
    /\ files' = With(files, Req(c).id, Torn(FileOf(Req(c).id), tail))
    /\ damaged' = damaged \cup {Req(c).id}

AppendFails(c) ==
  /\ At(c, "append")
  /\ faults < MaxFaults /\ faults' = faults + 1
  /\ Cut(c)
  /\ Return(c)
  /\ UNCHANGED <<now, settings, manifest, issued, acked, dropped, listing>>

\* The process ends, perhaps in the middle of an append, and starts again.
Crash ==
  /\ faults < MaxFaults /\ faults' = faults + 1
  /\ \/ UNCHANGED <<files, damaged>>
     \/ \E c \in HistoryCaller : At(c, "append") /\ Cut(c)
  /\ call' = [c \in HistoryCaller |-> Free] /\ queue' = <<>>
  /\ UNCHANGED <<now, settings, manifest, issued, acked, dropped, listing>>

Tick ==
  /\ now < MaxTime /\ now' = now + 1
  /\ UNCHANGED <<stored, call, queue, faults, history>>

HistoryInit ==
  /\ now = 0 /\ faults = 0
  /\ settings = Defaults /\ manifest = <<>> /\ files = <<>>
  /\ call = [c \in HistoryCaller |-> Free] /\ queue = <<>>
  /\ issued = {} /\ acked = [i \in SessionId |-> 0] /\ damaged = {} /\ dropped = {}
  /\ forgotten = {} /\ overlooked = {}

Serve(c) ==
  \/ Create(c) \/ ListCreated(c)
  \/ AppendBegins(c) \/ Enforce(c) \/ PruneOne(c) \/ StorageLimit(c) \/ Pruned(c)
  \/ AppendFile(c) \/ Count(c)
  \/ EndSession(c) \/ Delete(c) \/ Unlist(c)
  \/ DeleteAll(c) \/ RemoveEntry(c) \/ TreeRemoved(c)
  \/ Update(c) \/ SaveSettings(c)

HistoryNext ==
  \/ \E c \in HistoryCaller : Ask(c) \/ Serve(c) \/ DiskError(c) \/ AppendFails(c)
  \/ Crash \/ Tick

HistorySpec == HistoryInit /\ [][HistoryNext]_historyVars

-----------------------------------------------------------------------------
HistoryTypeOK ==
  /\ now \in Nat /\ faults \in Nat
  /\ settings \in Settings
  /\ PerSession(manifest, Session) /\ PerSession(files, File)
  /\ DOMAIN call = HistoryCaller /\ \A c \in HistoryCaller : call[c] \in {Free, Queued} \/ IsCall(call[c])
  /\ queue \in Seq(HistoryCaller)
  /\ issued \subseteq SessionId /\ acked \in [SessionId -> Nat]
  /\ damaged \subseteq SessionId /\ dropped \subseteq SessionId
  /\ forgotten \subseteq SessionId /\ overlooked \subseteq SessionId

\* The lock is handed on whatever the operation before came to: exactly the
\* callers that await something stand in the chain, once each, and only the
\* first of them has begun (withLock, store.ts:717).
LockIsHandedOn ==
  /\ \A c \in HistoryCaller : call[c] # Free <=> \E k \in DOMAIN queue : queue[k] = c
  /\ \A j, k \in DOMAIN queue : queue[j] = queue[k] => j = k
  /\ \A k \in DOMAIN queue : k > 1 => call[queue[k]] = Queued

\* Once saving is off no session is left open that a later consent would go
\* on filling (updateSettings, store.ts:311), but those which an update that
\* could not read the settings or the manifest did not see.
DisabledMeansClosed == ~settings.enabled => Active(manifest) \subseteq overlooked

\* The manifest an operation has in memory, read when it took the lock, is
\* still the one on disk but for sessions that pruning or a deletion chose,
\* or is empty for enforceLimits, which goes on when it cannot read it.
InMemory(c) ==
  LET m == call[c].m
  IN call[c].at \in {"prune", "append", "count", "unlist"} =>
       /\ DOMAIN m \subseteq DOMAIN manifest
       /\ \A i \in DOMAIN m : m[i] = manifest[i]
       /\ \/ DOMAIN manifest \ DOMAIN m \subseteq dropped
          \/ call[c].at = "prune" /\ Req(c).op = "enforce" /\ m = <<>>
       /\ Req(c).op = "append" => Req(c).id \in Active(m) /\ call[c].by = settings

\* What else an operation may rely on when it goes on after an await, because
\* it holds the lock.
Holding(c) ==
  LET at == call[c].at
  IN /\ at = "list" => /\ settings.enabled /\ Req(c).op = "create"
                       /\ Req(c).id \in issued \ (DOMAIN manifest \cup forgotten)
     /\ at \in {"append", "count"} => Req(c).op = "append"
     /\ at = "tree" => DOMAIN manifest \cup DOMAIN files \subseteq dropped
     /\ at = "settings" /\ ~call[c].by.enabled => Active(manifest) \subseteq overlooked
     /\ at = "count" /\ Req(c).id \notin dropped \cup damaged =>
          call[c].m[Req(c).id].count < Records(Req(c).id)

NothingChangesMeanwhile ==
  /\ \A c \in HistoryCaller : Running(c) => InMemory(c) /\ Holding(c)
  /\ DOMAIN manifest \cup forgotten \subseteq issued
  /\ \A i \in DOMAIN files \ damaged : ~files[i].bad /\ files[i].tail = "none"

\* The lock, the settings and the manifest agree after every step and fault,
\* and what an operation read before an await is still so when it writes:
\* but for what the fallbacks of a failed read are known to break.
StoreInv == HistoryTypeOK /\ LockIsHandedOn /\ DisabledMeansClosed /\ NothingChangesMeanwhile

\* The bookkeeping never promises more than the disk holds: of a session
\* whose file no pruning or deletion has chosen and no append was cut off in,
\* the records acknowledged are counted, and those counted can be read, also
\* after any crash (appendRecord, store.ts:405).  A failed read may take a
\* session from the list, but not its records from its file.
CountsAreHeld ==
  \A i \in SessionId \ (dropped \cup damaged) :
    /\ i \in DOMAIN manifest => /\ acked[i] <= manifest[i].count
                                /\ manifest[i].count <= Records(i)
    /\ i \notin DOMAIN manifest \cup forgotten => acked[i] = 0
    /\ acked[i] <= Records(i)
    /\ ~Unreadable(i)

\* Limits never cost a session that is being recorded: an active session's
\* file is removed only by a deletion somebody asked for (pruneLocked,
\* store.ts:656).
ActiveIsNotPruned ==
  [][\A i \in Active(manifest) :
       i \in DOMAIN files \ DOMAIN files' =>
         \E c \in HistoryCaller :
           \/ call[c] = Queued /\ call'[c] # Queued /\ call'[c].req.op = "delete"
           \/ At(c, "tree")]_historyVars

\* Whenever a record is acknowledged, the sessions listed are within the
\* total limit, and its session within its own (appendRecord, store.ts:427).
AckedWithinLimits ==
  [][acked' # acked =>
       /\ Total(manifest') <= settings.max
       /\ \A i \in DOMAIN manifest' :
            acked'[i] # acked[i] => manifest'[i].bytes <= settings.maxSession]_historyVars

\* "A crash can leave only the final JSONL line incomplete" (store.ts:279).
OnlyLastLineIncomplete == \A i \in SessionId : ~Unreadable(i)
=============================================================================
