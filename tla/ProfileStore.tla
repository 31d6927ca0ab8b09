---------------------------- MODULE ProfileStore ----------------------------
(***************************************************************************)
(* profile/manager.ts and profile/store.ts: a store cached in memory and   *)
(* written as a whole file by an atomic rename.  An operation reads the    *)
(* cache (or loads the file), computes the next store, and writes it; it   *)
(* awaits file operations in between, and nothing keeps another operation  *)
(* from starting meanwhile.  A file that cannot be read counts as empty.   *)
(***************************************************************************)
EXTENDS ProfileOps

CONSTANTS
  Caller,  \* message handlers that may be inside the store at the same time
  NoStore  \* cachedStore = null

ASSUME NoStoreAssumption == NoStore \notin Store

VARIABLES
  disk,   \* the contents of profiles.json
  cache,  \* cachedStore
  calls,  \* what each handler is doing
  used,   \* ids that randomUUID has returned
  \* Observed by the properties only:
  overlapped, \* two handlers have been inside at once since the last restart
  misread     \* the file could not be read, and was not written since

observedVars == <<overlapped, misread>>
storeVars == <<disk, cache, calls, used, observedVars>>

Idle == [pc |-> "idle"]
Read == [kind |-> "read"]

\* A call awaits readFile, the continuation of readFile, writeFile and rename,
\* or the continuation of rename.
Call == {Idle}
  \cup [pc : {"loading"}, op : Op \cup {Read}]
  \cup [pc : {"loaded"}, op : Op \cup {Read}, store : Store]
  \cup [pc : {"saving", "renamed"}, store : Store]

StoreInit ==
  /\ disk = EmptyStore
  /\ cache = NoStore
  /\ calls = [c \in Caller |-> Idle]
  /\ used = {}
  /\ overlapped = FALSE /\ misread = FALSE

\* The operation goes on with the store it was given: it returns or throws,
\* or starts to save the store it computed.
Proceeds(c, op, store) ==
  calls' = [calls EXCEPT ![c] =
    IF op = Read \/ Throws(op, store) THEN Idle
    ELSE [pc |-> "saving", store |-> Effect(op, store)]]

\* getStore(): with a warm cache the operation proceeds in the same callback.
Called(c, op) ==
  /\ IF cache = NoStore
     THEN calls' = [calls EXCEPT ![c] = [pc |-> "loading", op |-> op]]
     ELSE Proceeds(c, op, cache)
  /\ UNCHANGED <<disk, cache>>

\* A handler that has begun to wait is not alone if another one waits, too.
Observed(c) ==
  overlapped' = (overlapped \/ \E d \in Caller \ {c} : calls[d] # Idle /\ calls'[c] # Idle)

Start(c, op) ==
  /\ calls[c] = Idle
  /\ Called(c, op)
  /\ op.kind = "create" => op.id \notin used
  /\ used' = IF op.kind = "create" THEN used \cup {op.id} ELSE used
  /\ Observed(c) /\ UNCHANGED misread

\* loadStore(): what the file holds, or an empty store if it cannot be found,
\* read or parsed.
FileRead(c) ==
  /\ calls[c].pc = "loading"
  /\ \E fails \in BOOLEAN :
       /\ calls' = [calls EXCEPT ![c] =
            [pc |-> "loaded", op |-> calls[c].op, store |-> IF fails THEN EmptyStore ELSE disk]]
       /\ misread' = fails
  /\ UNCHANGED <<disk, cache, used, overlapped>>

\* `cachedStore = await loadStore()` assigns whatever the cache holds by now.
Loaded(c) ==
  /\ calls[c].pc = "loaded"
  /\ cache' = calls[c].store
  /\ Proceeds(c, calls[c].op, calls[c].store)
  /\ UNCHANGED <<disk, used, observedVars>>

\* saveStore(): the rename replaces the file as a whole, or an error leaves it.
Renamed(c) ==
  /\ calls[c].pc = "saving"
  /\ disk' = calls[c].store
  /\ calls' = [calls EXCEPT ![c] = [pc |-> "renamed", store |-> calls[c].store]]
  /\ misread' = FALSE
  /\ UNCHANGED <<cache, used, overlapped>>

MutSaveFails(c) ==
  /\ calls[c].pc = "saving"
  /\ cache' = calls[c].store
  /\ calls' = [calls EXCEPT ![c] = Idle]
  /\ UNCHANGED <<disk, used, observedVars>>
SaveFails(c) ==
  /\ calls[c].pc = "saving"
  /\ calls' = [calls EXCEPT ![c] = Idle]
  /\ UNCHANGED <<disk, cache, used, observedVars>>

\* persistStore() updates the cache and the operation is acknowledged.
MutPersisted(c) ==
  /\ calls[c].pc = "renamed"
  /\ calls' = [calls EXCEPT ![c] = Idle]
  /\ UNCHANGED <<disk, cache, used, observedVars>>
Persisted(c) ==
  /\ calls[c].pc = "renamed"
  /\ cache' = calls[c].store
  /\ calls' = [calls EXCEPT ![c] = Idle]
  /\ UNCHANGED <<disk, used, observedVars>>

\* The server process ends and starts again.
Restart ==
  /\ cache' = NoStore
  /\ calls' = [c \in Caller |-> Idle]
  /\ overlapped' = FALSE /\ misread' = FALSE
  /\ UNCHANGED <<disk, used>>

StoreNext ==
  \/ \E c \in Caller :
       \/ \E op \in Op \cup {Read} : Start(c, op)
       \/ FileRead(c) \/ Loaded(c)
       \/ Renamed(c) \/ SaveFails(c) \/ Persisted(c)
  \/ Restart

StoreSpec == StoreInit /\ [][StoreNext]_storeVars

-----------------------------------------------------------------------------

StoreTypeOK ==
  /\ disk \in Store
  /\ cache \in Store \cup {NoStore}
  /\ calls \in [Caller -> Call]
  /\ used \subseteq ProfileId
  /\ overlapped \in BOOLEAN /\ misread \in BOOLEAN

\* However operations overlap, and whatever cannot be read or written, the
\* file, the cache and every store on its way to the file name an existing
\* profile, or none, as the active one.
AlwaysWellFormed ==
  /\ WellFormed(disk)
  /\ cache # NoStore => WellFormed(cache)
  /\ \A c \in Caller :
       calls[c].pc \in {"loaded", "saving", "renamed"} => WellFormed(calls[c].store)

\* What the server goes by: the file, but after a failed read an empty store
\* until the next save replaces the file by what became of it.
InUse == IF misread THEN EmptyStore ELSE disk

\* As long as no two operations overlap, what is served from memory between
\* two operations is what the file holds: but for a file that could not be
\* read, which is served as an empty store, across failed saves and restarts.
CacheAgrees ==
  ~overlapped /\ (\A c \in Caller : calls[c].pc \in {"idle", "loading"})
     => cache \in {NoStore, InUse}

\* As long as no two operations overlap the file is an atomic store, across
\* failed reads and writes and restarts: each operation changes the file in
\* one step or not at all, and starts anew only after a read that failed.
Atomic == INSTANCE AtomicStore WITH store <- disk, unread <- misread
IsAtomic == Atomic!Init /\ [][overlapped \/ Atomic!Next]_Atomic!vars

\* "persists to disk": a save that adds a profile takes none from a file that
\* could be read.
CreatedProfilesPersist ==
  [][~misread /\ (\E id \in ProfileId : Has(disk', id) /\ ~Has(disk, id))
       => \A id \in ProfileId : Has(disk, id) => Has(disk', id)]_storeVars
=============================================================================
