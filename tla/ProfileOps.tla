----------------------------- MODULE ProfileOps -----------------------------
(***************************************************************************)
(* What profile/manager.ts computes: the store as a value, and the store   *)
(* that each operation makes of it.                                        *)
(***************************************************************************)
EXTENDS Naturals

CONSTANTS
  ProfileId,   \* what randomUUID returns
  NoProfile,   \* the null active id
  MaxVersion   \* bound: number of different profile contents

ASSUME NoProfileAssumption == NoProfile \notin ProfileId
ASSUME MaxVersionAssumption == MaxVersion \in Nat \ {0}

\* A profile is the version of its contents; Absent ones are not in the list.
Absent  == 0
Version == 1 .. MaxVersion

Store == [active : ProfileId \cup {NoProfile},
          profiles : [ProfileId -> {Absent} \cup Version]]

EmptyStore == [active |-> NoProfile, profiles |-> [id \in ProfileId |-> Absent]]

Has(store, id) == store.profiles[id] # Absent

\* create, update, remove and setActive; `version` is the new contents.
Op == [kind : {"create", "update"}, id : ProfileId, version : Version]
        \cup [kind : {"remove"}, id : ProfileId]
        \cup [kind : {"setActive"}, id : ProfileId \cup {NoProfile}]

\* "Profile not found": the operation throws and writes nothing.
Throws(op, store) ==
  op.kind # "create" /\ op.id # NoProfile /\ ~Has(store, op.id)

MutEffect(op, store) ==
  CASE op.kind \in {"create", "update"} ->
         [store EXCEPT !.profiles[op.id] = op.version]
    [] op.kind = "remove"    -> [store EXCEPT !.profiles[op.id] = Absent]
    [] op.kind = "setActive" -> [store EXCEPT !.active = op.id]
Effect(op, store) ==
  CASE op.kind \in {"create", "update"} ->
         [store EXCEPT !.profiles[op.id] = op.version]
    [] op.kind = "remove" ->
         [active   |-> IF store.active = op.id THEN NoProfile ELSE store.active,
          profiles |-> [store.profiles EXCEPT ![op.id] = Absent]]
    [] op.kind = "setActive" -> [store EXCEPT !.active = op.id]

\* The active id always names a profile of the same store.
WellFormed(store) == store.active = NoProfile \/ Has(store, store.active)
=============================================================================
