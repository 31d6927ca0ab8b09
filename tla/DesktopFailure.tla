--------------------------- MODULE DesktopFailure ---------------------------
(***************************************************************************)
(* What the desktop application says when its server cannot be started,    *)
(* watched or stopped (apps/desktop/src-tauri/src/server.rs), and what the *)
(* page advises when it reads that (apps/web/src/lib/recovery.ts).         *)
(*                                                                         *)
(* A failure is a text with a category, `[category] summary | key=value`.  *)
(* The page takes the text apart again, by category and by the phrases it  *)
(* contains; the model keeps what those tests can tell apart.              *)
(***************************************************************************)
EXTENDS Naturals, Sequences, SequencesExt

-----------------------------------------------------------------------------
(* Failures of the application.  `denied` says that the system's own       *)
(* message, which is part of the text, is a refused permission.            *)

SidecarFailures == {"sidecar_manifest_missing", "sidecar_manifest_read",
  "sidecar_manifest_parse", "sidecar_node_missing",
  "sidecar_server_entry_missing", "sidecar_server_root_missing"}
FailureCategory == SidecarFailures \cup {"port_resolve", "spawn",
  "unexpected_exit", "process_state", "stop_flow"}
Failure == [category : FailureCategory, denied : BOOLEAN, port_in_use : BOOLEAN]
NoFailure == [category |-> "none", denied |-> FALSE, port_in_use |-> FALSE]

\* format_failure
Failed(category) == [NoFailure EXCEPT !.category = category]
FailedBySystem(category) ==
  {[Failed(category) EXCEPT !.denied = d] : d \in BOOLEAN}

\* choose_available_port, no port being free
PortFailure == Failed("port_resolve")

\* refresh_runtime: the child has exited, or cannot be inspected.
RefreshFailures(exited) ==
  FailedBySystem("process_state") \cup
  IF exited
  THEN {[Failed("unexpected_exit") EXCEPT !.port_in_use = used] : used \in BOOLEAN}
  ELSE {}

\* stop_child_blocking: "stop_flow" stands for stop_process, wait_shutdown and
\* inspect_before_stop, which nobody tells apart.
StopFailures == FailedBySystem("stop_flow")

-----------------------------------------------------------------------------
(* The bundled runtime.  The manifest is looked for in three places; an    *)
(* installation says what is found at each, which files lie under the two  *)
(* roots a manifest can stand for, and whether the application's own       *)
(* directory has a node.                                                   *)

Places == <<"bundle resources", "bundle", "source tree">>
SidecarRoot(place) == IF place = "source tree" THEN "source tree" ELSE "bundle"
Root == {SidecarRoot(p) : p \in Range(Places)}
BundledFile == {"node", "entry", "root"}
Installation == [manifest : [Range(Places) -> {"absent", "unreadable", "malformed", "good"}],
                 files : SUBSET (Root \X BundledFile), node_beside : BOOLEAN]

\* The first manifest that exists is the one, whatever is wrong with it.
Manifests(i) == SelectSeq(Places, LAMBDA p : i.manifest[p] # "absent")

\* resolve_node_binary_path: under the root, or beside the application.
NodeFound(i, root) == <<root, "node">> \in i.files \/ i.node_beside

\* resolve_sidecar_runtime_paths
SidecarFailure(i) ==
  IF Manifests(i) = <<>> THEN {Failed("sidecar_manifest_missing")}
  ELSE LET place == Head(Manifests(i))
           root == SidecarRoot(place)
       IN IF i.manifest[place] = "unreadable" THEN FailedBySystem("sidecar_manifest_read")
          ELSE IF i.manifest[place] = "malformed" THEN {Failed("sidecar_manifest_parse")}
          ELSE IF ~NodeFound(i, root) THEN {Failed("sidecar_node_missing")}
          ELSE IF <<root, "entry">> \notin i.files THEN {Failed("sidecar_server_entry_missing")}
          ELSE IF <<root, "root">> \notin i.files THEN {Failed("sidecar_server_root_missing")}
          ELSE {}

\* spawn_server_process
SpawnFailures(i) ==
  IF SidecarFailure(i) = {} THEN FailedBySystem("spawn") ELSE SidecarFailure(i)

-----------------------------------------------------------------------------
(* The page's advice, from the failure in the status.                      *)

IsPortConflict(f) == f.category = "unexpected_exit" /\ f.port_in_use
IsPortResolveError(f) == f.category = "port_resolve"
MutIsSidecarRuntimeError(f) == f.category \in SidecarFailures /\ ~f.denied
IsSidecarRuntimeError(f) == f.category \in SidecarFailures
IsPermissionError(f) == f.denied
IsSpawnStartError(f) == f.category = "spawn"
IsStopFlowError(f) == f.category = "stop_flow"
IsUnexpectedExit(f) == f.category \in {"unexpected_exit", "process_state"}

\* getDesktopFailureGuidance: the order of the tests decides.
Guidance(state, f) ==
  IF state # "failed" THEN "none"
  ELSE IF IsPortConflict(f) \/ IsPortResolveError(f) THEN "port"
  ELSE IF IsSidecarRuntimeError(f) THEN "bundled runtime"
  ELSE IF IsPermissionError(f) THEN "permission"
  ELSE IF IsSpawnStartError(f) THEN "process creation"
  ELSE IF IsStopFlowError(f) THEN "stop"
  ELSE IF IsUnexpectedExit(f) THEN "unexpected exit"
  ELSE "to be looked at"
=============================================================================
