--------------------------- MODULE MCDesktopPanel ---------------------------
(* The panel and the supervisor with an installation that is complete and  *)
(* one whose first manifest cannot be read while the next place has a good one. *)
EXTENDS DesktopPanel

Complete == [manifest |-> [p \in Range(Places) |-> IF p = "bundle resources" THEN "good" ELSE "absent"],
             files |-> {"bundle"} \X BundledFile, node_beside |-> FALSE]
Broken == [Complete EXCEPT !.manifest["bundle resources"] = "unreadable",
                           !.manifest["bundle"] = "good"]
MCInstallations == {Complete, Broken}
=============================================================================
