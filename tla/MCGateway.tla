----------------------------- MODULE MCGateway -----------------------------
(* Gateway with a browser and a window, one or two profiles and two sizes. *)
EXTENDS Gateway

CONSTANTS browser, window, p1, p2, kansai, plain, small, large, huge

MCProfiles == [id \in {p1, p2} |-> IF id = p1 THEN plain ELSE None]
=============================================================================
