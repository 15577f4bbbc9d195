---------------------------- MODULE MCGeoLoader -----------------------------
(* Two goroutines of one process and one of another.                       *)
EXTENDS GeoLoader

CONSTANTS p, q, c1, c2, c3

MCProcOf == [c \in Callers |-> IF c = c3 THEN q ELSE p]

=============================================================================
