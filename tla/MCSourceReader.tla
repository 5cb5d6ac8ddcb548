---------------------------- MODULE MCSourceReader ----------------------------
(* A request, a warm-up of another route and a health check.               *)
EXTENDS SourceReader, TLC

CONSTANTS catalog, summary, health, old, new

Alike   == Permutations(Contents)
RouteOf == [t \in Threads |-> IF t \in Requests THEN "catalog" ELSE "summary"]
=============================================================================
