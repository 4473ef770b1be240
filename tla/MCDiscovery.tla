---------------------------- MODULE MCDiscovery ----------------------------
(***************************************************************************)
(* Three requests: two of signatures that normalisation makes one          *)
(* resource, and one of a signature that the noise filter removes.         *)
(***************************************************************************)
EXTENDS Discovery

MCRequest   == {1, 2, 3}
MCSignature == <<"s1", "s2", "health">>
MCResource  == [s \in {"s1", "s2", "health"} |-> IF s = "health" THEN "health" ELSE "resource"]
MCNoise     == {"health"}
=============================================================================
