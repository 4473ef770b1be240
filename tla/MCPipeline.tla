----------------------------- MODULE MCPipeline -----------------------------
(***************************************************************************)
(* One service of two operations, and one API at the same host: while it   *)
(* is not published both operations are SHADOW; once it is, the first is   *)
(* managed and the second drifts from it.                                  *)
(***************************************************************************)
EXTENDS Pipeline

MCDiscovered  == {1, 2}
MCServiceKey  == <<1, 1>>
MCEndpoint    == <<"e1", "e2">>
MCDomain      == <<"h1", "h1">>
MCApi         == {1}
MCHostname    == <<"h1">>
MCOperationId == [e \in {"e1", "e2"} |-> e]
MCServiceName == <<"svc1">>
MCDriftName   == <<"api1-Drift">>
MCNames       == {"svc1", "api1-Drift"}
MCManagedViews == [{1} -> {{}, {"e1"}}]
MCCatalogId   == 1..6
MCBoth        == {"SHADOW", "DRIFT"}
=============================================================================
