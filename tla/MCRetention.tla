---------------------------- MODULE MCRetention ----------------------------
(***************************************************************************)
(* Two operations of one service.  The API declares the first, so that the *)
(* second drifts from it.                                                  *)
(***************************************************************************)
EXTENDS Retention

MCServiceKey == <<1, 1>>
MCEndpoint   == <<"e1", "e2">>
MCDomain     == <<"h1", "h1">>
MCHostname   == <<"h1">>
MCOperations == <<{"e1"}>>
=============================================================================
