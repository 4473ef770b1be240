----------------------- MODULE MCCollisionResolution -----------------------
(***************************************************************************)
(* Three services, of which two serve the same two endpoints and the third *)
(* serves one of them, and two managed APIs that may both declare them.    *)
(***************************************************************************)
EXTENDS CollisionResolution

MCDiscovered == 1..6
MCServiceKey == <<1, 1, 2, 2, 3, 3>>
MCEndpoint   == <<"e1", "e2", "e1", "e2", "e1", "e3">>
MCDomain     == <<"h1", "-", "-", "h2", "-", "-">>
MCApi        == {1, 2}
MCHostname   == <<"h1", "h2">>
=============================================================================
