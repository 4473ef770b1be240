------------------------------ MODULE MCStartup ------------------------------
(***************************************************************************)
(* Two processes of the new release and one of the old.                    *)
(***************************************************************************)
EXTENDS Startup

MCProcess == {"old", "new", "newer"}
MCRelease == [p \in MCProcess |-> IF p = "old" THEN 2 ELSE 3]
=============================================================================
