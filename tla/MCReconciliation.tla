-------------------------- MODULE MCReconciliation --------------------------
(***************************************************************************)
(* Two instances with a finding each; the names may be the same, and an    *)
(* entry of a user may have either.                                        *)
(***************************************************************************)
EXTENDS Reconciliation

CONSTANTS adc1, adc2

MCAdc       == {adc1, adc2}
MCFinding   == {1, 2}
MCHome      == <<adc1, adc2>>
MCCatalogId == 1..4

\* The first publishes again what has been deleted, the second does not.
MCRePushDeleted == [a \in MCAdc |-> a = adc1]
=============================================================================
