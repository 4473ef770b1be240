-------------------------- MODULE ManagedBaseline --------------------------
(***************************************************************************)
(* What phase 2 promises to phase 3: each API of the baseline shows the    *)
(* operations of exactly one version that APIM had, the version of an API  *)
(* never goes back while it is there, and an API comes and goes as a       *)
(* whole, however many requests and statements that takes.                 *)
(***************************************************************************)
EXTENDS Integers

CONSTANT Api

VARIABLES
    newest,         \* the version of each API in APIM
    baseline        \* [Api -> set of versions whose operations are visible]

Init ==
    /\ newest = [a \in Api |-> 0]
    /\ baseline = [a \in Api |-> {}]

Change(a) ==
    /\ newest' = [newest EXCEPT ![a] = @ + 1]
    /\ UNCHANGED baseline

Learn(a) ==
    /\ \E v \in 0 .. newest[a] :
          /\ \A w \in baseline[a] : w <= v
          /\ baseline' = [baseline EXCEPT ![a] = {v}]
    /\ UNCHANGED newest

Forget(S) ==
    /\ baseline' = [a \in Api |-> IF a \in S THEN {} ELSE baseline[a]]
    /\ UNCHANGED newest

Next ==
    \/ \E a \in Api : Change(a) \/ Learn(a)
    \/ \E S \in SUBSET Api : Forget(S)

Spec == Init /\ [][Next]_<<newest, baseline>>
=============================================================================
