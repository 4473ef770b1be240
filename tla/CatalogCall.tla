---------------------------- MODULE CatalogCall ----------------------------
(***************************************************************************)
(* What the callers of catalogClient may rely on: one call about one entry *)
(* of the catalog and the answer it brings.  The server serves a request   *)
(* at one moment and says what was so at that moment; others may change    *)
(* the entry before the answer arrives.  A request that the client has     *)
(* stopped waiting for may be served at any later time, after the answer   *)
(* and during other calls included; nothing else of a call remains.        *)
(***************************************************************************)
CONSTANT Methods    \* the HTTP methods that are used

VARIABLES
    entry,          \* the entry: absent, as others wrote it, or as ADC wrote it
    call,           \* the method of the call under way, or "none"
    reply,          \* what the server has said to its request, or "none"
    answer,         \* what the last call returned
    late            \* methods of the requests that nobody waits for any more

vars == <<entry, call, reply, answer, late>>

Entries == {"absent", "theirs", "ours"}
Answers == {"ok", "conflict", "missing", "denied", "error"}

\* The server's side of a request.
Accepts(m, e) == IF m = "POST" THEN e = "absent" ELSE e # "absent"
After(m, e) ==
    CASE m \in {"POST", "PUT"} -> "ours"
      [] m = "DELETE" -> "absent"
      [] OTHER -> e
Refusal(m) == IF m = "POST" THEN "conflict" ELSE "missing"

Perform(m) == Accepts(m, entry) /\ entry' = After(m, entry)

Init ==
    /\ entry \in {"absent", "theirs"}
    /\ call = "none" /\ reply = "none" /\ answer = "none" /\ late = {}

\* Other users write or delete the entry; only ADC makes it ADC's.
Others ==
    /\ entry' \in {"absent", "theirs"}
    /\ UNCHANGED <<call, reply, answer, late>>

Start ==
    /\ call = "none" /\ call' \in Methods /\ answer' = "none"
    /\ UNCHANGED <<entry, reply, late>>

Serve ==
    /\ call # "none" /\ reply = "none"
    /\ \/ Perform(call) /\ reply' = "ok"
       \/ ~Accepts(call, entry) /\ reply' = Refusal(call) /\ UNCHANGED entry
       \/ (Perform(call) \/ UNCHANGED entry) /\ reply' = "error"
       \/ reply' = "denied" /\ UNCHANGED entry
    /\ UNCHANGED <<call, answer, late>>

\* The client stops waiting for the request, served or not; a GET leaves nothing.
Abandon == late' = IF reply = "none" THEN late \cup ({call} \ {"GET"}) ELSE late

Repeat ==
    /\ call # "none"
    /\ Abandon /\ reply' = "none"
    /\ UNCHANGED <<entry, call, answer>>

Return(a) == call' = "none" /\ reply' = "none" /\ answer' = a

Finish == call # "none" /\ reply # "none" /\ Return(reply) /\ UNCHANGED <<entry, late>>

Fail == call # "none" /\ Return("error") /\ (Abandon \/ UNCHANGED late) /\ UNCHANGED entry

\* There may be several requests of a method.
ServeLate(m) ==
    /\ m \in late /\ late' \in {late, late \ {m}}
    /\ Perform(m) \/ UNCHANGED entry
    /\ UNCHANGED <<call, reply, answer>>

Next ==
    \/ Others \/ Start \/ Serve \/ Repeat \/ Finish \/ Fail
    \/ \E m \in Methods : ServeLate(m)

Spec == Init /\ [][Next]_vars
=============================================================================
