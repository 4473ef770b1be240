-------------------------- MODULE FindingLifecycle --------------------------
(***************************************************************************)
(* What the pipeline promises to those who look at adc_unmanaged_apis (the *)
(* statuses of internal/models/constants.go): how a finding is opened,     *)
(* documented, published, dismissed and closed, without the phases that do *)
(* it, their queries and their failures.  A finding has a parent API when  *)
(* it is a DRIFT, and none when it is a SHADOW.                            *)
(***************************************************************************)
CONSTANTS
    Finding,        \* operations that may be found unmanaged
    Service,        \* [Finding -> services]
    Parent,         \* managed APIs
    NoParent,
    Id,             \* ids of catalog entries
    NoId,           \* of a finding that has none
    Republish       \* an entry that an operator deleted is published again

VARIABLES
    state,          \* [Finding -> State]
    parent,         \* [Finding -> Parent \cup {NoParent}]
    document,       \* of a finding that waits to be published
    link,           \* [Finding -> the entry that is recorded for it]
    entry,          \* [Id -> the document that the catalog has]
    accepted        \* what the catalog has answered and nobody has recorded yet

lifecycleVars == <<state, parent, document, link, entry, accepted>>

\* A document lists operations, as undocumented ones of an API or as a service of their own.
Document   == [ops : SUBSET Finding, parent : Parent \cup {NoParent}]
NoDocument == [ops |-> {}, parent |-> NoParent]

\* The entry that took a document.
Answer  == [id : Id, doc : Document]
Nothing == [id |-> NoId, doc |-> NoDocument]

Init ==
    /\ state = [f \in Finding |-> "none"]
    /\ parent = [f \in Finding |-> NoParent]
    /\ document = [f \in Finding |-> NoDocument]
    /\ link = [f \in Finding |-> NoId]
    /\ entry = [i \in Id |-> NoDocument]
    /\ accepted = Nothing

Open == {f \in Finding : state[f] \in {"detected", "waiting", "published"}}

\* What is published together: open findings of a service with the same parent.
Group(f) == {g \in Open : Service[g] = Service[f] /\ parent[g] = parent[f]}

Waiting(S) == {f \in S : state[f] = "waiting"}

\* Only waiting findings have a document.
Become(S, s, doc) ==
    /\ state' = [f \in Finding |-> IF f \in S THEN s ELSE state[f]]
    /\ document' = [f \in Finding |-> IF f \in S THEN doc ELSE document[f]]

\* A finding is new, comes back after it was closed, or has become another one.
\* Nothing else opens it: a dismissal stays while the same is found again.
Detect(f, p) ==
    /\ state[f] \in {"none", "closed"} \/ p # parent[f]
    /\ Become({f}, "detected", NoDocument)
    /\ parent' = [parent EXCEPT ![f] = p]
    /\ UNCHANGED <<link, entry, accepted>>

Dismiss(f) ==
    /\ state[f] # "none" /\ Become({f}, "dismissed", NoDocument)
    /\ UNCHANGED <<parent, link, entry, accepted>>

Close(S) ==
    /\ S \subseteq Open /\ Become(S, "closed", NoDocument)
    /\ UNCHANGED <<parent, link, entry, accepted>>

\* A document is given to a whole group, and lists all of it.
Describe(f, doc) ==
    /\ f \in Open /\ Group(f) \subseteq doc.ops /\ doc.parent = parent[f]
    /\ Become(Group(f), "waiting", doc)
    /\ UNCHANGED <<parent, link, entry, accepted>>

\* An entry takes a document.
Accept(i, doc) ==
    /\ accepted = Nothing
    /\ accepted' = [id |-> i, doc |-> doc]
    /\ entry' = [entry EXCEPT ![i] = doc]
    /\ UNCHANGED <<state, parent, document, link>>

\* A group is published as a whole, by the entry that has just taken the document
\* of what was waiting in it, and that very entry is recorded for all of it.
Publish(f) ==
    /\ f \in Open
    /\ accepted \in Answer
    /\ \A g \in Waiting(Group(f)) : document[g] = accepted.doc
    /\ Become(Group(f), "published", NoDocument)
    /\ link' = [g \in Finding |-> IF g \in Group(f) THEN accepted.id ELSE link[g]]
    /\ accepted' = Nothing
    /\ UNCHANGED <<parent, entry>>

\* The answer is never recorded.
Forget ==
    /\ accepted' = Nothing
    /\ UNCHANGED <<state, parent, document, link, entry>>

\* What waits is not published any more because an entry of it is gone.
Forgo(f) ==
    /\ ~Republish
    /\ \E g \in Finding : /\ Service[g] = Service[f] /\ parent[g] = parent[f]
                          /\ link[g] \in Id /\ entry[link[g]] = NoDocument
    /\ Become(Waiting(Group(f)), "published", NoDocument)
    /\ UNCHANGED <<parent, link, entry, accepted>>

\* The catalog has other users, and requests may be served without an answer; but
\* what the catalog has answered stands until somebody deletes it.
ChangeCatalog ==
    /\ entry' \in [Id -> Document]
    /\ accepted \in Answer => entry'[accepted.id] \in {entry[accepted.id], NoDocument}
    /\ UNCHANGED <<state, parent, document, link, accepted>>

Next ==
    \/ \E f \in Finding, p \in Parent \cup {NoParent} : Detect(f, p)
    \/ \E f \in Finding : Dismiss(f) \/ Publish(f) \/ Forgo(f)
    \/ \E S \in SUBSET Finding : Close(S)
    \/ \E f \in Finding, doc \in Document : Describe(f, doc)
    \/ \E i \in Id, doc \in Document : Accept(i, doc)
    \/ Forget
    \/ ChangeCatalog

Spec == Init /\ [][Next]_lifecycleVars
=============================================================================
