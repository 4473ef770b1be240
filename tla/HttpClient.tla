----------------------------- MODULE HttpClient -----------------------------
(***************************************************************************)
(* A call of apim/catalog.go or apim/publisher.go: doRequest, through      *)
(* httputil.DoWithRetry, with the cached token of apim/auth.go, against a  *)
(* server and a network that may fail at any time.  There is one engine    *)
(* goroutine, so one call at a time.  Time is counted in ticks, and        *)
(* instants are kept as the ticks that are left until them.  Nothing is    *)
(* bounded: the states are finite.                                         *)
(***************************************************************************)
EXTENDS Integers

CONSTANTS
    Methods,        \* the HTTP methods that are used
    MaxAttempts,    \* RetryConfig.MaxAttempts
    Buffer,         \* a token is not used in its last 60 s
    Lifetimes,      \* values of expires_in
    TokenTimeout,   \* timeout of the token client, 30 s
    RequestTimeout  \* managed.schedule.request_timeout, 30 s by default

ASSUME HttpClientAssumption ==
    /\ Methods \subseteq {"GET", "PUT", "DELETE", "POST"}
    /\ MaxAttempts \in Nat \ {0}
    /\ Buffer \in Nat /\ Lifetimes \subseteq Nat \ {0}
    /\ TokenTimeout \in Nat \ {0} /\ RequestTimeout \in Nat \ {0}

\* True of the defaults, by no more than it needs; nothing checks it of others.
ASSUME TimeoutsFitBuffer == TokenTimeout + RequestTimeout <= Buffer

VARIABLES
    entry, call, reply, answer, late,   \* as in CatalogCall
    pc,                     \* where the call is
    attempt,
    token,                  \* the cached token, on both sides
    waited,                 \* ticks since the request under way was made
    cancelled               \* the context has been cancelled

exchange == <<entry, call, reply, answer, late>>
vars     == <<exchange, pc, attempt, token, waited, cancelled>>

Call == INSTANCE CatalogCall

\* lifetime: as it was issued; life: left of it at the server; cache: left
\* until expiresAt.
Token   == [lifetime : Lifetimes \cup {0}, life : Nat, cache : Nat, revoked : BOOLEAN]
NoToken == [lifetime |-> 0, life |-> 0, cache |-> 0, revoked |-> FALSE]

TypeOK ==
    /\ entry \in Call!Entries
    /\ call \in Methods \cup {"none"} /\ answer \in Call!Answers \cup {"none"}
    /\ reply \in Call!Answers \cup {"none"} /\ (reply # "none" => pc = "send")
    /\ late \subseteq Methods
    /\ pc \in {"idle", "token", "issued", "send", "sleep"}
    /\ (pc = "idle") = (call = "none")
    /\ attempt \in 1 .. MaxAttempts
    /\ pc = "sleep" => attempt < MaxAttempts
    /\ token \in Token
    /\ waited \in 0 .. (TokenTimeout + RequestTimeout)
    /\ pc \in {"token", "issued"} => waited <= TokenTimeout
    /\ pc = "send" => waited <= RequestTimeout
    /\ cancelled \in BOOLEAN

Init ==
    /\ Call!Init
    /\ pc = "idle" /\ attempt = 1 /\ waited = 0
    /\ token = NoToken
    /\ cancelled = FALSE

-----------------------------------------------------------------------------
(***************************************************************************)
(* Time, the other users of the entry, the authorization server and the    *)
(* operator.                                                               *)
(***************************************************************************)
Down(n) == IF n = 0 THEN 0 ELSE n - 1

\* The timeouts keep a request from waiting longer.
Tick ==
    /\ pc \in {"token", "issued"} => waited < TokenTimeout
    /\ pc = "send" => waited < RequestTimeout
    /\ waited' = IF pc \in {"token", "issued", "send"} THEN waited + 1 ELSE waited
    /\ token' = [token EXCEPT !.life = Down(@), !.cache = Down(@)]
    /\ UNCHANGED <<exchange, pc, attempt, cancelled>>

Others ==
    /\ Call!Others
    /\ UNCHANGED <<pc, attempt, token, waited, cancelled>>

\* The authorization server forgets the token, in a restart for instance.
Revoke ==
    /\ token.life > 0
    /\ token' = [token EXCEPT !.life = 0, !.revoked = TRUE]
    /\ UNCHANGED <<exchange, pc, attempt, waited, cancelled>>

Cancel ==
    /\ ~cancelled /\ cancelled' = TRUE
    /\ UNCHANGED <<exchange, pc, attempt, token, waited>>

\* A request that nobody waits for any more arrives, or never will.  Its token
\* may have been looked at when it was still good.
ServeLate(m) ==
    /\ Call!ServeLate(m)
    /\ UNCHANGED <<pc, attempt, token, waited, cancelled>>

-----------------------------------------------------------------------------
(***************************************************************************)
(* reqFactory and AuthHeader.                                              *)
(***************************************************************************)

\* Mutant: any token will do.
HaveAnyToken == token.lifetime > 0

\* accessToken is set and now is before expiresAt.
HaveToken == token.cache > 0

\* The next request is made: of the entry, or first of a token.
MakeRequest ==
    /\ pc' = IF HaveToken THEN "send" ELSE "token"
    /\ waited' = 0

Start ==
    /\ Call!Start
    /\ attempt' = 1
    /\ MakeRequest
    /\ UNCHANGED <<token, cancelled>>

Answer(a) == Call!Return(a) /\ pc' = "idle" /\ attempt' = 1 /\ waited' = 0

\* The token server issues a token; its life begins.
IssueToken ==
    /\ pc = "token" /\ pc' = "issued"
    /\ \E e \in Lifetimes :
          token' = [lifetime |-> e, life |-> e, cache |-> 0, revoked |-> FALSE]
    /\ UNCHANGED <<exchange, attempt, waited, cancelled>>

BufferOf(e) == IF e <= Buffer THEN e \div 3 ELSE Buffer

\* refreshToken: expiresAt counts from the moment the response has been read.
ReceiveToken ==
    /\ pc = "issued" /\ pc' = "send" /\ waited' = 0
    /\ token' = [token EXCEPT !.cache = token.lifetime - BufferOf(token.lifetime)]
    /\ UNCHANGED <<exchange, attempt, cancelled>>

\* An error of reqFactory ends the call, whatever the attempt.
TokenFails ==
    /\ pc \in {"token", "issued"}
    /\ Answer("error")
    /\ UNCHANGED <<entry, late, token, cancelled>>

-----------------------------------------------------------------------------
(***************************************************************************)
(* DoWithRetry and the status codes.                                       *)
(***************************************************************************)

RefusalAnswer(m) == Call!Refusal(m)

\* The server serves the request under way, if it still takes its token.
Serve ==
    /\ pc = "send" /\ reply = "none"
    /\ \/ token.life > 0 /\ Call!Perform(call) /\ reply' = "ok"
       \/ /\ token.life > 0 /\ ~Call!Accepts(call, entry)
          /\ reply' = RefusalAnswer(call) /\ UNCHANGED entry
       \/ /\ (token.life > 0 /\ Call!Perform(call)) \/ UNCHANGED entry
          /\ reply' = "error"
       \/ token.life = 0 /\ reply' = "denied" /\ UNCHANGED entry
    /\ UNCHANGED <<call, answer, late, pc, attempt, token, waited, cancelled>>

\* The response arrives.  One that cannot be read, or has a status that nobody
\* expects, is an error, and is not retried.
Receive ==
    /\ pc = "send" /\ reply # "none"
    /\ Answer(reply) \/ Answer("error")
    /\ UNCHANGED <<entry, late, token, cancelled>>

\* Mutant: the status of the last attempt is not looked at.
RetryOrPass ==
    IF attempt < MaxAttempts
    THEN pc' = "sleep" /\ waited' = 0 /\ reply' = "none" /\ UNCHANGED <<call, answer, attempt>>
    ELSE Answer("ok")

\* Wait for the backoff, or give up after the last attempt.
RetryOrFail ==
    IF attempt < MaxAttempts
    THEN pc' = "sleep" /\ waited' = 0 /\ reply' = "none" /\ UNCHANGED <<call, answer, attempt>>
    ELSE Answer("error")

\* No response: the request or its response is lost, or the timeout ends it.
\* The method makes no difference.
TransportError ==
    /\ pc = "send"
    /\ Call!Abandon /\ RetryOrFail
    /\ UNCHANGED <<entry, token, cancelled>>

Idempotent == call \in {"GET", "PUT", "DELETE"}

\* 429, 502, 503 or 504: a gateway may answer so of a request that has been
\* served, or is still to be.
TransientStatus ==
    /\ pc = "send"
    /\ Call!Abandon
    /\ IF Idempotent THEN RetryOrFail ELSE Answer("error")
    /\ UNCHANGED <<entry, token, cancelled>>

\* Mutant: the request, with its header, is made once and sent again.
ResendRequest ==
    /\ pc = "sleep" /\ pc' = "send" /\ waited' = 0
    /\ attempt' = attempt + 1
    /\ UNCHANGED <<exchange, token, cancelled>>

\* The backoff, of any length, is over.
NextAttempt ==
    /\ pc = "sleep"
    /\ attempt' = attempt + 1
    /\ MakeRequest
    /\ UNCHANGED <<exchange, token, cancelled>>

\* A cancelled context ends a request, whatever the server makes of it, and a
\* backoff; a token request has no context.
Interrupt ==
    /\ cancelled
    /\ \/ pc = "send" /\ Call!Abandon
       \/ pc = "sleep" /\ UNCHANGED late
    /\ Answer("error")
    /\ UNCHANGED <<entry, token, cancelled>>

-----------------------------------------------------------------------------
Step ==
    \/ Start \/ IssueToken \/ ReceiveToken \/ TokenFails
    \/ Serve \/ Receive \/ TransportError \/ TransientStatus \/ NextAttempt \/ Interrupt

Next == Tick \/ Others \/ Revoke \/ Cancel \/ Step \/ \E m \in Methods : ServeLate(m)

Spec == Init /\ [][Next]_vars

\* Time passes, and every cycle makes calls, each of which gets on: timeouts end
\* the requests, the backoff ends by itself.
FairSpec == Spec /\ WF_vars(Tick) /\ WF_vars(Step)

-----------------------------------------------------------------------------
\* Whatever is lost, retried, delayed or cancelled (retry.go:38-82), a call
\* returns only what CatalogCall allows: "ok" is the server's word on a request of
\* this call that took effect, a refusal was true when the server gave it, and
\* the entry is touched after the answer only by requests that were left without one.
ImplementsCall == Call!Spec

\* A token does not expire on its way to the server (auth.go:128): neither a slow
\* token response nor a retry after a long backoff nor a slow request outlives
\* the buffer.  Tokens no longer than the buffer keep only a third and may.
NoStaleToken ==
    pc = "send" /\ token.lifetime > Buffer /\ ~token.revoked => token.life > 0

\* A 401 does not clear the cache, and still the client does not keep using a
\* token that the server no longer takes.
DeniedTokenReplaced == answer = "denied" ~> pc = "token"
=============================================================================
