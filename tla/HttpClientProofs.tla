-------------------------- MODULE HttpClientProofs --------------------------
(***************************************************************************)
(* Theorems about HttpClient, for every number of attempts, every token    *)
(* lifetime and all timeouts that fit the buffer.                          *)
(***************************************************************************)
EXTENDS HttpClient, TLAPS

\* An answer ends the call.
LEMMA AnswerEndsCall ==
    ASSUME NEW a \in Call!Answers, Answer(a)
    PROVE  /\ call' = "none" /\ reply' = "none" /\ answer' = a
           /\ pc' = "idle" /\ attempt' = 1 /\ waited' = 0
BY DEF Answer, Call!Return

\* The server writes entries of the catalog, or nothing.
LEMMA PerformKeepsEntries ==
    ASSUME NEW m, entry \in Call!Entries, Call!Perform(m) PROVE entry' \in Call!Entries
BY DEF Call!Perform, Call!After, Call!Entries

\* What is left behind are requests that ADC makes.
LEMMA AbandonTyped ==
    ASSUME late \subseteq Methods, call \in Methods \cup {"none"}, call # "none", Call!Abandon
    PROVE  late' \subseteq Methods
BY DEF Call!Abandon

-----------------------------------------------------------------------------
(***************************************************************************)
(* Types.                                                                  *)
(***************************************************************************)
LEMMA InitTyped == ASSUME Init PROVE TypeOK
<1>1. NoToken \in Token
  BY DEF NoToken, Token
<1>2. /\ entry \in Call!Entries
      /\ call = "none" /\ reply = "none" /\ answer = "none" /\ late = {}
  BY DEF Init, Call!Init, Call!Entries
<1>3. 0 \in 0 .. (TokenTimeout + RequestTimeout) /\ 1 \in 1 .. MaxAttempts
  BY HttpClientAssumption
<1> QED BY <1>1, <1>2, <1>3 DEF Init, TypeOK

\* A backoff is only waited for when an attempt is left.
LEMMA RetryTyped ==
    ASSUME TypeOK, call # "none", RetryOrFail
    PROVE  /\ call' \in Methods \cup {"none"} /\ answer' \in Call!Answers \cup {"none"}
           /\ pc' \in {"idle", "sleep"} /\ (pc' = "idle") = (call' = "none")
           /\ attempt' \in 1 .. MaxAttempts /\ (pc' = "sleep" => attempt' < MaxAttempts)
           /\ waited' = 0 /\ reply' = "none"
<1>1. "error" \in Call!Answers
  BY DEF Call!Answers
<1>2. CASE attempt < MaxAttempts
  BY <1>2 DEF RetryOrFail, TypeOK
<1>3. CASE ~(attempt < MaxAttempts)
  BY <1>1, <1>3, AnswerEndsCall, HttpClientAssumption DEF RetryOrFail
<1> QED BY <1>2, <1>3

LEMMA StepTyped == ASSUME TypeOK, [Next]_vars PROVE TypeOK'
<1> USE HttpClientAssumption
<1>a. \A a \in Call!Answers : Answer(a) => /\ call' = "none" /\ reply' = "none" /\ answer' = a
                                           /\ pc' = "idle" /\ attempt' = 1 /\ waited' = 0
  BY AnswerEndsCall
<1>r. {"ok", "error", "denied", "conflict", "missing"} \subseteq Call!Answers
      /\ \A m : RefusalAnswer(m) \in Call!Answers
  BY DEF Call!Answers, RefusalAnswer, Call!Refusal
<1>l. call # "none" /\ Call!Abandon => late' \subseteq Methods
  BY AbandonTyped DEF TypeOK
<1>1. CASE Tick
  <2>1. waited' \in 0 .. (TokenTimeout + RequestTimeout)
        /\ (pc \in {"token", "issued"} => waited' <= TokenTimeout)
        /\ (pc = "send" => waited' <= RequestTimeout)
    BY <1>1 DEF Tick, TypeOK
  <2>2. Down(token.life) \in Nat /\ Down(token.cache) \in Nat
    BY DEF TypeOK, Token, Down
  <2>3. token' \in Token
    BY <1>1, <2>2 DEF Tick, TypeOK, Token
  <2> QED BY <1>1, <2>1, <2>3 DEF Tick, TypeOK, exchange
<1>2. CASE Others \/ Revoke \/ Cancel
  <2>1. CASE Others \/ Cancel
    BY <2>1 DEF Others, Call!Others, Call!Entries, Cancel, TypeOK, exchange
  <2>2. CASE Revoke
    <3>1. token \in Token
      BY DEF TypeOK
    <3>2. token' \in Token
      BY <2>2, <3>1 DEF Revoke, Token
    <3> QED BY <2>2, <3>2 DEF Revoke, TypeOK, exchange
  <2> QED BY <1>2, <2>1, <2>2
<1>3. CASE Start
  BY <1>3 DEF Start, Call!Start, MakeRequest, TypeOK
<1>4. CASE IssueToken
  <2>1. token' \in Token
    BY <1>4 DEF IssueToken, Token
  <2> QED BY <1>4, <2>1 DEF IssueToken, TypeOK, exchange
<1>5. CASE ReceiveToken
  <2>1. \A e \in Lifetimes \cup {0} : e - BufferOf(e) \in Nat
    BY DEF BufferOf
  <2>2. token' \in Token
    BY <1>5, <2>1 DEF ReceiveToken, TypeOK, Token
  <2> QED BY <1>5, <2>2 DEF ReceiveToken, TypeOK, exchange
<1>6. CASE TokenFails
  BY <1>6, <1>a, <1>r DEF TokenFails, TypeOK
<1>7. CASE Serve
  <2>1. entry' \in Call!Entries
    BY <1>7, PerformKeepsEntries DEF Serve, TypeOK
  <2>2. reply' \in Call!Answers
    BY <1>7, <1>r DEF Serve
  <2>3. UNCHANGED <<call, answer, late, pc, attempt, token, waited, cancelled>> /\ pc = "send"
    BY <1>7 DEF Serve
  <2> QED BY <2>1, <2>2, <2>3 DEF TypeOK
<1>8. CASE Receive
  <2>1. PICK a \in Call!Answers : Answer(a)
    BY <1>8, <1>r DEF Receive, TypeOK
  <2> QED BY <1>8, <1>a, <2>1 DEF Receive, TypeOK
<1>9. CASE TransportError \/ (TransientStatus /\ Idempotent)
  <2>1. RetryOrFail /\ call # "none" /\ Call!Abandon /\ UNCHANGED <<entry, token, cancelled>>
    BY <1>9 DEF TransportError, TransientStatus, TypeOK
  <2> QED BY <1>l, <2>1, RetryTyped DEF TypeOK
<1>10. CASE TransientStatus /\ ~Idempotent
  <2>1. Answer("error") /\ call # "none" /\ Call!Abandon /\ UNCHANGED <<entry, token, cancelled>>
    BY <1>10 DEF TransientStatus, TypeOK
  <2> QED BY <1>a, <1>l, <1>r, <2>1 DEF TypeOK
<1>11. CASE NextAttempt
  BY <1>11 DEF NextAttempt, MakeRequest, TypeOK, exchange
<1>12. CASE Interrupt
  <2>1. late' \subseteq Methods
    BY <1>12, <1>l DEF Interrupt, TypeOK
  <2> QED BY <1>12, <1>a, <1>r, <2>1 DEF Interrupt, TypeOK
<1>13. ASSUME NEW m \in Methods, ServeLate(m) PROVE TypeOK'
  <2>1. Call!Perform(m) \/ UNCHANGED entry
    BY <1>13 DEF ServeLate, Call!ServeLate
  <2>2. entry' \in Call!Entries
    BY <2>1, PerformKeepsEntries DEF TypeOK
  <2>3. late' \subseteq Methods /\ UNCHANGED <<call, reply, answer, pc, attempt, token, waited, cancelled>>
    BY <1>13 DEF ServeLate, Call!ServeLate, TypeOK
  <2> QED BY <2>2, <2>3 DEF TypeOK
<1>14. CASE UNCHANGED vars
  BY <1>14 DEF vars, exchange, TypeOK
<1> QED
  BY <1>1, <1>2, <1>3, <1>4, <1>5, <1>6, <1>7, <1>8, <1>9, <1>10, <1>11, <1>12, <1>13, <1>14
  DEF Next, Step

\* The variables keep their types; in particular there is never an attempt more
\* than MaxAttempts, and no request outlives its timeout.
THEOREM TypeCorrect == Spec => []TypeOK
BY InitTyped, StepTyped, PTL DEF Spec

-----------------------------------------------------------------------------
(***************************************************************************)
(* The token.                                                              *)
(***************************************************************************)

\* The tokens that NoStaleToken is about.
LongToken == token.lifetime > Buffer /\ ~token.revoked

\* A token that has been issued has lost no more than the request for it has
\* taken; one in the cache outlives the cache by a request; one under way
\* outlives the request.
TokenInv ==
    /\ pc = "issued" => token.cache = 0
    /\ pc = "issued" /\ LongToken => token.life >= token.lifetime - waited
    /\ LongToken /\ token.cache > 0 => token.life >= token.cache + RequestTimeout
    /\ LongToken /\ pc = "send" => token.life > RequestTimeout - waited

\* What leaves the token alone may only send with a token in the cache.
LEMMA SameTokenKeepsInv ==
    ASSUME TypeOK, TokenInv, UNCHANGED token, pc' # "issued",
           pc' = "send" => waited' = 0 /\ token.cache > 0
    PROVE  TokenInv'
BY HttpClientAssumption DEF TokenInv, LongToken, TypeOK, Token

LEMMA StepKeepsTokenInv == ASSUME TypeOK, TokenInv, [Next]_vars PROVE TokenInv'
<1> USE HttpClientAssumption, TimeoutsFitBuffer
<1>t. token.life \in Nat /\ token.cache \in Nat /\ token.lifetime \in Nat /\ token \in Token
      /\ waited \in Nat
  <2>1. token \in Token
    BY DEF TypeOK
  <2>2. waited \in Nat
    BY DEF TypeOK
  <2>3. token.life \in Nat /\ token.cache \in Nat /\ token.lifetime \in Lifetimes \cup {0}
    BY <2>1, Zenon DEF Token
  <2>4. Lifetimes \cup {0} \subseteq Nat
    OBVIOUS
  <2> QED BY <2>1, <2>2, <2>3, <2>4
<1>1. CASE Tick
  <2>1. /\ token'.lifetime = token.lifetime /\ token'.revoked = token.revoked
        /\ token'.life = Down(token.life) /\ token'.cache = Down(token.cache)
    BY <1>1, <1>t DEF Tick, Token
  <2>2. pc' = pc /\ (pc \in {"issued", "send"} => waited' = waited + 1)
        /\ (pc = "issued" => waited < TokenTimeout) /\ (pc = "send" => waited < RequestTimeout)
    BY <1>1 DEF Tick
  <2>3. pc = "issued" => token'.cache = 0
    BY <2>1 DEF TokenInv, Down
  <2>4. pc = "issued" /\ LongToken => token'.life >= token.lifetime - (waited + 1)
    BY <1>t, <2>1, <2>2 DEF TokenInv, LongToken, Down
  <2>5. LongToken /\ token'.cache > 0 => token'.life >= token'.cache + RequestTimeout
    BY <1>t, <2>1 DEF TokenInv, LongToken, Down
  <2>6. LongToken /\ pc = "send" => token'.life > RequestTimeout - (waited + 1)
    BY <1>t, <2>1, <2>2 DEF TokenInv, LongToken, Down
  <2> QED BY <2>1, <2>2, <2>3, <2>4, <2>5, <2>6 DEF TokenInv, LongToken
<1>2. CASE Others \/ Cancel \/ Serve \/ (\E m \in Methods : ServeLate(m)) \/ UNCHANGED vars
  BY <1>2 DEF Others, Cancel, Serve, ServeLate, exchange, vars, TokenInv, LongToken
<1>3. CASE Revoke
  <2>1. token'.revoked /\ token'.cache = token.cache /\ pc' = pc
    BY <1>3, <1>t DEF Revoke, Token
  <2> QED BY <2>1 DEF TokenInv, LongToken
<1>4. CASE Start \/ NextAttempt
  <2>1. UNCHANGED token /\ MakeRequest
    BY <1>4 DEF Start, NextAttempt
  <2> QED BY <2>1, SameTokenKeepsInv DEF MakeRequest, HaveToken
<1>5. CASE IssueToken
  <2>1. PICK e \in Lifetimes :
          token' = [lifetime |-> e, life |-> e, cache |-> 0, revoked |-> FALSE]
    BY <1>5 DEF IssueToken
  <2>2. pc' = "issued" /\ waited' = waited /\ e \in Nat
    BY <1>5 DEF IssueToken
  <2> QED BY <1>t, <2>1, <2>2 DEF TokenInv, LongToken
<1>6. CASE ReceiveToken
  <2>1. /\ pc = "issued" /\ pc' = "send" /\ waited' = 0 /\ waited <= TokenTimeout
        /\ token' = [token EXCEPT !.cache = token.lifetime - BufferOf(token.lifetime)]
    BY <1>6 DEF ReceiveToken, TypeOK
  <2>2. /\ token'.lifetime = token.lifetime /\ token'.revoked = token.revoked
        /\ token'.life = token.life
        /\ token.lifetime > Buffer => token'.cache = token.lifetime - Buffer
    BY <1>t, <2>1 DEF Token, BufferOf
  <2>3. LongToken => token.life >= token.lifetime - waited
    BY <2>1 DEF TokenInv
  <2>4. LongToken => token.life >= token'.cache + RequestTimeout /\ token'.cache > 0
    BY <1>t, <2>1, <2>2, <2>3 DEF LongToken
  <2>5. LongToken => token.life > RequestTimeout
    BY <1>t, <2>2, <2>4 DEF LongToken
  <2> QED BY <2>1, <2>2, <2>4, <2>5 DEF TokenInv, LongToken
<1>7. CASE TokenFails \/ Receive \/ TransportError \/ TransientStatus \/ Interrupt
  <2>1. UNCHANGED token
    BY <1>7 DEF TokenFails, Receive, TransportError, TransientStatus, Interrupt
  <2>2. pc' \in {"idle", "sleep"}
    BY <1>7 DEF TokenFails, Receive, TransportError, TransientStatus, Interrupt, RetryOrFail, Answer
  <2> QED BY <2>1, <2>2, SameTokenKeepsInv
<1> QED
  BY <1>1, <1>2, <1>3, <1>4, <1>5, <1>6, <1>7 DEF Next, Step

\* A cached token that is sent does not expire under way, whatever the backoffs
\* and the delays, as long as the two timeouts fit the buffer (auth.go:128).
THEOREM NoStaleTokenHolds == Spec => []NoStaleToken
<1>1. Init => TokenInv
  BY HttpClientAssumption DEF Init, NoToken, TokenInv, LongToken
<1>2. TypeOK /\ TokenInv /\ [Next]_vars => TokenInv'
  BY StepKeepsTokenInv
<1>3. TypeOK /\ TokenInv => NoStaleToken
  BY HttpClientAssumption DEF TypeOK, Token, TokenInv, LongToken, NoStaleToken
<1> QED BY <1>1, <1>2, <1>3, TypeCorrect, PTL DEF Spec

-----------------------------------------------------------------------------
(***************************************************************************)
(* What the callers rely on.                                               *)
(***************************************************************************)

\* A request that is given up is repeated, or ends the call with an error.
LEMMA RetryIsRepeatOrFail ==
    ASSUME call # "none", UNCHANGED entry, Call!Abandon, RetryOrFail
    PROVE  Call!Repeat \/ Call!Fail
<1>1. CASE attempt < MaxAttempts
  BY <1>1 DEF RetryOrFail, Call!Repeat
<1>2. CASE ~(attempt < MaxAttempts)
  BY <1>2 DEF RetryOrFail, Answer, Call!Fail
<1> QED BY <1>1, <1>2

\* Every step of the client and of its server is a step of the call, or none.
LEMMA StepImplementsCall == ASSUME TypeOK, [Next]_vars PROVE [Call!Next]_(Call!vars)
<1> USE DEF Call!Next
<1>c. pc # "idle" => call # "none"
  BY DEF TypeOK
<1>1. CASE Tick \/ Revoke \/ Cancel \/ IssueToken \/ ReceiveToken \/ NextAttempt \/ UNCHANGED vars
  BY <1>1 DEF Tick, Revoke, Cancel, IssueToken, ReceiveToken, NextAttempt, vars, exchange, Call!vars
<1>2. CASE Others \/ Start
  BY <1>2 DEF Others, Start
<1>3. CASE TokenFails
  BY <1>3, <1>c DEF TokenFails, Answer, Call!Fail
<1>4. CASE Serve
  BY <1>4, <1>c DEF Serve, RefusalAnswer, Call!Serve
<1>5. CASE Receive
  <2>1. CASE Answer(reply)
    BY <1>5, <1>c, <2>1 DEF Receive, Answer, Call!Finish
  <2>2. CASE Answer("error")
    BY <1>5, <1>c, <2>2 DEF Receive, Answer, Call!Fail
  <2> QED BY <1>5, <2>1, <2>2 DEF Receive
<1>6. CASE TransportError
  BY <1>6, <1>c, RetryIsRepeatOrFail DEF TransportError
<1>7. CASE TransientStatus
  <2>1. call # "none" /\ UNCHANGED entry /\ Call!Abandon /\ (RetryOrFail \/ Answer("error"))
    BY <1>7, <1>c DEF TransientStatus
  <2>2. CASE RetryOrFail
    BY <2>1, <2>2, RetryIsRepeatOrFail
  <2>3. CASE Answer("error")
    BY <2>1, <2>3 DEF Answer, Call!Fail
  <2> QED BY <2>1, <2>2, <2>3
<1>8. CASE Interrupt
  BY <1>8, <1>c DEF Interrupt, Answer, Call!Fail
<1>9. ASSUME NEW m \in Methods, ServeLate(m) PROVE Call!Next
  BY <1>9 DEF ServeLate
<1> QED BY <1>1, <1>2, <1>3, <1>4, <1>5, <1>6, <1>7, <1>8, <1>9 DEF Next, Step

\* Retries, token requests, timeouts and cancellation cannot be told from a call
\* of CatalogCall: a refusal was true when the server gave it, an "ok" took effect,
\* and only requests that got no answer touch the entry later.
THEOREM CallImplemented == Spec => ImplementsCall
<1>1. Init => Call!Init
  BY DEF Init
<1>2. TypeOK /\ [Next]_vars => [Call!Next]_(Call!vars)
  BY StepImplementsCall
<1> QED BY <1>1, <1>2, TypeCorrect, PTL DEF Spec, ImplementsCall, Call!Spec
=============================================================================
