---------------------------- MODULE IssuerRetry ----------------------------
(***************************************************************************)
(* The retry loop of the issuer client (src/core.rs retry_attempts) under  *)
(* its three calls (src/issuer/mod.rs), run by several clones that share   *)
(* one Retry-After hold, and what the gateway answers when a call fails    *)
(* (answer.rs issuer_call, under the handlers of handlers/issuer.rs).      *)
(*                                                                         *)
(* Time is relative: the hold, a sleep and the wait budget count down, so  *)
(* no clock has to be bounded.                                             *)
(***************************************************************************)
EXTENDS Integers, FiniteSets

CONSTANTS
    Callers,     \* tasks that call through clones of one client
    Calls,       \* the calls they make: mint callback, redeem, poll
    MaxRetries,  \* max_retries
    Budget,      \* RETRY_AFTER_BUDGET
    MaxHold,     \* MAX_RETRY_AFTER_HOLD
    Hints,       \* the values a Retry-After may take
    Jitters,     \* the values of retry_after_jitter
    Delays       \* the delays of the exponential backoff

ASSUME BoundsAssumption ==
    /\ Calls \subseteq {"mint", "redeem", "poll"}
    /\ {MaxRetries, Budget, MaxHold} \subseteq Nat
    /\ Hints \subseteq Nat /\ Jitters \subseteq Nat /\ Delays \subseteq Nat

VARIABLES
    holdLeft,   \* what is left of not_before
    call,       \* the call each caller makes
    pc,         \* where its retry loop is
    sleepLeft,  \* what is left of the sleep it is in
    budget,     \* what is left of its wait budget
    tries,      \* delays the backoff still yields
    written,    \* the loop's written, and then the error's
    wire,       \* its request: none, out, landed (Alpaca applied it)
    stray,      \* a request given up may still reach Alpaca
    applied,    \* Alpaca applied a request of the call
    answer,     \* what the gateway told the caller of a failed call
    waited      \* history: time slept on Retry-After deadlines

loopVars == <<pc, sleepLeft, budget, tries, written>>
netVars == <<wire, stray, applied>>
issuerVars == <<holdLeft, call, loopVars, netVars, answer, waited>>

Min2(a, b) == IF a < b THEN a ELSE b
Max2(a, b) == IF a > b THEN a ELSE b

\* AlpacaError by what the loop does with it: a mint of the credential that
\* was throttled or failed, a closed send gate, no connection, an answer lost,
\* a body that broke off, a 200 that does not parse, a status.
AuthErrors == {"jwt_limited", "jwt_failed", "jwt_broken", "not_sent"}
SendErrors == {"connect", "lost", "decode", "parse", "429", "408", "3xx", "5xx",
               "4xx", "ambiguous"}

is_retryable(e) ==
    e \in {"jwt_limited", "jwt_failed", "connect", "lost", "429", "5xx"}

\* The errors that carry a Retry-After.
backpressure(e) == e \in {"jwt_limited", "429"}

may_have_reached_alpaca(e) == e \in {"lost", "decode", "parse", "5xx", "408", "3xx"}

\* "ambiguous" is the 400 of a mint callback and the 422 of a redeem.
written_on(c, w, e) == call[c] # "poll" /\ (w \/ e = "ambiguous")

-----------------------------------------------------------------------------
(* The gateway's answer. Errors of its own: an earlier hold, and a network *)
(* the redeem endpoint does not take.                                      *)

issuer_transient(e) ==
    e \in {"jwt_limited", "jwt_failed", "connect", "lost", "429", "held", "408", "5xx"}

IssuerFailure(code, retryable) == [code |-> code, retryable |-> retryable]
NoAnswer == IssuerFailure("none", FALSE)

\* answer::issuer of a read, or of a POST no attempt of which was written.
issuer(e) ==
    CASE e \in {"429", "held"} -> IssuerFailure("backpressure", TRUE)
      [] e \in {"jwt_limited", "connect"} -> IssuerFailure("unavailable", TRUE)
      [] e \in {"jwt_failed", "jwt_broken"} -> IssuerFailure("unavailable", issuer_transient(e))
      [] e = "not_sent" -> IssuerFailure("upstream_transient", TRUE)
      [] e \in {"4xx", "ambiguous", "unsupported"} -> IssuerFailure("rejected", FALSE)
      [] OTHER -> IssuerFailure("upstream_transient", issuer_transient(e))

\* Mutant: only the call's last error decides, as for a call without retries.
issuerCallOfLast(w, e) ==
    IF may_have_reached_alpaca(e) THEN IssuerFailure("outcome_unknown", FALSE) ELSE issuer(e)

\* A POST that may have been written has an unknown outcome, whatever ended it.
issuer_call(w, e) == IF w THEN IssuerFailure("outcome_unknown", FALSE) ELSE issuer(e)

-----------------------------------------------------------------------------

IssuerInit ==
    /\ holdLeft = 0
    /\ call \in [Callers -> Calls]
    /\ pc = [c \in Callers |-> "idle"]
    /\ sleepLeft = [c \in Callers |-> 0]
    /\ budget = [c \in Callers |-> Budget]
    /\ tries = [c \in Callers |-> MaxRetries]
    /\ written = [c \in Callers |-> FALSE]
    /\ wire = [c \in Callers |-> "none"]
    /\ stray = [c \in Callers |-> FALSE]
    /\ applied = [c \in Callers |-> FALSE]
    /\ answer = [c \in Callers |-> NoAnswer]
    /\ waited = [c \in Callers |-> 0]

Goto(c, place) == pc' = [pc EXCEPT ![c] = place]

Tell(c, w, e) == answer' = [answer EXCEPT ![c] = issuer_call(w, e)]

\* A handler starts its call, the first of its caller or another one. A redeem
\* on a network the endpoint does not take fails at once.
Start(c) ==
    /\ pc[c] \in {"idle", "ok", "failed"}
    /\ \E k \in Calls :
          /\ call' = [call EXCEPT ![c] = k]
          /\ \/ Goto(c, "check") /\ answer' = [answer EXCEPT ![c] = NoAnswer]
             \/ k = "redeem" /\ Goto(c, "failed") /\ Tell(c, FALSE, "unsupported")
    /\ budget' = [budget EXCEPT ![c] = Budget]
    /\ tries' = [tries EXCEPT ![c] = MaxRetries]
    /\ written' = [written EXCEPT ![c] = FALSE]
    /\ wire' = [wire EXCEPT ![c] = "none"]
    /\ stray' = [stray EXCEPT ![c] = FALSE]
    /\ applied' = [applied EXCEPT ![c] = FALSE]
    /\ waited' = [waited EXCEPT ![c] = 0]
    /\ UNCHANGED <<holdLeft, sleepLeft>>

\* Mutant: the wait is not taken off the budget.
SleepOnHoldFree(c) ==
    /\ pc[c] = "check" /\ holdLeft > 0 /\ holdLeft <= budget[c]
    /\ \E jitter \in Jitters :
          sleepLeft' = [sleepLeft EXCEPT ![c] = Min2(holdLeft + jitter, budget[c])]
    /\ Goto(c, "holding")
    /\ UNCHANGED <<holdLeft, call, budget, tries, written, netVars, answer,
                   waited>>

\* The shared hold is ahead and fits the budget: sleep it out, with jitter.
SleepOnHold(c) ==
    /\ pc[c] = "check" /\ holdLeft > 0 /\ holdLeft <= budget[c]
    /\ \E jitter \in Jitters :
          LET wait == Min2(holdLeft + jitter, budget[c]) IN
          /\ sleepLeft' = [sleepLeft EXCEPT ![c] = wait]
          /\ budget' = [budget EXCEPT ![c] = @ - wait]
    /\ Goto(c, "holding")
    /\ UNCHANGED <<holdLeft, call, tries, written, netVars, answer,
                   waited>>

\* A hold longer than the budget ends the call without another attempt.
RefuseHold(c) ==
    /\ pc[c] = "check" /\ holdLeft > budget[c]
    /\ Goto(c, "failed")
    /\ written' = [written EXCEPT ![c] = written_on(c, @, "held")]
    /\ Tell(c, written'[c], "held")
    /\ UNCHANGED <<holdLeft, call, sleepLeft, budget, tries, netVars, waited>>

\* No hold: operation() starts and awaits its credential.
Attempt(c) ==
    /\ pc[c] = "check" /\ holdLeft = 0
    /\ Goto(c, "auth")
    /\ UNCHANGED <<holdLeft, call, sleepLeft, budget, tries, written, netVars, answer,
                   waited>>

\* The credential is in hand and the request leaves.
Send(c) ==
    /\ pc[c] = "auth"
    /\ Goto(c, "inflight")
    /\ wire' = [wire EXCEPT ![c] = "out"]
    /\ UNCHANGED <<holdLeft, call, sleepLeft, budget, tries, written, stray,
                   applied, answer, waited>>

\* Alpaca (external): a POST takes effect, in flight or after it was given up.
IssuerLand(c) ==
    /\ call[c] # "poll"
    /\ \/ /\ wire[c] = "out"
          /\ wire' = [wire EXCEPT ![c] = "landed"]
          /\ UNCHANGED stray
       \/ /\ stray[c]
          /\ stray' = [stray EXCEPT ![c] = FALSE]
          /\ UNCHANGED wire
    /\ applied' = [applied EXCEPT ![c] = TRUE]
    /\ UNCHANGED <<holdLeft, call, loopVars, answer, waited>>

IssuerSucceed(c) ==
    /\ pc[c] = "inflight" /\ (wire[c] = "landed" \/ call[c] = "poll")
    /\ wire' = [wire EXCEPT ![c] = "none"]
    /\ Goto(c, "ok")
    /\ UNCHANGED <<holdLeft, call, sleepLeft, budget, tries, written, stray,
                   applied, answer, waited>>

\* hold_for: the shared hold only grows.
hold_for(delay) == Max2(holdLeft, Min2(delay, MaxHold))

\* written |= may_have_reached_alpaca.
writtenAfter(c, e) == written[c] \/ may_have_reached_alpaca(e)

\* Mutant: the backoff yields delays without end.
triesUncounted(c, e) == tries[c]

\* delays.next(), asked only for an error worth a retry.
triesAfter(c, e) == IF is_retryable(e) /\ tries[c] > 0 THEN tries[c] - 1 ELSE tries[c]

\* The loop after a failed attempt: take the hint, then give up or back off.
AttemptFailed(c, e) ==
    \E hint \in Hints \cup {0} :
        LET hold == IF backpressure(e) THEN hold_for(hint) ELSE holdLeft
            retry == is_retryable(e) /\ tries[c] > 0 /\ hold <= budget[c]
        IN
        /\ holdLeft' = hold
        /\ IF retry
           THEN /\ Goto(c, "backoff")
                /\ \E delay \in Delays : sleepLeft' = [sleepLeft EXCEPT ![c] = delay]
                /\ written' = [written EXCEPT ![c] = writtenAfter(c, e)]
                /\ UNCHANGED answer
           ELSE /\ Goto(c, "failed")
                /\ written' = [written EXCEPT
                                  ![c] = written_on(c, writtenAfter(c, e), e)]
                /\ Tell(c, written'[c], e)
                /\ UNCHANGED sleepLeft
        /\ tries' = [tries EXCEPT ![c] = triesAfter(c, e)]
        /\ UNCHANGED <<call, budget, applied, waited>>

\* The attempt fails before anything is sent.
AuthFails(c, e) ==
    /\ pc[c] = "auth"
    /\ AttemptFailed(c, e)
    /\ UNCHANGED <<wire, stray>>

\* The attempt's request fails. What answered it decides what Alpaca (external)
\* may have done: nothing on a refusal or without a connection; a 200 was
\* applied; otherwise it may be applied now, earlier or later.
SendFails(c, e) ==
    /\ pc[c] = "inflight"
    /\ e \in {"connect", "429", "4xx"} => wire[c] = "out"
    /\ e \in {"decode", "parse"}
          => call[c] = "poll" \/ (call[c] = "redeem" /\ wire[c] = "landed")
    /\ e = "ambiguous" => call[c] # "poll"
    /\ wire' = [wire EXCEPT ![c] = "none"]
    /\ stray' = [stray EXCEPT
                    ![c] = @ \/ (e \in {"lost", "5xx", "408", "3xx", "ambiguous"}
                                 /\ wire[c] = "out" /\ call[c] # "poll")]
    /\ AttemptFailed(c, e)

\* A sleep ended.
Wake(c) ==
    /\ pc[c] \in {"holding", "backoff"} /\ sleepLeft[c] = 0
    /\ Goto(c, "check")
    /\ UNCHANGED <<holdLeft, call, sleepLeft, budget, tries, written, netVars, answer,
                   waited>>

Tick ==
    /\ holdLeft > 0 \/ \E c \in Callers : sleepLeft[c] > 0
    /\ holdLeft' = Max2(holdLeft - 1, 0)
    /\ sleepLeft' = [c \in Callers |-> Max2(sleepLeft[c] - 1, 0)]
    /\ waited' = [c \in Callers |->
                     IF pc[c] = "holding" /\ sleepLeft[c] > 0
                     THEN waited[c] + 1 ELSE waited[c]]
    /\ UNCHANGED <<call, pc, budget, tries, written, netVars, answer>>

-----------------------------------------------------------------------------

Step(c) ==
    \/ SleepOnHold(c) \/ RefuseHold(c) \/ Attempt(c) \/ Send(c) \/ IssuerSucceed(c)
    \/ (\E e \in AuthErrors : AuthFails(c, e))
    \/ (\E e \in SendErrors : SendFails(c, e))
    \/ Wake(c)

IssuerNext == Tick \/ \E c \in Callers : Start(c) \/ Step(c) \/ IssuerLand(c)

IssuerSpec == IssuerInit /\ [][IssuerNext]_issuerVars

\* Time passes, a woken task is polled, and a request ends: the HTTP client
\* has a timeout.
IssuerFairSpec == IssuerSpec /\ WF_issuerVars(Tick) /\ \A c \in Callers : WF_issuerVars(Step(c))

-----------------------------------------------------------------------------
(* Properties *)

IssuerTypeOK ==
    /\ holdLeft \in 0..MaxHold
    /\ call \in [Callers -> Calls]
    /\ pc \in [Callers -> {"idle", "check", "holding", "auth", "inflight",
                           "backoff", "ok", "failed"}]
    /\ sleepLeft \in [Callers -> Nat]
    /\ budget \in [Callers -> 0..Budget]
    /\ tries \in [Callers -> 0..MaxRetries]
    /\ written \in [Callers -> BOOLEAN]
    /\ wire \in [Callers -> {"none", "out", "landed"}]
    /\ stray \in [Callers -> BOOLEAN]
    /\ applied \in [Callers -> BOOLEAN]
    /\ answer \in [Callers -> [code : {"none", "backpressure", "unavailable", "rejected",
                                        "upstream_transient", "outcome_unknown"},
                                retryable : BOOLEAN]]
    /\ waited \in [Callers -> Nat]

\* A failure other than outcome_unknown is a promise (its outcome on the wire
\* is not_applied): over all its attempts the call changed nothing at Alpaca,
\* and nothing it sent can still do so, so the caller may send it again.
UnwrittenIsUntouched ==
    \A c \in Callers :
        pc[c] = "failed" /\ answer[c].code # "outcome_unknown"
        => ~applied[c] /\ ~stray[c] /\ wire[c] = "none"

\* However often other callers extend the hold while it sleeps, a call never
\* sleeps on Retry-After deadlines beyond its budget, nor longer than MaxHold.
WaitsWithinBudget == IssuerTypeOK /\ \A c \in Callers : waited[c] + budget[c] <= Budget

\* Every call ends, also while other callers keep extending the hold.
EveryCallEnds ==
    \A c \in Callers : pc[c] = "check" ~> pc[c] \in {"ok", "failed"}
=============================================================================
