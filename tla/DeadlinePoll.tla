---------------------------- MODULE DeadlinePoll ----------------------------
(***************************************************************************)
(* The five polls that wait for money to move under one deadline: a        *)
(* transfer, a deposit and a tx hash of the wallet (src/wallet/status.rs), *)
(* a tokenization request and the detection of a redemption                *)
(* (src/tokenization/client.rs), with the waits of src/rate_limit.rs.      *)
(*                                                                         *)
(* now is the time since the poll started; the deadline is Timeout. Timers *)
(* fire when due, so Tick waits for the task a due timer wakes.            *)
(***************************************************************************)
EXTENDS Integers

CONSTANTS
    Polls,       \* which of the five polls run
    Timeout,     \* config.timeout
    Interval,    \* config.interval
    MaxRetries,  \* config.max_retries
    Delays,      \* what the exponential backoff may yield
    MaxHold,     \* MAX_RETRY_AFTER_HOLD
    Hints        \* the values a Retry-After may take, 0 for none

BackoffPolls == {"transfer", "deposit"}
TokenPolls == {"request", "redemption"}

ASSUME PollAssumption ==
    /\ Polls \subseteq BackoffPolls \cup TokenPolls \cup {"tx_hash"}
    /\ {Timeout, MaxRetries, MaxHold} \subseteq Nat
    /\ Interval \in Nat \ {0}
    /\ Delays \subseteq Nat /\ Hints \subseteq Nat

VARIABLES
    poll,        \* which poll this is
    policy,      \* the BackpressurePolicy
    status,      \* the transfer or request at Alpaca
    tx,          \* Alpaca reports an onchain hash for it
    network,     \* the network it is reported on, for a tokenization
    now,         \* time since the start
    pc,          \* where the poll is
    wakeAt,      \* when the sleep it is in ends
    nextTick,    \* the next tick of the tokenization interval
    retries,     \* what is left of the backoff of this read
    throttled,   \* the backpressure error a deadline would end with
    lastStatus,  \* the status the last read reported, "absent" for none
    result,      \* what the poll returned
    lastRead     \* history: how the last read that ended did

alpacaVars == <<status, tx, network>>
timerVars == <<wakeAt, nextTick>>
pollVars == <<poll, policy, alpacaVars, now, pc, timerVars, retries, throttled,
          lastStatus, result, lastRead>>

\* A tokenization is pending, complete (completed) or failed (rejected).
Final == {"complete", "failed"}
Statuses == {"absent", "pending", "processing"} \cup Final

Min2(a, b) == IF a < b THEN a ELSE b
Max2(a, b) == IF a > b THEN a ELSE b

PollInit ==
    /\ poll \in Polls
    /\ policy \in {"Return", "RetryInPlace"}
    /\ status \in {"absent", "pending"} /\ tx = FALSE
    /\ network \in {"own", "other", "missing"}
    /\ now = 0
    /\ pc = IF poll \in TokenPolls THEN "tick" ELSE "read"
    /\ wakeAt = 0 /\ nextTick = 0
    /\ retries = MaxRetries
    /\ throttled = FALSE
    /\ lastStatus = "absent"
    /\ result = "none"
    /\ lastRead = "none"

-----------------------------------------------------------------------------
(* Alpaca (external) *)

\* A tokenization has no processing status.
PollStatuses == IF poll \in TokenPolls THEN Statuses \ {"processing"} ELSE Statuses

\* A transfer or request moves on and its hash appears, both for good.
Move ==
    /\ \/ /\ \/ status = "absent" /\ status' = "pending"
             \/ status = "pending" /\ status' \in PollStatuses \cap {"processing"}
             \/ status = "pending" /\ status' \in Final
             \/ status = "processing" /\ status' \in Final
          /\ UNCHANGED tx
       \/ ~tx /\ tx' = TRUE /\ UNCHANGED status
    /\ UNCHANGED <<poll, policy, network, now, pc, timerVars, retries, throttled,
                   lastStatus, result, lastRead>>

Rank == [absent |-> 0, pending |-> 1, processing |-> 2, complete |-> 3, failed |-> 3]

\* What a read may report: the state now, or an earlier one of a replica.
Reported == {status} \cup {s \in PollStatuses : Rank[s] < Rank[status]}

-----------------------------------------------------------------------------
(* The waits of rate_limit.rs *)

\* Mutant: a wait may run past the deadline.
next_poll_delay_unbounded(scheduled) == scheduled

next_poll_delay(scheduled) == Min2(scheduled, Timeout - now)

capped_backpressure_wait(hint, scheduled) ==
    IF hint = 0 THEN scheduled ELSE Max2(Min2(hint, MaxHold), scheduled)

\* backpressure_wait returns None.
EndsOnThrottle(hint, scheduled) ==
    \/ policy = "Return"
    \/ capped_backpressure_wait(hint, scheduled) >= Timeout - now

-----------------------------------------------------------------------------

EndPoll(what) ==
    /\ pc' = "done"
    /\ result' = what
    /\ UNCHANGED timerVars

Sleep(scheduled) ==
    /\ pc' = "sleep"
    /\ wakeAt' = now + next_poll_delay(scheduled)
    /\ UNCHANGED <<nextTick, result>>

Again ==
    /\ pc' = "tick"
    /\ UNCHANGED <<timerVars, result>>

\* The interval ticks, skipping the ticks a read or a wait slept over.
TickFires ==
    /\ pc = "tick" /\ nextTick <= now
    /\ nextTick' = now + Interval - ((now - nextTick) % Interval)
    /\ pc' = "read"
    /\ UNCHANGED <<poll, policy, alpacaVars, now, wakeAt, retries, throttled,
                   lastStatus, result, lastRead>>

\* tick_before: the deadline comes before the next tick.
TickTooLate ==
    /\ pc = "tick" /\ now >= Timeout /\ nextTick > now
    /\ EndPoll(IF throttled THEN "throttled" ELSE "timed_out")
    /\ UNCHANGED <<poll, policy, alpacaVars, now, retries, throttled, lastStatus,
                   lastRead>>

StartRead ==
    /\ pc = "read" /\ now < Timeout
    /\ pc' = "reading"
    /\ UNCHANGED <<poll, policy, alpacaVars, now, timerVars, retries, throttled,
                   lastStatus, result, lastRead>>

\* backoff.next() returns None.
BudgetSpent == poll \in BackoffPolls /\ retries = 0

\* An error no later read can clear (is_retried), or a throttle not waited out.
Stops(error, hint, scheduled) ==
    \/ error \in {"permanent", "timed_out"}
    \/ error = "throttled" /\ EndsOnThrottle(hint, scheduled)

retry_wait(error, hint, scheduled) ==
    IF error = "throttled" THEN capped_backpressure_wait(hint, scheduled)
    ELSE scheduled

EndFailed(error) == EndPoll(error) /\ UNCHANGED <<retries, throttled>>

\* The transfer and deposit polls after a failed read.
retry_read_before(error, hint, delay) ==
    IF Stops(error, hint, delay) \/ BudgetSpent THEN EndFailed(error)
    ELSE /\ throttled' = (error = "throttled")
         /\ retries' = retries - 1
         /\ Sleep(retry_wait(error, hint, delay))

\* The tx hash poll after one: no budget but the deadline.
hash_read_failed(error, hint) ==
    IF Stops(error, hint, Interval) THEN EndFailed(error)
    ELSE /\ throttled' = (error = "throttled")
         /\ UNCHANGED retries
         /\ Sleep(retry_wait(error, hint, Interval))

\* The tokenization polls: a throttle is slept out, then the next tick.
retry_transient(error, hint) ==
    IF Stops(error, hint, 0) THEN EndFailed(error)
    ELSE /\ throttled' = (error = "throttled")
         /\ UNCHANGED retries
         /\ IF error = "throttled" THEN Sleep(retry_wait(error, hint, 0)) ELSE Again

Failed(error, hint, delay) ==
    \/ poll \in BackoffPolls /\ retry_read_before(error, hint, delay)
    \/ poll = "tx_hash" /\ hash_read_failed(error, hint)
    \/ poll \in TokenPolls /\ retry_transient(error, hint)

PollReadFails(error, hint, delay) ==
    /\ pc = "reading"
    /\ Failed(error, hint, delay)
    /\ lastRead' = error
    /\ UNCHANGED <<poll, policy, alpacaVars, now, lastStatus>>

\* Mutant: a read running at the deadline is awaited on.
DeadlineOnlyBetween ==
    /\ pc = "read" /\ now >= Timeout
    /\ \E hint \in Hints, delay \in Delays :
          Failed(IF throttled THEN "throttled" ELSE "timed_out", hint, delay)
    /\ UNCHANGED <<poll, policy, alpacaVars, now, lastStatus, lastRead>>

\* read_before at the deadline: no read starts, a running one is dropped,
\* and the error kept from a throttle, or the timeout, goes through the
\* retry rule like any other.
DeadlinePassed ==
    /\ pc \in {"read", "reading"} /\ now >= Timeout
    /\ \E hint \in Hints, delay \in Delays :
          Failed(IF throttled THEN "throttled" ELSE "timed_out", hint, delay)
    /\ UNCHANGED <<poll, policy, alpacaVars, now, lastStatus, lastRead>>

\* transfer_tx_hash_state.
transfer_tx_hash_state(s, t) ==
    IF s = "failed" THEN "failed"
    ELSE IF s = "complete" /\ t THEN "hash" ELSE "none"

\* parse_status_transition refuses it.
is_regression(previous, s) == previous = "processing" /\ s = "pending"

\* A request the lookup found, unless it is another network's or names none.
confirm_network(found) == IF network = "own" THEN found ELSE "wrong_network"

get_request(s) == IF s = "absent" THEN "not_found" ELSE confirm_network(s)

find_redemption_by_tx(s) == IF s = "absent" THEN "none" ELSE confirm_network("detected")

\* What each poll returns for a status read, "none" to go on waiting.
TransferAnswer(s) ==
    IF s = "absent" THEN "not_found"
    ELSE IF is_regression(lastStatus, s) THEN "regressed"
    ELSE IF s \in Final THEN s ELSE "none"

DepositAnswer(s) == IF s = "absent" THEN "none" ELSE TransferAnswer(s)

TxHashAnswer(s, t) == IF s = "absent" THEN "not_found" ELSE transfer_tx_hash_state(s, t)

RequestAnswer(s) == IF get_request(s) = "pending" THEN "none" ELSE get_request(s)

Answer(s, t) ==
    CASE poll = "transfer" -> TransferAnswer(s)
      [] poll = "deposit" -> DepositAnswer(s)
      [] poll = "tx_hash" -> TxHashAnswer(s, t)
      [] poll = "request" -> RequestAnswer(s)
      [] poll = "redemption" -> find_redemption_by_tx(s)

\* Mutant: the tx hash poll keeps its throttle over an answer.
throttleKeptByAnswer == throttled /\ poll = "tx_hash"

\* A read that answered ends the throttle.
throttleAfterAnswer == FALSE

ReadAnswers ==
    /\ pc = "reading"
    /\ \E s \in Reported, t \in {FALSE, tx} :
          /\ IF Answer(s, t) # "none" THEN EndPoll(Answer(s, t))
             ELSE IF poll \in TokenPolls THEN Again ELSE Sleep(Interval)
          /\ lastStatus' = IF s = "absent" THEN lastStatus ELSE s
    /\ retries' = MaxRetries
    /\ throttled' = throttleAfterAnswer
    /\ lastRead' = "answered"
    /\ UNCHANGED <<poll, policy, alpacaVars, now>>

Wake ==
    /\ pc = "sleep" /\ now >= wakeAt
    /\ pc' = IF poll \in TokenPolls THEN "tick" ELSE "read"
    /\ UNCHANGED <<poll, policy, alpacaVars, now, timerVars, retries, throttled,
                   lastStatus, result, lastRead>>

-----------------------------------------------------------------------------

Due ==
    \/ pc \in {"read", "done"}
    \/ pc = "tick" /\ (nextTick <= now \/ now >= Timeout)
    \/ pc = "sleep" /\ now >= wakeAt
    \/ pc = "reading" /\ now >= Timeout

Tick ==
    /\ ~Due
    /\ now' = now + 1
    /\ UNCHANGED <<poll, policy, alpacaVars, pc, timerVars, retries, throttled,
                   lastStatus, result, lastRead>>

Errors == {"throttled", "transient", "permanent"}

PollNext ==
    \/ Move \/ Tick \/ TickFires \/ TickTooLate \/ StartRead \/ DeadlinePassed
    \/ ReadAnswers \/ Wake
    \/ \E error \in Errors, hint \in Hints, delay \in Delays :
          PollReadFails(error, hint, delay)

PollSpec == PollInit /\ [][PollNext]_pollVars

\* Time passes and the woken poll runs; Alpaca need never answer.
Prompt == TickFires \/ TickTooLate \/ StartRead \/ DeadlinePassed \/ Wake

PollFairSpec == PollSpec /\ WF_pollVars(Tick) /\ WF_pollVars(Prompt)

-----------------------------------------------------------------------------
(* Properties *)

Results == {"none", "timed_out", "throttled", "transient", "permanent",
            "not_found", "wrong_network", "regressed", "detected", "hash",
            "complete", "failed"}

PollTypeOK ==
    /\ poll \in Polls /\ policy \in {"Return", "RetryInPlace"}
    /\ status \in PollStatuses /\ tx \in BOOLEAN
    /\ network \in {"own", "other", "missing"}
    /\ now \in Nat
    /\ pc \in {"tick", "read", "reading", "sleep", "done"}
    /\ wakeAt \in Nat /\ nextTick \in Nat
    /\ retries \in 0..MaxRetries
    /\ throttled \in BOOLEAN
    /\ lastStatus \in Statuses
    /\ result \in Results
    /\ lastRead \in {"none", "answered"} \cup Errors

\* No wait, hint or read runs past the deadline.
EndsByDeadline == now <= Timeout

\* A poll the deadline ends says why truly: with the 429 when the last read
\* to end was throttled, with the plain timeout otherwise, however many
\* answers and errors came before.
ThrottleIsCurrent ==
    /\ result = "timed_out" => lastRead # "throttled"
    /\ result = "throttled" => lastRead = "throttled"

\* What a poll hands on holds at Alpaca for good: a hash only of a completed
\* transfer, a final status only of a request on this client's own chain.
ResultHolds ==
    /\ result = "hash" => status = "complete" /\ tx
    /\ result \in Final => status = result
    /\ poll \in TokenPolls /\ result \in Final \cup {"detected"} => network = "own"

\* What a poll returns is true: why it ended, and what it hands on.
AnswerHolds == ThrottleIsCurrent /\ ResultHolds

\* Every poll ends, whatever Alpaca answers.
PollEnds == <>(pc = "done")
=============================================================================
