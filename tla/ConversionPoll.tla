--------------------------- MODULE ConversionPoll ---------------------------
(***************************************************************************)
(* A USDC/USD conversion order and the poll that waits for it              *)
(* (src/broker/order.rs): order reads until a deadline, then the cancel of *)
(* the remainder and a settle window, while the broker goes on working the *)
(* order. A caller that got no outcome, or crashed, looks the order up by  *)
(* its client_order_id and resumes (src/broker/api.rs).                    *)
(*                                                                         *)
(* Time is relative: deadlines, sleeps and request timeouts count down.    *)
(* Timers fire when due, so Tick waits for the task a due timer wakes.     *)
(***************************************************************************)
EXTENDS Integers

CONSTANTS
    Size,            \* what a full fill amounts to
    OrderDeadline,   \* deadlines.order
    SettleDeadline,  \* deadlines.cancel_settle
    Interval,        \* deadlines.interval
    CancelTimeout,   \* the HTTP timeout of a cancel
    MaxHold,         \* MAX_RETRY_AFTER_HOLD
    Hints,           \* the values a Retry-After may take, 0 for none
    MaxCalls         \* bound: how often the caller starts or resumes

ASSUME DeadlinesAssumption ==
    /\ {OrderDeadline, SettleDeadline, CancelTimeout, MaxHold} \subseteq Nat
    /\ {Size, Interval, MaxCalls} \subseteq Nat \ {0}
    /\ Hints \subseteq Nat

VARIABLES
    mode,        \* until_filled (a new order) or to_terminal (a resumed one)
    policy,      \* deadlines.backpressure
    status,      \* the order at the broker
    fill,        \* what of it has filled
    stage,          \* where the poll is
    left,        \* what is left of the deadline or of the settle window
    nap,         \* what is left of the sleep, or of the cancel's timeout
    snap,        \* the order as the read under way found it, or NoSnap
    lastFilled,  \* the last fill a read reported, or Unreported
    cancel,      \* the DeadlineCancel, "none" before the first
    reply,       \* the broker's answer to the cancel under way
    strayCancel, \* a cancel given up may still reach the broker
    straySubmit, \* a placement given up is "under way", or reached the broker
                 \* "late", after the conversion was written off
    calls,       \* how often the caller started or resumed
    result,      \* what the poll returned
    mostSeen,    \* history: the largest fill a read reported
    elapsed      \* history: how long the poll has run

orderVars == <<status, fill>>
pollVars == <<left, nap, snap, lastFilled>>
cancelVars == <<cancel, reply, strayCancel>>
callVars == <<straySubmit, calls>>
convVars == <<mode, policy, stage, orderVars, pollVars, cancelVars, callVars, result,
          mostSeen, elapsed>>

\* BrokerOrderStatus by what the poll makes of it. "paused" is done_for_day,
\* suspended, replaced or calculated: a failure the order may resume from.
\* "dead" is expired or rejected.
Live == {"open", "paused", "pending_cancel"}
Terminal == {"filled", "canceled", "dead"}
Statuses == Live \cup Terminal \cup {"none"}

Unreported == -1
Fills == 0..Size
NoSnap == [status |-> "none", fill |-> Unreported]
Running == [kind |-> "running", status |-> "none", fill |-> Unreported,
            cancel |-> "none"]

Min2(a, b) == IF a < b THEN a ELSE b
Max2(a, b) == IF a > b THEN a ELSE b

ConvInit ==
    /\ mode = "until_filled"
    /\ policy \in {"Return", "RetryInPlace"}
    /\ status = "none" /\ fill = 0 /\ stage = "placing"
    /\ left = OrderDeadline /\ nap = 0
    /\ snap = NoSnap /\ lastFilled = Unreported
    /\ cancel = "none" /\ reply = "none"
    /\ strayCancel = FALSE /\ straySubmit = "none" /\ calls = 1
    /\ result = Running
    /\ mostSeen = Unreported /\ elapsed = 0

-----------------------------------------------------------------------------
(* The broker (external) *)

Fill ==
    /\ status \in {"open", "pending_cancel"}
    /\ fill' = fill + 1
    /\ status' = IF fill' = Size THEN "filled" ELSE status
    /\ UNCHANGED <<callVars, mode, policy, stage, pollVars, cancelVars, result, mostSeen, elapsed>>

\* An order stops and resumes, ends on its own, or its cancel settles.
MoveOrder ==
    /\ \/ status = "open" /\ status' \in {"paused", "canceled", "dead"}
       \/ status = "paused" /\ status' \in {"open", "canceled", "dead"}
       \/ status = "pending_cancel" /\ status' = "canceled"
    /\ UNCHANGED <<callVars, mode, policy, stage, fill, pollVars, cancelVars, result, mostSeen,
                   elapsed>>

Reading == stage \in {"reading", "settle_reading"}

\* A read finds the order; the answer may omit filled_qty.
Observe ==
    /\ Reading /\ snap = NoSnap
    /\ \E f \in {fill, Unreported} : snap' = [status |-> status, fill |-> f]
    /\ UNCHANGED <<callVars, mode, policy, stage, orderVars, left, nap, lastFilled, cancelVars,
                   result, mostSeen, elapsed>>

Cancelable == status \in {"open", "paused"}

\* The broker takes the cancel under way; an order already leaving gets a 422.
TakeCancel ==
    /\ stage = "cancelling" /\ reply = "none"
    /\ reply' = IF Cancelable THEN "requested" ELSE "declined"
    /\ status' = IF Cancelable THEN "pending_cancel" ELSE status
    /\ UNCHANGED <<callVars, mode, policy, stage, fill, pollVars, cancel, strayCancel, result,
                   mostSeen, elapsed>>

\* It takes a cancel whose answer the poll gave up on.
TakeStrayCancel ==
    /\ strayCancel
    /\ strayCancel' = FALSE
    /\ status' = IF Cancelable THEN "pending_cancel" ELSE status
    /\ UNCHANGED <<callVars, mode, policy, stage, fill, pollVars, cancel, reply, result, mostSeen,
                   elapsed>>

-----------------------------------------------------------------------------
(* Placement *)

Submit ==
    /\ stage = "placing" /\ status = "none"
    /\ status' = "open" /\ stage' = "check"
    /\ UNCHANGED <<callVars, mode, policy, fill, pollVars, cancelVars, result, mostSeen,
                   elapsed>>

End(kind, s, f) ==
    /\ stage' = "done"
    /\ result' = [kind |-> kind, status |-> s, fill |-> f, cancel |-> cancel]

\* What a placement without an answer may do at the broker: nothing, place the
\* order, or be on its way. A key already recorded blocks it.
Unanswered ==
    \/ UNCHANGED <<status, straySubmit>>
    \/ status = "none" /\ status' = "open" /\ UNCHANGED straySubmit
    \/ straySubmit' = "under way" /\ UNCHANGED status

\* The placement failed: refused, a duplicate of the key, or its answer lost.
SubmitFails ==
    /\ stage = "placing"
    /\ Unanswered
    /\ End("place_error", "none", Unreported)
    /\ UNCHANGED <<calls, mode, policy, fill, pollVars, cancelVars, mostSeen, elapsed>>

\* The broker takes a placement whose answer the caller gave up on.
TakeStraySubmit ==
    /\ straySubmit = "under way"
    /\ status' = IF status = "none" THEN "open" ELSE status
    /\ straySubmit' = IF status = "none" /\ result.kind = "never_placed" THEN "late"
                      ELSE "none"
    /\ UNCHANGED <<calls, mode, policy, stage, fill, pollVars, cancelVars, result, mostSeen,
                   elapsed>>

-----------------------------------------------------------------------------
(* The caller: crash-safe resume *)

\* What tells the caller no outcome.
Unsettled == {"place_error", "throttled", "read_error", "find_error", "not_settled"}

\* Another call, which knows nothing of what the one before it saw.
Again ==
    /\ calls < MaxCalls /\ calls' = calls + 1
    /\ stage' = "finding" /\ result' = Running
    /\ left' = OrderDeadline /\ nap' = 0 /\ snap' = NoSnap /\ lastFilled' = Unreported
    /\ cancel' = "none" /\ reply' = "none"
    /\ mostSeen' = Unreported /\ elapsed' = 0
    /\ UNCHANGED <<mode, policy, fill>>

Resume ==
    /\ stage = "done" /\ result.kind \in Unsettled
    /\ Again
    /\ UNCHANGED <<status, straySubmit, strayCancel>>

\* The caller crashes, a placement or a cancel of its own under way or not.
Crash ==
    /\ stage # "done"
    /\ Again
    /\ IF stage = "placing" THEN Unanswered ELSE UNCHANGED <<status, straySubmit>>
    /\ strayCancel' \in {strayCancel, strayCancel \/ (stage = "cancelling" /\ reply = "none")}

\* Mutant: a lookup that fails reads as an order never placed.
noneUnlessFound(answer) == IF answer = "found" THEN "Some" ELSE "None"

\* get_crypto_order_by_client_order_id: a 404, and nothing else, is None.
find_conversion_order(answer) ==
    CASE answer = "found" -> "Some"
      [] answer = "404" -> "None"
      [] OTHER -> "error"

\* A 404 is no proof that the order was never recorded: the broker need not
\* keep orders that have ended. One it still works is found.
\* Some is resumed by poll_conversion_to_terminal; None is written off as never
\* placed, or placed again under the same key.
Find(answer) ==
    /\ stage = "finding"
    /\ answer = "found" => status # "none"
    /\ answer = "404" => status \notin Live
    /\ LET found == find_conversion_order(answer) IN
       \/ found = "Some" /\ stage' = "check" /\ mode' = "to_terminal" /\ UNCHANGED result
       \/ found = "None" /\ stage' = "placing" /\ mode' = "until_filled" /\ UNCHANGED result
       \/ found = "None" /\ End("never_placed", "none", Unreported) /\ UNCHANGED mode
       \/ found = "error" /\ End("find_error", "none", Unreported) /\ UNCHANGED mode
    /\ UNCHANGED <<callVars, policy, orderVars, pollVars, cancelVars, mostSeen, elapsed>>

-----------------------------------------------------------------------------
(* poll_until_terminal *)

\* Mutant: done_for_day and the other resumable failures are answers.
terminalOrPaused(s) == s \in Terminal \cup {"paused"}

\* CryptoOrderOutcome::terminal of classify.
terminal(s) == s \in Terminal

\* poll_crypto_order_until_filled on the settled order; the other poll hands
\* it on.
Outcome(s, f, deadlineCancelled) ==
    IF mode = "to_terminal" THEN "terminal"
    ELSE IF s = "filled" THEN "filled"
    ELSE IF s = "canceled" /\ deadlineCancelled
         THEN IF f = Unreported THEN "incomplete"
              ELSE IF f = 0 THEN "timed_out" ELSE "partial"
    ELSE "failed"

Settled(deadlineCancelled) ==
    End(Outcome(snap.status, snap.fill, deadlineCancelled), snap.status, snap.fill)

StartRead ==
    /\ \/ stage = "check" /\ stage' = "reading"
       \/ stage = "settle" /\ stage' = "settle_reading"
    /\ left > 0
    /\ snap' = NoSnap
    /\ UNCHANGED <<callVars, mode, policy, orderVars, left, nap, lastFilled, cancelVars,
                   result, mostSeen, elapsed>>

next_poll_delay(scheduled) == Min2(scheduled, left)

SleepFor(scheduled, place) ==
    nap' = next_poll_delay(scheduled) /\ stage' = place

\* Mutant: a read without filled_qty forgets the fill reported before.
takeReportedOnly == snap.fill

\* order.filled_quantity.or(last_filled).
reported == IF snap.fill = Unreported THEN lastFilled ELSE snap.fill

ReadOrder ==
    /\ Reading /\ snap.status # "none"
    /\ IF terminal(snap.status)
       THEN Settled(stage = "settle_reading") /\ UNCHANGED <<nap, lastFilled>>
       ELSE /\ SleepFor(Interval, IF stage = "reading" THEN "sleeping"
                                  ELSE "settle_sleeping")
            /\ lastFilled' = reported
            /\ UNCHANGED result
    /\ mostSeen' = Max2(mostSeen, snap.fill)
    /\ UNCHANGED <<callVars, mode, policy, orderVars, left, snap, cancelVars, elapsed>>

\* capped_backpressure_wait, the interval when there is no hint.
capped_backpressure_wait(hint) == Max2(Min2(hint, MaxHold), Interval)

\* A read before the deadline failed: a throttle (which Return hands back),
\* another transient error, or one that ends the poll.
ReadFails(why, hint) ==
    /\ stage = "reading"
    /\ IF why = "permanent"
       THEN End("read_error", "none", Unreported) /\ UNCHANGED nap
       ELSE IF why = "throttled" /\ policy = "Return"
       THEN End("throttled", "none", Unreported) /\ UNCHANGED nap
       ELSE /\ SleepFor(IF why = "throttled" THEN capped_backpressure_wait(hint)
                        ELSE Interval, "sleeping")
            /\ UNCHANGED result
    /\ UNCHANGED <<callVars, mode, policy, orderVars, left, snap, lastFilled, cancelVars,
                   mostSeen, elapsed>>

\* Mutant: a read has no timeout_at.
DeadlineOnlyBetweenReads ==
    /\ stage = "check" /\ left = 0
    /\ stage' = "cancel"
    /\ UNCHANGED <<callVars, mode, policy, orderVars, pollVars, cancelVars, result, mostSeen,
                   elapsed>>

\* timeout_at drops a read still running at the deadline; no read starts
\* there. Then the remainder is cancelled.
DeadlinePassed ==
    /\ stage \in {"check", "reading"} /\ left = 0
    /\ stage' = "cancel"
    /\ UNCHANGED <<callVars, mode, policy, orderVars, pollVars, cancelVars, result, mostSeen,
                   elapsed>>

Wake ==
    /\ stage = "sleeping" /\ nap = 0
    /\ stage' = "check"
    /\ UNCHANGED <<callVars, mode, policy, orderVars, pollVars, cancelVars, result, mostSeen,
                   elapsed>>

-----------------------------------------------------------------------------
(* cancel_and_settle *)

SendCancel ==
    /\ stage = "cancel"
    /\ stage' = "cancelling"
    /\ nap' = CancelTimeout
    /\ reply' = "none"
    /\ UNCHANGED <<callVars, mode, policy, orderVars, left, snap, lastFilled, cancel,
                   strayCancel, result, mostSeen, elapsed>>

\* The settle window runs from the answer to the first cancel.
CancelDone(how) ==
    /\ cancel' = how
    /\ left' = IF cancel = "none" THEN SettleDeadline ELSE left
    /\ stage' = "settle"
    /\ nap' = 0
    /\ UNCHANGED result

\* request_cancel: 2xx and 422.
CancelAnswered ==
    /\ stage = "cancelling" /\ reply # "none"
    /\ CancelDone(IF reply = "requested" THEN "Accepted" ELSE "Declined")
    /\ UNCHANGED <<callVars, mode, policy, orderVars, snap, lastFilled, reply, strayCancel,
                   mostSeen, elapsed>>

\* A failed or unanswered cancel; the broker may have taken it, or take it
\* later.
CancelFails ==
    /\ stage = "cancelling"
    /\ CancelDone("Failed")
    /\ strayCancel' \in {strayCancel, strayCancel \/ reply = "none"}
    /\ UNCHANGED <<callVars, mode, policy, orderVars, snap, lastFilled, reply,
                   mostSeen, elapsed>>

\* 404: the broker does not know the order.
CancelNotFound ==
    /\ stage = "cancelling" /\ reply = "none"
    /\ End("not_found", "none", Unreported)
    /\ nap' = 0
    /\ UNCHANGED <<callVars, mode, policy, orderVars, left, snap, lastFilled, cancelVars,
                   mostSeen, elapsed>>

\* Any failed read inside the window is retried inside it.
SettleReadFails ==
    /\ stage = "settle_reading"
    /\ SleepFor(Interval, "settle_sleeping")
    /\ UNCHANGED <<callVars, mode, policy, orderVars, left, snap, lastFilled, cancelVars,
                   result, mostSeen, elapsed>>

\* A cancel the broker never answered is sent again inside the window.
SettleWake ==
    /\ stage = "settle_sleeping" /\ nap = 0
    /\ stage' = IF cancel = "Failed" /\ left > 0 THEN "cancel" ELSE "settle"
    /\ UNCHANGED <<callVars, mode, policy, orderVars, pollVars, cancelVars, result, mostSeen,
                   elapsed>>

\* ConversionCancelNotSettled.
WindowEnds ==
    /\ stage \in {"settle", "settle_reading"} /\ left = 0
    /\ End("not_settled", "none", lastFilled)
    /\ UNCHANGED <<callVars, mode, policy, orderVars, pollVars, cancelVars, mostSeen, elapsed>>

-----------------------------------------------------------------------------

\* A timer is due, or the task is running: it moves before time does.
Due ==
    \/ stage \in {"placing", "finding", "check", "cancel", "settle", "done"}
    \/ stage \in {"sleeping", "settle_sleeping", "cancelling"} /\ nap = 0
    \/ Reading /\ left = 0

Tick ==
    /\ ~Due
    /\ left' = Max2(left - 1, 0)
    /\ nap' = Max2(nap - 1, 0)
    /\ elapsed' = elapsed + 1
    /\ UNCHANGED <<callVars, mode, policy, stage, orderVars, snap, lastFilled, cancelVars, result,
                   mostSeen>>

PollStep ==
    \/ Submit \/ SubmitFails \/ Resume
    \/ (\E answer \in {"found", "404", "error"} : Find(answer))
    \/ StartRead \/ ReadOrder \/ DeadlinePassed \/ Wake
    \/ (\E why \in {"throttled", "transient", "permanent"}, hint \in Hints :
           ReadFails(why, hint))
    \/ SendCancel \/ CancelAnswered \/ CancelFails \/ CancelNotFound
    \/ SettleReadFails \/ SettleWake \/ WindowEnds

BrokerStep ==
    Fill \/ MoveOrder \/ Observe \/ TakeCancel \/ TakeStrayCancel \/ TakeStraySubmit

ConvNext == PollStep \/ BrokerStep \/ Tick \/ Crash

ConvSpec == ConvInit /\ [][ConvNext]_convVars

\* Time passes and the woken poll runs. The broker owes nothing: reads are
\* dropped at the deadline, and a cancel has its HTTP timeout.
Prompt ==
    \/ Submit \/ SubmitFails \/ (\E answer \in {"404", "error"} : Find(answer))
    \/ StartRead \/ DeadlinePassed \/ Wake \/ SendCancel
    \/ (CancelFails /\ nap = 0) \/ SettleWake \/ WindowEnds

ConvFairSpec == ConvSpec /\ WF_convVars(Tick) /\ WF_convVars(Prompt)

-----------------------------------------------------------------------------
(* Properties *)

Kinds == {"running", "place_error", "never_placed", "find_error", "filled", "partial", "timed_out", "failed",
          "incomplete", "terminal", "read_error", "throttled", "not_found",
          "not_settled"}

Snaps == [status : Statuses, fill : Fills \cup {Unreported}]
Results == [kind : Kinds, status : Statuses, fill : Fills \cup {Unreported},
            cancel : {"none", "Accepted", "Declined", "Failed"}]

\* The longer of the two windows a sleep is clamped to.
Longest == Max2(OrderDeadline, SettleDeadline)

ConvTypeOK ==
    /\ mode \in {"until_filled", "to_terminal"}
    /\ policy \in {"Return", "RetryInPlace"}
    /\ status \in Statuses /\ fill \in Fills
    /\ straySubmit \in {"none", "under way", "late"} /\ calls \in 1..MaxCalls
    /\ stage \in {"placing", "finding", "check", "reading", "sleeping", "cancel", "cancelling",
               "settle", "settle_reading", "settle_sleeping", "done"}
    /\ left \in 0..Longest /\ nap \in 0..Max2(CancelTimeout, Longest)
    /\ elapsed \in Nat
    /\ snap \in Snaps
    /\ lastFilled \in Fills \cup {Unreported}
    /\ mostSeen \in Fills \cup {Unreported}
    /\ cancel \in {"none", "Accepted", "Declined", "Failed"}
    /\ reply \in {"none", "requested", "declined"}
    /\ strayCancel \in BOOLEAN
    /\ result \in Results

\* An outcome is final: once the poll reports the order filled, partially
\* filled, timed out or failed, the broker can no longer move it, and the
\* amounts said are the ones that hold (a caller sizes its transfers from
\* them).
OutcomeIsFinal ==
    result.kind \in {"filled", "partial", "timed_out", "failed", "incomplete",
                     "terminal"}
    => /\ status = result.status /\ status \notin Live
       /\ result.fill \in {fill, Unreported}
       /\ result.kind = "timed_out" => fill = 0
       /\ result.kind = "partial" => fill > 0

\* A conversion written off as never placed is not worked at the broker and
\* never fills again, whatever failed, crashed or was retried before. Only a
\* placement still on its way when the lookup found nothing can appear
\* afterwards.
WrittenOffIsOver ==
    result.kind = "never_placed" /\ straySubmit # "late" => status \notin Live

\* What the caller acts on is true, through crashes and resumes: an outcome is
\* final, and an order that is written off does not convert behind its back.
AnswerIsFinal == OutcomeIsFinal /\ WrittenOffIsOver

\* What the comments of convert_usdc_usd, find_conversion_order and
\* get_crypto_order_by_client_order_id say of None: the order was never placed.
\* It does not hold: an order that ended and is no longer kept answers 404 too,
\* and what it converted is lost to the caller.
NeverPlacedIsTrue ==
    result.kind = "never_placed" /\ straySubmit # "late" => status = "none"

\* The deadline is the only bound on the wait: whatever the broker answers or
\* hints, the poll ends within the deadline, the settle window and two
\* cancel timeouts.
WaitIsBounded ==
    elapsed <= OrderDeadline + SettleDeadline + 2 * CancelTimeout

\* A poll that gives up on the settling cancel still says the largest fill
\* any of its reads reported, those before the cancel included, and does so
\* within its bounds.
KnownFillIsKept ==
    ConvTypeOK /\ WaitIsBounded /\ (result.kind = "not_settled" => result.fill = mostSeen)

\* Every call ends.
PollEnds == <>[](stage = "done")
=============================================================================
