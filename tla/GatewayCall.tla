----------------------------- MODULE GatewayCall -----------------------------
(***************************************************************************)
(* One gateway process serving a set of calls: admission, the detached    *)
(* task that works against Alpaca under a send gate, the handler that     *)
(* waits for it, the audit record, and shutdown                           *)
(* (crates/gateway/src/state.rs, crates/gateway/src/lib.rs,               *)
(* src/request_id.rs).                                                    *)
(*                                                                         *)
(* The handler and the task of a call run on different threads and share  *)
(* the gate's mutex and a oneshot channel; every step below is one        *)
(* critical section of either, or one synchronous run between two awaits  *)
(* that touches shared state once.                                        *)
(***************************************************************************)
EXTENDS Naturals, Sequences, FiniteSets

CONSTANTS
    Calls,      \* requests that may arrive
    Kinds,      \* what a request may be, see Kind
    PerMinute   \* human_budget_per_minute of the config

Tiers == {"bot", "read", "write"}

\* parses: its body, path and query extract; reason: a non blank reason is
\* given; cost: budget units (budget.rs); stream: corporate_actions.stream.
Kind == [tier : Tiers, mutates : BOOLEAN, disabled : BOOLEAN,
         parses : BOOLEAN, reason : BOOLEAN, cost : Nat, stream : BOOLEAN]

ASSUME KindsAssumption ==
    /\ Kinds \subseteq Kind
    /\ \A k \in Kinds : k.stream => ~k.mutates

ASSUME PerMinuteAssumption == PerMinute \in Nat

VARIABLES
    proc,       \* what lib.rs run is doing: serving, draining, waiting, exited
    grace,      \* DRAIN_GRACE has passed since the signal
    kind,       \* the Call and Intent of each request
    handler,    \* where the handler future is
    late,       \* the call's deadline has passed
    closed,     \* the SendGate's flag
    chan,       \* the oneshot channel: open, full, closed
    task,       \* where the detached task is
    wire,       \* the Alpaca request the task awaits
    written,    \* what the work knows of its writes: no, maybe, yes
    stray,      \* a write whose answer was lost may still reach Alpaca
    applied,    \* Alpaca applied a write of the call
    result,     \* the code the work ended with
    phase,      \* the phase the task will record
    answer,     \* the code the caller was answered with
    audit,      \* the audit records of each call
    used,       \* budget units used in the current window
    windowOver  \* the current window has lasted WINDOW, or none has started

callVars == <<kind, handler, late, closed, chan, answer>>
taskVars == <<task, wire, written, stray, applied, result, phase>>
procVars == <<proc, grace>>
budgetVars == <<used, windowOver>>
vars == <<callVars, taskVars, procVars, budgetVars, audit>>

NoCode == "none"

\* ErrorCode, with "ok" for a success. "unsent" is any code answer.rs gives
\* a failed work that left Alpaca untouched (rejected, backpressure,
\* unavailable, upstream_transient, ...).
Codes == {"ok", "unavailable", "capability_disabled", "invalid_request",
          "backpressure", "upstream_transient", "unsent", "outcome_unknown"}

Record == [phase : {"answered", "settled"}, code : Codes, traffic : BOOLEAN]

\* Failure::for_mutation, and the outcome of a success in AppState::event.
Outcome(k, code) ==
    IF ~k.mutates \/ code = NoCode THEN "none"
    ELSE IF code = "ok" THEN "applied"
    ELSE IF code = "outcome_unknown" THEN "unknown"
    ELSE "not_applied"

Init ==
    /\ proc = "serving" /\ grace = FALSE
    /\ kind \in [Calls -> Kinds]
    /\ handler = [c \in Calls |-> "idle"]
    /\ late = [c \in Calls |-> FALSE]
    /\ closed = [c \in Calls |-> FALSE]
    /\ chan = [c \in Calls |-> "open"]
    /\ task = [c \in Calls |-> "none"]
    /\ wire = [c \in Calls |-> "none"]
    /\ written = [c \in Calls |-> "no"]
    /\ stray = [c \in Calls |-> FALSE]
    /\ applied = [c \in Calls |-> FALSE]
    /\ result = [c \in Calls |-> NoCode]
    /\ phase = [c \in Calls |-> "answered"]
    /\ answer = [c \in Calls |-> NoCode]
    /\ audit = [c \in Calls |-> << >>]
    /\ used = 0 /\ windowOver = TRUE

shutdown == proc # "serving"

emit(c, p, code, traffic) ==
    audit' = [audit EXCEPT
        ![c] = Append(@, [phase |-> p, code |-> code, traffic |-> traffic])]

-----------------------------------------------------------------------------
(* Admission *)

IsHuman(k) == k.tier \in {"read", "write"}

\* The units used in the window a take finds, after its lazy reset.
UsedNow == IF windowOver THEN 0 ELSE used

\* The code admit refuses a call with, or "ok": the checks in their order.
admit(k) ==
    IF shutdown THEN "unavailable"
    ELSE IF k.disabled THEN "capability_disabled"
    ELSE IF k.tier = "write" /\ k.mutates /\ ~k.reason THEN "invalid_request"
    ELSE IF IsHuman(k) /\ k.cost > 0 /\ UsedNow + k.cost > PerMinute
         THEN "backpressure"
    ELSE "ok"

\* HumanBudget::take as admit reaches it: only a human call that passed the
\* other checks, and a free call never touches the window.
take(k) ==
    IF IsHuman(k) /\ k.cost > 0 /\ admit(k) \in {"ok", "backpressure"}
    THEN /\ windowOver' = FALSE
         /\ used' = IF admit(k) = "ok" THEN UsedNow + k.cost ELSE UsedNow
    ELSE UNCHANGED budgetVars

\* AppState::refuse: the answered record without traffic, then the answer.
refuse(c, code, place) ==
    /\ emit(c, "answered", code, FALSE)
    /\ answer' = [answer EXCEPT ![c] = code]
    /\ handler' = [handler EXCEPT ![c] = place]

\* An extractor refuses a request that does not parse, before admission.
Reject(c) ==
    /\ handler[c] = "idle" /\ proc \in {"serving", "draining"}
    /\ ~kind[c].parses
    /\ refuse(c, "invalid_request", "refused")
    /\ UNCHANGED <<kind, late, closed, chan, taskVars, procVars, budgetVars>>

Refuse(c) ==
    /\ handler[c] = "idle" /\ proc \in {"serving", "draining"}
    /\ kind[c].parses
    /\ admit(kind[c]) # "ok"
    /\ take(kind[c])
    /\ refuse(c, admit(kind[c]), "refused")
    /\ UNCHANGED <<kind, late, closed, chan, taskVars, procVars>>

\* run and relay up to their select: the work is spawned, the handler waits.
Admit(c) ==
    /\ handler[c] = "idle" /\ proc \in {"serving", "draining"}
    /\ kind[c].parses
    /\ admit(kind[c]) = "ok"
    /\ take(kind[c])
    /\ handler' = [handler EXCEPT ![c] = "waiting"]
    /\ task' = [task EXCEPT ![c] = "work"]
    /\ UNCHANGED <<kind, late, closed, chan, answer, wire, written, stray,
                   applied, result, phase, procVars, audit>>

WindowElapses ==
    /\ ~windowOver /\ proc # "exited"
    /\ windowOver' = TRUE
    /\ UNCHANGED <<callVars, taskVars, procVars, used, audit>>

-----------------------------------------------------------------------------
(* The send gate *)

\* SendGate::hold: the flag, then is_open (no shutdown, before the deadline).
hold(c) == ~closed[c] /\ ~shutdown /\ ~late[c]

\* relay runs its work outside any gate.
MayStart(c) == kind[c].stream \/ hold(c)

-----------------------------------------------------------------------------
(* The task *)

\* Mutant: a failure speaks of its last attempt only.
FailureCodeOfLastAttempt(c) ==
    IF written[c] = "yes" THEN "outcome_unknown" ELSE "unsent"

\* The code a failed work reports: once a write may have been written it is
\* outcome_unknown, before that one of the codes of an untouched Alpaca.
FailureCode(c) == IF written[c] = "no" THEN "unsent" ELSE "outcome_unknown"

\* Between two awaits on Alpaca; authed: with the credential just minted.
Working == {"work", "authed"}

Finish(c, code) ==
    /\ result' = [result EXCEPT ![c] = code]
    /\ task' = [task EXCEPT ![c] = "ready"]

\* ensure_open: asks the gate and drops its lock before the mint starts.
AskMint(c) ==
    /\ task[c] = "work" /\ MayStart(c)
    /\ task' = [task EXCEPT ![c] = "mint"]
    /\ UNCHANGED <<callVars, wire, written, stray, applied, result, phase,
                   procVars, budgetVars, audit>>

StartMint(c) ==
    /\ task[c] = "mint"
    /\ task' = [task EXCEPT ![c] = "minting"]
    /\ UNCHANGED <<callVars, wire, written, stray, applied, result, phase,
                   procVars, budgetVars, audit>>

MintReturns(c) ==
    /\ task[c] = "minting"
    /\ task' = [task EXCEPT ![c] = "authed"]
    /\ UNCHANGED <<callVars, wire, written, stray, applied, result, phase,
                   procVars, budgetVars, audit>>

\* request_id::send: the gate is asked and the request handed to the HTTP
\* client under one lock. A write also leaves by a second attempt.
Send(c, what) ==
    /\ task[c] \in Working /\ MayStart(c)
    /\ what = "write" => kind[c].mutates
    /\ wire' = [wire EXCEPT ![c] = what]
    /\ task' = [task EXCEPT ![c] = "inflight"]
    /\ UNCHANGED <<callVars, written, stray, applied, result, phase,
                   procVars, budgetVars, audit>>

\* A closed gate holds a request or mint back: the work ends, never sent.
HeldBack(c) ==
    /\ task[c] \in Working /\ ~MayStart(c)
    /\ Finish(c, FailureCode(c))
    /\ UNCHANGED <<callVars, wire, written, stray, applied, phase, procVars,
                   budgetVars, audit>>

\* The work ends between requests: a success needs its writes confirmed; a
\* local check, a failed mint, an exhausted retry or an unreadable answer
\* fails it.
FinishWork(c) ==
    /\ task[c] \in Working
    /\ \/ written[c] # "maybe" /\ Finish(c, "ok")
       \/ Finish(c, FailureCode(c))
    /\ UNCHANGED <<callVars, wire, written, stray, applied, phase, procVars,
                   budgetVars, audit>>

\* Alpaca (external): a write that left may be applied at any later time.
Land(c) ==
    /\ \/ /\ wire[c] = "write"
          /\ wire' = [wire EXCEPT ![c] = "landed"]
          /\ UNCHANGED stray
       \/ /\ stray[c]
          /\ stray' = [stray EXCEPT ![c] = FALSE]
          /\ UNCHANGED wire
    /\ applied' = [applied EXCEPT ![c] = TRUE]
    /\ UNCHANGED <<callVars, task, written, result, phase, procVars,
                   budgetVars, audit>>

\* A read returned; the work goes on, or fails with it. A stream connect is
\* one request, so its answer ends the work.
ReadReturns(c) ==
    /\ task[c] = "inflight" /\ wire[c] = "read"
    /\ wire' = [wire EXCEPT ![c] = "none"]
    /\ IF kind[c].stream
       THEN \E code \in {"ok", "unsent"} : Finish(c, code)
       ELSE task' = [task EXCEPT ![c] = "work"] /\ UNCHANGED result
    /\ UNCHANGED <<callVars, written, stray, applied, phase, procVars,
                   budgetVars, audit>>

\* A write returned 2xx (or a duplicate key Alpaca already holds).
WriteOk(c) ==
    /\ task[c] = "inflight" /\ wire[c] = "landed"
    /\ wire' = [wire EXCEPT ![c] = "none"]
    /\ written' = [written EXCEPT ![c] = "yes"]
    /\ task' = [task EXCEPT ![c] = "work"]
    /\ UNCHANGED <<callVars, stray, applied, result, phase, procVars,
                   budgetVars, audit>>

\* A write was definitely refused (a 4xx other than 408) or never left (no
\* connection): this attempt applies nothing. The work ends or, for a 429 of
\* the issuer client, tries again.
WriteRefused(c) ==
    /\ task[c] = "inflight" /\ wire[c] = "write"
    /\ wire' = [wire EXCEPT ![c] = "none"]
    /\ task' = [task EXCEPT ![c] = "work"]
    /\ UNCHANGED <<callVars, written, stray, applied, result, phase, procVars,
                   budgetVars, audit>>

\* A write's answer was lost, a 408 or a 5xx: it may have been written.
WriteLost(c) ==
    /\ task[c] = "inflight" /\ wire[c] \in {"write", "landed"}
    /\ wire' = [wire EXCEPT ![c] = "none"]
    /\ stray' = [stray EXCEPT ![c] = @ \/ wire[c] = "write"]
    /\ written' = [written EXCEPT ![c] = "maybe"]
    /\ task' = [task EXCEPT ![c] = "work"]
    /\ UNCHANGED <<callVars, applied, result, phase, procVars, budgetVars,
                   audit>>

\* sender.send: fails, and so settles, once the receiver closed.
Deliver(c) ==
    /\ task[c] = "ready"
    /\ chan' = [chan EXCEPT ![c] = IF @ = "open" THEN "full" ELSE @]
    /\ phase' = [phase EXCEPT ![c] =
                    IF chan[c] = "open" THEN "answered" ELSE "settled"]
    /\ task' = [task EXCEPT ![c] = "sent"]
    /\ UNCHANGED <<kind, handler, late, closed, answer, wire, written, stray,
                   applied, result, procVars, budgetVars, audit>>

\* Mutant: a call whose handler stopped waiting leaves no record.
EmitAnsweredOnly(c) ==
    /\ task[c] = "sent"
    /\ IF phase[c] = "answered" THEN emit(c, phase[c], result[c], TRUE)
       ELSE UNCHANGED audit
    /\ task' = [task EXCEPT ![c] = "done"]
    /\ UNCHANGED <<callVars, wire, written, stray, applied, result, phase,
                   procVars, budgetVars>>

Emit(c) ==
    /\ task[c] = "sent"
    /\ emit(c, phase[c], result[c], TRUE)
    /\ task' = [task EXCEPT ![c] = "done"]
    /\ UNCHANGED <<callVars, wire, written, stray, applied, result, phase,
                   procVars, budgetVars>>

-----------------------------------------------------------------------------
(* The handler *)

Deadline(c) ==
    /\ handler[c] # "idle" /\ task[c] # "none"
    /\ ~late[c] /\ ~kind[c].stream /\ proc # "exited"
    /\ late' = [late EXCEPT ![c] = TRUE]
    /\ UNCHANGED <<kind, handler, closed, chan, answer, taskVars, procVars,
                   budgetVars, audit>>

\* The handler takes the result and answers with it; CloseOnDrop closes the
\* gate on return.
AnswerResult(c) ==
    /\ handler[c] = "waiting" /\ chan[c] = "full"
    /\ handler' = [handler EXCEPT ![c] = "answered"]
    /\ answer' = [answer EXCEPT ![c] = result[c]]
    /\ closed' = [closed EXCEPT ![c] = TRUE]
    /\ UNCHANGED <<kind, late, chan, taskVars, procVars, budgetVars, audit>>

\* The select ended without the result: run closes the gate first.
GiveUp(c) ==
    /\ handler[c] = "waiting"
    /\ shutdown \/ late[c]
    /\ handler' = [handler EXCEPT ![c] = "closing"]
    /\ closed' = [closed EXCEPT ![c] = ~kind[c].stream]
    /\ UNCHANGED <<kind, late, chan, answer, taskVars, procVars, budgetVars,
                   audit>>

\* without_result for run; relay gives up only on shutdown.
without_result(k) ==
    IF k.stream THEN "unavailable"
    ELSE IF k.mutates THEN "outcome_unknown"
    ELSE "upstream_transient"

\* Mutant: a result sent before the channel closed is thrown away.
CloseChannelDropsResult(c) ==
    /\ handler[c] = "closing"
    /\ chan' = [chan EXCEPT ![c] = "closed"]
    /\ refuse(c, without_result(kind[c]), "abandoned")
    /\ UNCHANGED <<kind, late, closed, taskVars, procVars, budgetVars>>

\* receiver.close(), then try_recv(): a result sent before is still the
\* answer.
CloseChannel(c) ==
    /\ handler[c] = "closing"
    /\ IF chan[c] = "full"
       THEN /\ handler' = [handler EXCEPT ![c] = "answered"]
            /\ answer' = [answer EXCEPT ![c] = result[c]]
            /\ UNCHANGED <<chan, audit>>
       ELSE /\ chan' = [chan EXCEPT ![c] = "closed"]
            /\ refuse(c, without_result(kind[c]), "abandoned")
    /\ UNCHANGED <<kind, late, closed, taskVars, procVars, budgetVars>>

\* Mutant: run without its CloseOnDrop guard.
DisconnectLeavesGateOpen(c) ==
    /\ handler[c] = "waiting"
    /\ handler' = [handler EXCEPT ![c] = "dropping"]
    /\ UNCHANGED <<kind, late, closed, chan, answer, taskVars, procVars,
                   budgetVars, audit>>

\* The caller goes away and the handler future is dropped at its await:
\* CloseOnDrop closes the gate, then the receiver is dropped.
Disconnect(c) ==
    /\ handler[c] = "waiting"
    /\ handler' = [handler EXCEPT ![c] = "dropping"]
    /\ closed' = [closed EXCEPT ![c] = ~kind[c].stream]
    /\ UNCHANGED <<kind, late, chan, answer, taskVars, procVars, budgetVars,
                   audit>>

DropReceiver(c) ==
    /\ handler[c] = "dropping"
    /\ handler' = [handler EXCEPT ![c] = "gone"]
    /\ chan' = [chan EXCEPT ![c] = "closed"]
    /\ UNCHANGED <<kind, late, closed, answer, taskVars, procVars,
                   budgetVars, audit>>

-----------------------------------------------------------------------------
(* Shutdown: lib.rs run *)

Signal ==
    /\ proc = "serving"
    /\ proc' = "draining"
    /\ UNCHANGED <<callVars, taskVars, grace, budgetVars, audit>>

GraceEnds ==
    /\ proc \in {"draining", "waiting"} /\ ~grace
    /\ grace' = TRUE
    /\ UNCHANGED <<callVars, taskVars, proc, budgetVars, audit>>

\* Handler futures that hold a connection open.
Connected == {c \in Calls : handler[c] \in {"waiting", "closing", "dropping"}}

\* Tasks the TaskTracker still counts.
Tracked == {c \in Calls : task[c] \notin {"none", "done"}}

\* Mutant: the drain waits for every connection, with no end of grace.
DrainedNoGrace ==
    /\ proc = "draining"
    /\ Tracked = {}
    /\ proc' = "waiting"
    /\ UNCHANGED <<callVars, taskVars, grace, budgetVars, audit>>

Drained ==
    /\ proc = "draining"
    /\ Connected = {} \/ grace
    /\ proc' = "waiting"
    /\ UNCHANGED <<callVars, taskVars, grace, budgetVars, audit>>

\* Await points of a task: where the end of the runtime can cut it.
AwaitPoints == Working \cup {"mint", "minting", "inflight"}

\* run returns and the runtime is dropped: futures parked at an await are
\* dropped there, one that is running finishes its synchronous tail. A write
\* already on the wire may still land.
Exit ==
    /\ proc = "waiting"
    /\ Tracked = {} \/ grace
    /\ proc' = "exited"
    /\ task' = [c \in Calls |-> IF task[c] \in AwaitPoints THEN "cut" ELSE task[c]]
    /\ stray' = [c \in Calls |-> stray[c] \/ wire[c] = "write"]
    /\ wire' = [c \in Calls |-> "none"]
    /\ handler' = [c \in Calls |->
                      IF handler[c] = "waiting" THEN "dropping" ELSE handler[c]]
    /\ UNCHANGED <<kind, late, closed, chan, answer, written, applied, result,
                   phase, grace, budgetVars, audit>>

-----------------------------------------------------------------------------

TaskSteps(c) ==
    \/ AskMint(c) \/ StartMint(c) \/ MintReturns(c)
    \/ \E what \in {"read", "write"} : Send(c, what)
    \/ HeldBack(c) \/ FinishWork(c)
    \/ ReadReturns(c) \/ WriteOk(c) \/ WriteRefused(c) \/ WriteLost(c)
    \/ Deliver(c) \/ Emit(c)

HandlerSteps(c) ==
    \/ Reject(c) \/ Refuse(c) \/ Admit(c)
    \/ AnswerResult(c) \/ GiveUp(c) \/ CloseChannel(c)
    \/ Disconnect(c) \/ DropReceiver(c)

Next ==
    \/ \E c \in Calls : TaskSteps(c) \/ HandlerSteps(c) \/ Deadline(c) \/ Land(c)
    \/ WindowElapses \/ Signal \/ GraceEnds \/ Drained \/ Exit

Spec == Init /\ [][Next]_vars

\* Timers fire and a woken handler is polled; Alpaca may never answer.
HandlerWakes(c) ==
    AnswerResult(c) \/ GiveUp(c) \/ CloseChannel(c) \/ DropReceiver(c)

FairSpec ==
    /\ Spec
    /\ \A c \in Calls : WF_vars(Deadline(c)) /\ WF_vars(HandlerWakes(c))
    /\ WF_vars(GraceEnds) /\ WF_vars(Drained) /\ WF_vars(Exit)

\* Every request and mint also ends: the gateway builds each client with a
\* timeout over the whole request, the wallet client included.
RequestsEnd == \A c \in Calls : WF_vars(TaskSteps(c))

-----------------------------------------------------------------------------
(* Properties *)

TypeOK ==
    /\ proc \in {"serving", "draining", "waiting", "exited"}
    /\ grace \in BOOLEAN
    /\ kind \in [Calls -> Kinds]
    /\ handler \in [Calls -> {"idle", "refused", "waiting", "answered",
                              "closing", "abandoned", "dropping", "gone"}]
    /\ late \in [Calls -> BOOLEAN]
    /\ closed \in [Calls -> BOOLEAN]
    /\ chan \in [Calls -> {"open", "full", "closed"}]
    /\ task \in [Calls -> {"none", "work", "authed", "mint", "minting",
                           "inflight", "ready", "sent", "done", "cut"}]
    /\ wire \in [Calls -> {"none", "read", "write", "landed"}]
    /\ written \in [Calls -> {"no", "maybe", "yes"}]
    /\ stray \in [Calls -> BOOLEAN]
    /\ applied \in [Calls -> BOOLEAN]
    /\ result \in [Calls -> Codes \cup {NoCode}]
    /\ phase \in [Calls -> {"answered", "settled"}]
    /\ answer \in [Calls -> Codes \cup {NoCode}]
    /\ audit \in [Calls -> Seq(Record)]
    /\ used \in 0..PerMinute
    /\ windowOver \in BOOLEAN

Records(c) == {audit[c][i] : i \in DOMAIN audit[c]}

\* "not_applied" is a promise: neither the answer nor any record says it of a
\* mutation Alpaca applied, or may still apply from a request whose answer
\* was lost (Failure::for_mutation, PlacementError.written).
NotAppliedIsTrue ==
    \A c \in Calls :
        (\/ Outcome(kind[c], answer[c]) = "not_applied"
         \/ \E r \in Records(c) : Outcome(kind[c], r.code) = "not_applied")
        => ~applied[c] /\ ~stray[c] /\ wire[c] \notin {"write", "landed"}

\* Once the caller of a gated call is gone, or was answered without the
\* result, no Alpaca request of the call starts (SendGate, CloseOnDrop): a
\* caller that reconciles after that sees every write there will be.
NoSendOnceAbandoned ==
    [][\A c \in Calls :
          (handler[c] \in {"closing", "abandoned", "dropping", "gone"}
           /\ ~kind[c].stream)
          => (wire'[c] = "none" \/ wire[c] # "none")]_vars

\* What the records say agrees with what the caller was told: at most one
\* answered record, with the answer's own code, and at most one with traffic;
\* a settled record only once the handler stopped waiting.
RecordsAgree ==
    \A c \in Calls :
        /\ Cardinality({i \in DOMAIN audit[c] : audit[c][i].phase = "answered"}) <= 1
        /\ Cardinality({i \in DOMAIN audit[c] : audit[c][i].traffic}) <= 1
        /\ \A r \in Records(c) :
              /\ r.phase = "answered" => answer[c] \in {NoCode, r.code}
              /\ r.phase = "settled" => r.traffic /\ handler[c] \in {"abandoned", "gone"}
        /\ handler[c] \in {"refused", "abandoned"}
             => \E r \in Records(c) : r.phase = "answered" /\ ~r.traffic

\* A process that stopped within its grace lost no work: every admitted call
\* has its one record with traffic (TaskTracker, lib.rs run).
CleanExitRecordsAll ==
    proc = "exited" /\ ~grace =>
        \A c \in Calls : task[c] # "none" => \E r \in Records(c) : r.traffic

\* The audit trail is true and, unless the grace cut it, complete.
AuditTellsTheAnswer == RecordsAgree /\ CleanExitRecordsAll

\* The signal ends the process, whatever Alpaca and the callers do.
ShutdownEnds == proc = "draining" ~> proc = "exited"

\* As long as requests end, every admitted call leaves a record with its
\* traffic, unless the end of the grace cut it: recovery can wait for the
\* settled record.
EventuallyRecorded ==
    RequestsEnd =>
        \A c \in Calls :
            task[c] = "work"
            ~> (\E r \in Records(c) : r.traffic) \/ (proc = "exited" /\ grace)
=============================================================================
