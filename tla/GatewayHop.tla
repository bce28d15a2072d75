----------------------------- MODULE GatewayHop -----------------------------
(***************************************************************************)
(* A bot's call over the gateway, from the adapter of the gateway's client  *)
(* (crates/gateway-api) to Alpaca and back: the client's exchange with its  *)
(* bound, the gateway's translation of a library error into its error body  *)
(* (crates/gateway/src/answer.rs) and the adapter's translation of that     *)
(* body back into a library error. What happens inside the gateway is       *)
(* GatewayCall; here it is a step that ends in a library result. The caller *)
(* wants one mutation applied once and resends as the errors let it.        *)
(***************************************************************************)
EXTENDS Integers

CONSTANTS
    Operations,   \* operations called, of the catalog
    MaxCalls      \* bound: calls the caller makes

VARIABLES
    op,         \* the operation
    key,        \* the idempotency key of the current call
    calls,      \* calls made so far
    phase,      \* "idle", "url", "token", "connect" or "sent"
    spent,      \* seconds since the call began
    direct,     \* the library error of the gateway's work, when it had one
    told,       \* what the adapter returned: NoError or a library error
    pending,    \* mutations on their way that may still be applied
    effects,    \* keys (or calls, without a key) Alpaca has applied
    doubted     \* whether an earlier call's outcome was unknown

vars == <<op, key, calls, phase, spent, direct, told, pending, effects, doubted>>

-----------------------------------------------------------------------------
(* The catalog (ops.rs), as far as the adapters call it *)

MarketDataReads == {"MarketLatestTrade", "MarketLatestQuote", "MarketLatestOvernightQuote"}
BrokerReads ==
    {"AccountFunds", "AccountInventory", "AccountWithdrawableCash", "AccountPositionMark",
     "ActivitiesList", "MarketIsOpen", "MarketSession", "MarketSessionStatus", "AssetsGet",
     "AssetsCounterTradeShares", "OrdersGet", "OrdersFind", "OrdersRecover", "ConversionsGet",
     "ConversionsFind"}
Placements == {"OrdersPlaceMarket", "OrdersPlaceLimit", "OrdersPlaceExactLimit"}
BrokerWrites == {"OrdersCancel", "ConversionsSubmit", "JournalsCreate"}
WalletReads == {"WalletTransfer", "WalletTransfers", "WalletFindDeposit", "WalletDepositAddress"}
TokenizationReads ==
    {"TokenizationRequests", "TokenizationRequest", "TokenizationFindMint",
     "TokenizationFindRedemption"}

Catalog == MarketDataReads \cup BrokerReads \cup Placements \cup BrokerWrites \cup WalletReads
           \cup TokenizationReads \cup {"WalletWithdraw", "TokenizationMint"}

ASSUME HopAssumption == Operations \subseteq Catalog /\ MaxCalls \in Nat \ {0}

mutates(o) == o \in Placements \cup BrokerWrites \cup {"WalletWithdraw", "TokenizationMint"}

\* Mutant: a withdrawal is taken for one Alpaca dedupes.
resendableAnyWrite(o) == mutates(o)

resendable_with_same_key(o) == o \in Placements \cup {"OrdersCancel", "TokenizationMint"}

deadline(o) ==
    CASE o \in Placements -> 125
      [] o = "OrdersRecover" -> 90
      [] o = "ActivitiesList" -> 120
      [] o = "WalletWithdraw" -> 60
      [] OTHER -> 45

DEADLINE_MARGIN == 15
GATEWAY_CONNECT_TIMEOUT == 10
METADATA_TIMEOUT == 10

bound(o) == deadline(o) + DEADLINE_MARGIN

-----------------------------------------------------------------------------
(* Library errors: the variant, its cause or status, and a wait in half      *)
(* seconds.                                                                *)

NoHint == -1
NoStatus == 0
Error(v, cause, status, hint) == [v |-> v, cause |-> cause, status |-> status, hint |-> hint]
NoError == Error("Ok", "none", NoStatus, NoHint)

Statuses == {302, 403, 404, 408, 422, 503}
Waits == {NoHint, 0, 1, 3}

\* Failures any client has: the transport, the credential, the gate, a status
\* and a body that does not parse.
Shared ==
    {Error("Http", cause, NoStatus, NoHint) : cause \in {"builder", "connect", "cut"}}
    \cup {Error("Auth", cause, NoStatus, NoHint) :
             cause \in {"NotSent", "deterministic", "transport"}}
    \cup {Error("Auth", "throttled", NoStatus, hint) : hint \in Waits}
    \cup {Error("NotSent", "none", NoStatus, NoHint), Error("Endpoint", "none", NoStatus, NoHint),
          Error("Parse", "none", NoStatus, NoHint)}
    \cup {Error("Api", "none", status, NoHint) : status \in Statuses}
    \cup {Error("Api", "none", 429, hint) : hint \in Waits}

Plain(v) == Error(v, "none", NoStatus, NoHint)

\* Raised before anything is sent.
Unpriced == {"InvalidLimitPricePrecision", "BelowPrecision", "UsdcBelowPrecision",
             "UsdcPrecisionExceeded", "NotPositive", "NotPositiveLimitPrice", "InvalidOrderId"}
\* Decided from an answer that came.
BrokerDecided == {"AccountNotActive", "AssetNotActive", "AssetNotTradable",
                  "AccountActivitiesPageLimitExceeded", "IncompleteOrder",
                  "FilledQuantityMismatch", "CalendarDateMismatch", "MissingPositionQuantity"}
BrokerErrors == Shared \cup {Plain(v) : v \in Unpriced \cup BrokerDecided
                                               \cup {"PositionSymbolMismatch"}}
WriteErrors == Shared \cup {Plain(v) : v \in Unpriced}
ConversionErrors == WriteErrors \cup
                    {Error("UsdConversionInsufficientBalance", "none", 403, NoHint),
                     Error("Api", "duplicate", 422, NoHint)}

MarketDataErrors ==
    (Shared \ {Plain("Endpoint"), Error("Api", "none", 403, NoHint)})
    \cup {Error("Entitlement", "none", 403, NoHint)}
    \cup {Plain(v) : v \in {"MissingPrice", "NonPositivePrice", "Float", "MissingQuote",
                            "LatestQuoteSymbolMismatch", "InvalidQuote"}}

WalletErrors ==
    Shared \cup {Error("TransferNotFound", "none", 404, NoHint), Plain("FromHex")}
WithdrawErrors == Shared \cup {Plain("AddressNotWhitelisted")}

definitive == {"InsufficientPosition", "UnsupportedAccount", "InvalidParameters"}
OffNetwork == {"WrongNetwork", "NetworkMissing"}
TokenizationErrors ==
    Shared \cup {Plain(v) : v \in OffNetwork \cup {"RequestNotFound",
                                                   "DuplicateMintIssuerRequestId"}}
MintErrors == Shared \cup {Plain(v) : v \in OffNetwork \cup definitive}

\* A status that clears on its own.
response_status_permanence(status) == status \in {408, 429} \/ status >= 500

\* permanence() of the market data errors alone: the next quote may be sound.
quote_may_clear(e) == e.v \in {"MissingQuote", "LatestQuoteSymbolMismatch", "InvalidQuote"}

\* permanence() of the hop: it says itself whether a resend may succeed.
hop_may_clear(e) == e.v = "Gateway" /\ (e.cause.retryable \/ e.cause.same_key)

\* permanence() of a request that failed, alike in every error type.
clears(e) ==
    \/ e.v = "Api" /\ response_status_permanence(e.status)
    \/ e.v = "Http" /\ e.cause # "builder"
    \/ e.v = "Auth" /\ e.cause \in {"transport", "throttled"}

\* permanence() of the four error types: whether a later call may succeed.
transient(e) ==
    clears(e) \/ hop_may_clear(e) \/ quote_may_clear(e) \/ e.v = "PositionSymbolMismatch"

\* backpressure() of the four error types: whether the error asks for a wait.
throttles(e) ==
    \/ e.v = "Api" /\ e.status = 429
    \/ e.v = "Auth" /\ e.cause = "throttled"
    \/ e.v = "Gateway" /\ e.hint # NoHint

-----------------------------------------------------------------------------
(* The gateway's answer (answer.rs) *)

NoReason == "none"
Failure(code, retryable) ==
    [code |-> code, unknown |-> FALSE, retryable |-> retryable, same_key |-> FALSE,
     hint |-> NoHint, reason |-> NoReason, status |-> NoStatus]

Rejected(reason, status) ==
    [Failure("rejected", FALSE) EXCEPT !.reason = reason, !.status = status]

untyped(sent, e) ==
    IF sent = "Read" THEN Failure("upstream_transient", transient(e))
    ELSE Failure("outcome_unknown", FALSE)

\* The answer for an error status.
api_failure(sent, e) ==
    IF e.status \in 400..499 \ {408, 429} THEN Rejected("alpaca_api", e.status)
    ELSE [untyped(sent, e) EXCEPT !.status = e.status]

throttled(e) ==
    IF e.status = NoStatus THEN [Failure("unavailable", TRUE) EXCEPT !.hint = e.hint]
    ELSE [Failure("backpressure", TRUE) EXCEPT !.hint = e.hint, !.status = e.status]

unsent(e) ==
    IF e.cause = "builder" THEN Failure("upstream_transient", FALSE)
    ELSE Failure("unavailable", TRUE)

never_left(e) == e.v = "Http" /\ e.cause \in {"builder", "connect"}

\* What broker, market_data, wallet and tokenization do alike.
mapped(sent, e) ==
    IF throttles(e) THEN throttled(e)
    ELSE IF never_left(e) THEN unsent(e)
    ELSE IF e.v = "NotSent" \/ (e.v = "Auth" /\ e.cause = "NotSent")
    THEN Failure("upstream_transient", TRUE)
    ELSE IF e.v \in {"Auth", "Endpoint"} THEN Failure("unavailable", transient(e))
    ELSE IF e.v \in {"Api", "Entitlement"} THEN api_failure(sent, e)
    ELSE untyped(sent, e)

broker(sent, e) ==
    CASE e.v = "UsdConversionInsufficientBalance" -> Rejected("insufficient_balance", 403)
      [] e.v \in {"AccountNotActive", "AssetNotActive", "AssetNotTradable"} ->
            Rejected(e.v, NoStatus)
      [] e.v \in Unpriced \cup {"AccountActivitiesPageLimitExceeded"} ->
            Failure("invalid_request", FALSE)
      [] sent = "Mutation" /\ e.cause = "duplicate" ->
            [untyped(sent, e) EXCEPT !.status = e.status]
      [] OTHER -> mapped(sent, e)

placement(written, e) ==
    IF ~written THEN broker("Read", e)
    ELSE [Failure("outcome_unknown", FALSE) EXCEPT
             !.status = e.status, !.hint = IF throttles(e) THEN e.hint ELSE NoHint]

wallet(sent, e) ==
    CASE e.v = "AddressNotWhitelisted" -> Rejected("address_not_whitelisted", NoStatus)
      [] e.v = "TransferNotFound" -> Rejected("request_not_found", 404)
      [] OTHER -> mapped(sent, e)

tokenization(sent, e) ==
    CASE e.v \in definitive -> Rejected(e.v, NoStatus)
      [] e.v = "RequestNotFound" -> Rejected("request_not_found", NoStatus)
      [] e.v \in OffNetwork ->
            IF sent = "Read" THEN Rejected(e.v, NoStatus) ELSE untyped(sent, e)
      [] e.v = "Api" /\ e.status # 429 /\ sent = "Mutation" ->
            [untyped(sent, e) EXCEPT !.status = e.status]
      [] OTHER -> mapped(sent, e)

Sent(o) == IF mutates(o) THEN "Mutation" ELSE "Read"

\* The error body of a failed call.
answer_of(o, e, written) ==
    CASE o \in Placements -> placement(written, e)
      [] o \in TokenizationReads \cup {"TokenizationMint"} -> tokenization(Sent(o), e)
      [] o = "WalletWithdraw" -> wallet(IF written THEN "Mutation" ELSE "Read", e)
      [] o \in WalletReads -> wallet("Read", e)
      [] o \in MarketDataReads -> mapped("Read", e)
      [] OTHER -> broker(Sent(o), e)

\* for_mutation: anything but outcome_unknown left Alpaca untouched.
for_mutation(o, f) ==
    IF mutates(o) /\ f.code = "outcome_unknown"
    THEN [f EXCEPT !.unknown = TRUE, !.retryable = FALSE,
                   !.same_key = resendable_with_same_key(o)]
    ELSE f

\* Mutant: a wait is cut to whole seconds.
truncated_seconds(hint) == hint \div 2

\* A wait in whole seconds, rounded up and at least one.
whole_seconds(hint) == IF hint <= 2 THEN 1 ELSE (hint + 1) \div 2

\* The body on the wire.
Body(o, f) ==
    [for_mutation(o, f) EXCEPT
        !.hint = IF f.hint = NoHint THEN NoHint ELSE whole_seconds(f.hint)]

\* What the gateway answers without a library error: refusals before the
\* work, and its deadline.
Refusals ==
    {Failure("invalid_request", FALSE), Failure("unauthenticated", FALSE),
     [Failure("forbidden", FALSE) EXCEPT !.reason = "destination_not_allowed"],
     Failure("capability_disabled", FALSE), Failure("unknown_operation", FALSE),
     Failure("not_ready", TRUE), [Failure("backpressure", TRUE) EXCEPT !.hint = 3],
     Rejected("unsupported_network", NoStatus)}

Overdue(o) == Failure(IF mutates(o) THEN "outcome_unknown" ELSE "upstream_transient", TRUE)

-----------------------------------------------------------------------------
(* The adapter (client/adapter.rs) *)

Hop(retryable, unknown, same_key, hint) ==
    Error("Gateway", [retryable |-> retryable, unknown |-> unknown, same_key |-> same_key],
          NoStatus, hint)

Seconds(hint) == IF hint = NoHint THEN NoHint ELSE 2 * hint

\* The rejections an operation's adapter rebuilds as their own variant.
typed(o, reason) ==
    CASE reason = "insufficient_balance" /\ o \in BrokerReads \cup Placements \cup BrokerWrites ->
            {Error("UsdConversionInsufficientBalance", "none", 403, NoHint)}
      [] reason = "address_not_whitelisted" /\ o = "WalletWithdraw" ->
            {Plain("AddressNotWhitelisted")}
      [] reason \in definitive /\ o = "TokenizationMint" -> {Plain(reason)}
      [] reason = "request_not_found" /\ o = "TokenizationRequest" -> {Plain("RequestNotFound")}
      [] OTHER -> {}

relayed(body) ==
    CASE body.code = "backpressure" -> IF body.status = NoStatus THEN 429 ELSE body.status
      [] body.code \in {"upstream_transient", "rejected"} -> body.status
      [] OTHER -> NoStatus

answered(o, body) ==
    IF body.code = "rejected" /\ typed(o, body.reason) # {}
    THEN CHOOSE e \in typed(o, body.reason) : TRUE
    ELSE IF relayed(body) # NoStatus
    THEN Error("Api", "none", relayed(body), Seconds(body.hint))
    ELSE Hop(body.retryable /\ body.code # "rejected",
             body.code = "outcome_unknown" \/ body.unknown,
             body.same_key, Seconds(body.hint))

clears_on_its_own(status) == status \in {408, 429} \/ status >= 500

\* A client error as a hop: whether the request may have left decides.
unanswered(o, may_have_left, retryable) ==
    IF may_have_left /\ mutates(o)
    THEN Hop(FALSE, TRUE, resendable_with_same_key(o), NoHint)
    ELSE Hop(retryable, FALSE, FALSE, NoHint)

unknown(e) == e.v = "Gateway" /\ e.cause.unknown

-----------------------------------------------------------------------------

Init ==
    /\ op \in Operations
    /\ key = 1 /\ calls = 0
    /\ phase = "idle" /\ spent = 0
    /\ direct = NoError /\ told = NoError
    /\ pending = {} /\ effects = {}
    /\ doubted = FALSE

\* What Alpaca takes for the same mutation sent again: an order or a mint under
\* its key, a cancel of the same order. Anything else is another one each time.
AlpacaDedupes == Placements \cup {"OrdersCancel", "TokenizationMint"}

Mutation == IF op \in AlpacaDedupes THEN <<"key", key>> ELSE <<"call", calls>>

\* The call returns.
Return(e) ==
    /\ told' = e
    /\ phase' = "idle"
    /\ doubted' = (doubted \/ unknown(e))
    /\ UNCHANGED <<op, key, calls>>

\* The caller begins, or resends as the error lets it: after an unknown outcome
\* only under the same key and only when that is safe, otherwise when a later
\* call may succeed, with a new key if no outcome was ever unknown.
Call ==
    /\ phase = "idle" /\ calls < MaxCalls
    /\ \/ calls = 0 /\ UNCHANGED key
       \/ unknown(told) /\ told.cause.same_key /\ UNCHANGED key
       \/ /\ told # NoError /\ ~unknown(told) /\ transient(told)
          /\ key' \in IF doubted \/ op = "OrdersCancel" THEN {key} ELSE {key, key + 1}
          /\ doubted => resendable_with_same_key(op)
    /\ calls' = calls + 1
    /\ phase' = "url" /\ spent' = 0
    /\ direct' = NoError /\ told' = NoError
    /\ UNCHANGED <<op, pending, effects, doubted>>

\* A parameter the path cannot carry ends the call.
Url ==
    /\ phase = "url"
    /\ \/ phase' = "token" /\ UNCHANGED <<op, key, calls, told, doubted>>
       \/ Return(unanswered(op, FALSE, FALSE))
    /\ UNCHANGED <<spent, direct, pending, effects>>

\* The token: at hand, slow, refused by the metadata server, or not answered.
Token ==
    /\ phase = "token"
    /\ \/ /\ spent' \in {spent, spent + METADATA_TIMEOUT}
          /\ phase' = "connect"
          /\ UNCHANGED <<op, key, calls, told, doubted>>
       \/ /\ spent' = spent
          /\ \E status \in {302, 404, 503} :
                Return(unanswered(op, FALSE, clears_on_its_own(status)))
       \/ /\ spent' = spent + METADATA_TIMEOUT
          /\ Return(unanswered(op, FALSE, TRUE))
    /\ UNCHANGED <<direct, pending, effects>>

\* The request is built and the connection opens, at once or late, or not.
Connect ==
    /\ phase = "connect"
    /\ \/ /\ spent' \in {spent, spent + GATEWAY_CONNECT_TIMEOUT}
          /\ phase' = "sent"
          /\ UNCHANGED <<op, key, calls, told, doubted>>
       \/ spent' = spent /\ Return(unanswered(op, FALSE, FALSE))
       \/ spent' = spent + GATEWAY_CONNECT_TIMEOUT /\ Return(unanswered(op, FALSE, TRUE))
    /\ UNCHANGED <<direct, pending, effects>>

\* The answer arrives after the given time, unless the client's bound ends first.
delivered(e, at) ==
    IF at <= bound(op) THEN spent' = at /\ Return(e)
    ELSE spent' = bound(op) /\ Return(unanswered(op, TRUE, TRUE))

\* The ways an answer does not come back: the stream is cut, the client's bound
\* ends, or something in front of the gateway answers.
Undelivered ==
    \/ spent' = spent /\ Return(unanswered(op, TRUE, TRUE))
    \/ spent' = bound(op) /\ Return(unanswered(op, TRUE, TRUE))
    \/ /\ spent' = spent
       /\ \E status \in {200, 302, 404, 502} :
             Return(unanswered(op, TRUE, clears_on_its_own(status)))

Apply == effects' = IF mutates(op) THEN effects \cup {Mutation} ELSE effects

\* The gateway's work succeeds.
Succeed ==
    /\ phase = "sent"
    /\ Apply
    /\ delivered(NoError, spent) \/ Undelivered
    /\ UNCHANGED <<direct, pending>>

\* Errors the work of an operation can end in.
Errors(o) ==
    CASE o \in MarketDataReads -> MarketDataErrors
      [] o \in WalletReads -> WalletErrors
      [] o = "WalletWithdraw" -> WithdrawErrors
      [] o = "TokenizationMint" -> MintErrors
      [] o \in TokenizationReads -> TokenizationErrors
      [] o = "ConversionsSubmit" -> ConversionErrors
      [] o \in BrokerWrites \ {"ConversionsSubmit"} -> WriteErrors
      [] OTHER -> BrokerErrors

\* Whether Alpaca may have taken the mutation although its answer was an error:
\* all but an error before the request left and a definite refusal.
MayHaveApplied(e) ==
    \/ e.v = "Http" /\ e.cause = "cut"
    \/ e.v \in {"Parse"} \cup OffNetwork
    \/ e.v = "Api" /\ e.status \notin 400..499 \ {408}

\* Applied now, later or never.
Uncertain ==
    \/ Apply /\ UNCHANGED pending
    \/ UNCHANGED effects /\ pending' = pending \cup {Mutation}
    \/ UNCHANGED <<effects, pending>>

\* Works that read before they write: a placement its asset, a withdrawal the
\* whitelist.
ReadsFirst == Placements \cup {"WalletWithdraw"}

\* The gateway's work fails, before its write or with it. A placement reports
\* itself whether its POST may have been written, and may then have failed in
\* the read of the order.
Fail ==
    /\ phase = "sent"
    /\ \E e \in Errors(op), written \in BOOLEAN :
          /\ e.cause = "duplicate" => Mutation \in effects
          /\ ~written => op \in ReadsFirst /\ e.v \notin {"IncompleteOrder", "FilledQuantityMismatch"}
          /\ e.v = "AddressNotWhitelisted" => ~written
          /\ IF mutates(op) /\ written /\ (op \in Placements \/ MayHaveApplied(e))
             THEN Uncertain
             ELSE UNCHANGED <<effects, pending>>
          /\ \/ /\ direct' = e
                /\ delivered(answered(op, Body(op, answer_of(op, e, written))), spent)
             \/ direct' = NoError /\ Undelivered

\* The gateway refuses the call before its work.
Refuse ==
    /\ phase = "sent"
    /\ \E f \in Refusals : delivered(answered(op, Body(op, f)), spent) \/ Undelivered
    /\ UNCHANGED <<direct, pending, effects>>

\* The gateway answers at its deadline; its work goes on.
Deadline ==
    /\ phase = "sent"
    /\ IF mutates(op) THEN Uncertain ELSE UNCHANGED <<effects, pending>>
    /\ delivered(answered(op, Body(op, Overdue(op))), spent + deadline(op))
    /\ UNCHANGED direct

\* A mutation on its way is applied late.
Land ==
    /\ \E m \in pending :
          /\ effects' = effects \cup {m}
          /\ pending' = pending \ {m}
    /\ UNCHANGED <<op, key, calls, phase, spent, direct, told, doubted>>

Next == Call \/ Url \/ Token \/ Connect \/ Succeed \/ Fail \/ Refuse \/ Deadline \/ Land

Spec == Init /\ [][Next]_vars

-----------------------------------------------------------------------------
(* Properties *)

\* Seconds spent stay within the operation's deadline and the client's margin.
TypeOK ==
    /\ calls \in 0..MaxCalls /\ key \in 1..(MaxCalls + 1)
    /\ phase \in {"idle", "url", "token", "connect", "sent"}
    /\ spent \in 0..bound(op)
    /\ doubted \in BOOLEAN
    /\ ~mutates(op) => effects = {} /\ pending = {}

\* The adapter's promise for a mutation: an error that does not say its outcome
\* is unknown means that no mutation under its key was or will be applied,
\* whatever the gateway, the proxy or Alpaca answered, unless an earlier call
\* with that key already was in doubt.
DefiniteMeansNotApplied ==
    phase = "idle" /\ told # NoError /\ ~unknown(told) /\ ~doubted =>
        Mutation \notin effects \cup pending

\* A caller that resends only as the errors let it has its mutation applied at
\* most once, late arrivals included.
NeverAppliedTwice == \A m, n \in effects \cup pending : m = n

\* A call reported as done was applied.
DoneIsApplied ==
    phase = "idle" /\ calls > 0 /\ told = NoError /\ mutates(op) => Mutation \in effects

\* Over the gateway an error means what it means on the direct path: a later
\* call may succeed in the one exactly when it may in the other, a wait is
\* never shorter, and a throttle is never lost. A closed gate, which ends
\* with the call it belongs to, is the one that clears; only a throttled
\* credential without a wait is no longer read as a throttle.
HopKeepsTheMeaning ==
    phase = "idle" /\ direct # NoError /\ ~unknown(told) =>
        /\ direct.v # "NotSent" /\ direct.cause # "NotSent"
              => (transient(told) <=> transient(direct))
        /\ throttles(direct) /\ (direct.v = "Api" \/ direct.hint # NoHint)
              => throttles(told) /\ told.hint >= direct.hint
        /\ throttles(told) => throttles(direct)
        /\ direct.v \in definitive <=> told.v \in definitive

\* The three promises a caller of the hop relies on, within the client's bound.
HopIsSafe == TypeOK /\ DefiniteMeansNotApplied /\ NeverAppliedTwice /\ DoneIsApplied
=============================================================================
