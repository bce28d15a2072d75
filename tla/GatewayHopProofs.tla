-------------------------- MODULE GatewayHopProofs --------------------------
(***************************************************************************)
(* Proofs about the way of a call over the gateway and back, for any       *)
(* operations of the catalog and any number of calls: the tables of        *)
(* answer.rs and of the adapter keep what an error means, and a caller     *)
(* that resends as the errors let it has its mutation applied at most      *)
(* once. Then about IssuerRetry, for any callers, budgets, holds and       *)
(* delays: a call that fails with anything but outcome_unknown changed     *)
(* nothing at Alpaca and never will, and no call sleeps on Retry-After     *)
(* deadlines beyond its budget.                                            *)
(***************************************************************************)
EXTENDS GatewayHop, IssuerRetry, TLAPS


\* The seconds a call has spent when it reaches each phase.
SpentOk ==
    /\ phase \in {"url", "token"} => spent = 0
    /\ phase = "connect" => spent \in {0, METADATA_TIMEOUT}
    /\ phase = "sent" => spent <= METADATA_TIMEOUT + GATEWAY_CONNECT_TIMEOUT

Applied == effects \cup pending

\* Nothing but the caller's current mutation was or will be applied, and not
\* even that as long as no outcome was in doubt and no call was done.
OnceInv ==
    /\ Applied \subseteq {Mutation}
    /\ ~doubted /\ (phase # "idle" \/ told # NoError \/ calls = 0) => Applied = {}
    /\ doubted /\ ~resendable_with_same_key(op) => phase = "idle"
    /\ calls = 0 => ~doubted /\ phase = "idle"
    /\ DoneIsApplied

\* An unknown outcome is a mutation's, puts the call in doubt and allows a
\* resend exactly as the catalog does.
DoubtInv ==
    /\ unknown(told) => /\ doubted /\ mutates(op)
                        /\ told.cause.same_key = resendable_with_same_key(op)
    /\ phase # "idle" => told = NoError /\ direct = NoError

CountInv ==
    /\ op \in Operations
    /\ key \in Int /\ key <= calls + 1

HopInv == TypeOK /\ CountInv /\ SpentOk /\ DoubtInv /\ OnceInv

-----------------------------------------------------------------------------
(* The adapter's error for the body of a failure *)

Codes == {"rejected", "upstream_transient", "outcome_unknown", "unavailable", "backpressure",
          "invalid_request", "unauthenticated", "forbidden", "capability_disabled",
          "unknown_operation", "not_ready"}
Reasons == {NoReason, "alpaca_api", "insufficient_balance", "request_not_found",
            "address_not_whitelisted", "unsupported_network", "destination_not_allowed",
            "AccountNotActive", "AssetNotActive", "AssetNotTradable"} \cup definitive \cup OffNetwork

\* A failure before its outcome is marked.
Failures == [code : Codes, unknown : {FALSE}, retryable : BOOLEAN, same_key : {FALSE},
             hint : Int, reason : Reasons, status : Nat]

\* The wait of a body, back in half seconds.
Wait(hint) == IF hint = NoHint THEN NoHint ELSE 2 * whole_seconds(hint)

LEMMA WaitIsLonger ==
    ASSUME NEW h \in Int, h >= NoHint
    PROVE  /\ Wait(h) \in Int /\ Wait(h) >= h
           /\ Wait(h) = NoHint <=> h = NoHint
BY SMT DEF Wait, NoHint, whole_seconds

LEMMA BodyFields ==
    ASSUME NEW o, NEW f \in Failures
    PROVE  LET b == Body(o, f) IN
           /\ b.code = f.code /\ b.reason = f.reason /\ b.status = f.status
           /\ b.hint = IF f.hint = NoHint THEN NoHint ELSE whole_seconds(f.hint)
           /\ mutates(o) /\ f.code = "outcome_unknown" =>
                 b.unknown = TRUE /\ b.retryable = FALSE
                 /\ b.same_key = resendable_with_same_key(o)
           /\ ~(mutates(o) /\ f.code = "outcome_unknown") =>
                 b.unknown = FALSE /\ b.retryable = f.retryable /\ b.same_key = FALSE
BY DEF Failures, Body, for_mutation

\* An unknown outcome of a mutation stays one, to be resent as the catalog says.
LEMMA AnsweredUnknown ==
    ASSUME NEW o, NEW f \in Failures, mutates(o), f.code = "outcome_unknown"
    PROVE  answered(o, Body(o, f))
              = Hop(FALSE, TRUE, resendable_with_same_key(o), Wait(f.hint))
<1> DEFINE b == Body(o, f)
<1>1. /\ b.code = "outcome_unknown" /\ b.unknown = TRUE /\ b.retryable = FALSE
      /\ b.same_key = resendable_with_same_key(o) /\ Seconds(b.hint) = Wait(f.hint)
  <2>1. whole_seconds(f.hint) # NoHint
    BY DEF Failures, whole_seconds, NoHint
  <2> QED BY <2>1, BodyFields DEF Wait, Seconds
<1> HIDE DEF b
<1>2. relayed(b) = NoStatus
  BY <1>1 DEF relayed
<1>3. (b.code = "outcome_unknown" \/ b.unknown) = TRUE /\ (b.retryable
        /\ b.code # "rejected") = FALSE
  BY <1>1
<1> QED BY <1>1, <1>2, <1>3 DEF answered, b

\* A rejection with a variant of its own.
LEMMA AnsweredTyped ==
    ASSUME NEW o, NEW f \in Failures, NEW e, f.code = "rejected", typed(o, f.reason) = {e}
    PROVE  answered(o, Body(o, f)) = e
<1> DEFINE b == Body(o, f)
<1>1. b.code = "rejected" /\ b.reason = f.reason
  BY BodyFields
<1> HIDE DEF b
<1>2. (CHOOSE x \in {e} : TRUE) = e
  OBVIOUS
<1> QED BY <1>1, <1>2 DEF answered, b

\* The status the adapter relays of a failure.
RelayedOf(f) ==
    CASE f.code = "backpressure" -> IF f.status = NoStatus THEN 429 ELSE f.status
      [] f.code \in {"upstream_transient", "rejected"} -> f.status
      [] OTHER -> NoStatus

\* A relayed status.
LEMMA AnsweredApi ==
    ASSUME NEW o, NEW f \in Failures, f.code = "rejected" => typed(o, f.reason) = {},
           RelayedOf(f) # NoStatus
    PROVE  answered(o, Body(o, f)) = Error("Api", "none", RelayedOf(f), Wait(f.hint))
<1> DEFINE b == Body(o, f)
<1>1. /\ b.code = f.code /\ b.reason = f.reason /\ b.status = f.status
      /\ Seconds(b.hint) = Wait(f.hint)
  <2>1. whole_seconds(f.hint) # NoHint
    BY DEF Failures, whole_seconds, NoHint
  <2> QED BY <2>1, BodyFields DEF Wait, Seconds
<1> HIDE DEF b
<1>2. relayed(b) = RelayedOf(f)
  BY <1>1 DEF relayed, RelayedOf
<1> QED BY <1>1, <1>2 DEF answered, b

\* Anything else is an error of the hop.
LEMMA AnsweredHop ==
    ASSUME NEW o, NEW f \in Failures, f.code = "rejected" => typed(o, f.reason) = {},
           RelayedOf(f) = NoStatus, f.code # "outcome_unknown"
    PROVE  answered(o, Body(o, f))
              = Hop(f.retryable /\ f.code # "rejected", FALSE, FALSE, Wait(f.hint))
<1> DEFINE b == Body(o, f)
<1>1. /\ b.code = f.code /\ b.reason = f.reason /\ b.status = f.status
      /\ b.unknown = FALSE /\ b.retryable = f.retryable /\ b.same_key = FALSE
      /\ Seconds(b.hint) = Wait(f.hint)
  <2>1. whole_seconds(f.hint) # NoHint
    BY DEF Failures, whole_seconds, NoHint
  <2> QED BY <2>1, BodyFields DEF Wait, Seconds
<1> HIDE DEF b
<1>2. relayed(b) = NoStatus
  BY <1>1 DEF relayed, RelayedOf
<1>3. (b.code = "outcome_unknown" \/ b.unknown) = FALSE
  BY <1>1
<1> QED BY <1>1, <1>2, <1>3 DEF answered, b

-----------------------------------------------------------------------------
(* From a library error to the adapter's *)

\* What HopKeepsTheMeaning says of an error and the adapter's for it.
Keeps(e, t) ==
    /\ e.v # "NotSent" /\ e.cause # "NotSent" => (transient(t) <=> transient(e))
    /\ throttles(e) /\ (e.v = "Api" \/ e.hint # NoHint) => throttles(t) /\ t.hint >= e.hint
    /\ throttles(t) => throttles(e)
    /\ e.v \in definitive <=> t.v \in definitive

\* The fields of the errors any client has, and of the ones with a variant only.
SharedKind(e) ==
    \/ /\ e.v = "Http" /\ e.cause \in {"builder", "connect", "cut"}
       /\ e.status = NoStatus /\ e.hint = NoHint
    \/ /\ e.v = "Auth" /\ e.cause \in {"NotSent", "deterministic", "transport"}
       /\ e.status = NoStatus /\ e.hint = NoHint
    \/ e.v = "Auth" /\ e.cause = "throttled" /\ e.status = NoStatus /\ e.hint \in Waits
    \/ /\ e.v \in {"NotSent", "Endpoint", "Parse"}
       /\ e.cause = "none" /\ e.status = NoStatus /\ e.hint = NoHint
    \/ e.v = "Api" /\ e.cause = "none" /\ e.status \in Statuses /\ e.hint = NoHint
    \/ e.v = "Api" /\ e.cause = "none" /\ e.status = 429 /\ e.hint \in Waits

PlainKind(e, vs) ==
    e.v \in vs /\ e.cause = "none" /\ e.status = NoStatus /\ e.hint = NoHint

LEMMA SharedFields ==
    ASSUME NEW e \in Shared
    PROVE  SharedKind(e)
BY DEF Shared, SharedKind, Error

LEMMA PlainFields ==
    ASSUME NEW vs, NEW e \in {Plain(v) : v \in vs}
    PROVE  PlainKind(e, vs) /\ e = Plain(e.v)
BY DEF Plain, PlainKind, Error

LEMMA FailureFields ==
    ASSUME NEW code \in Codes, NEW retryable \in BOOLEAN
    PROVE  LET f == Failure(code, retryable) IN
           /\ f \in Failures
           /\ f.code = code /\ f.retryable = retryable /\ f.hint = NoHint
           /\ f.reason = NoReason /\ f.status = NoStatus
<1> DEFINE f == Failure(code, retryable)
<1>1. NoHint \in Int /\ NoStatus \in Nat
  BY DEF NoHint, NoStatus
<1>4. NoReason \in Reasons
  BY DEF Reasons
<1>2. /\ f.code = code /\ f.retryable = retryable /\ f.hint = NoHint
      /\ f.reason = NoReason /\ f.status = NoStatus
  BY DEF Failure
<1>3. f \in Failures
  BY <1>1, <1>4 DEF Failure, Failures
<1> QED BY <1>2, <1>3

LEMMA FailureStatus ==
    ASSUME NEW f \in Failures, NEW status \in Nat
    PROVE  LET g == [f EXCEPT !.status = status] IN
           /\ g \in Failures
           /\ g.code = f.code /\ g.retryable = f.retryable /\ g.hint = f.hint
           /\ g.reason = f.reason /\ g.status = status
BY DEF Failures

LEMMA FailureHint ==
    ASSUME NEW f \in Failures, NEW hint \in Int
    PROVE  LET g == [f EXCEPT !.hint = hint] IN
           /\ g \in Failures
           /\ g.code = f.code /\ g.retryable = f.retryable /\ g.hint = hint
           /\ g.reason = f.reason /\ g.status = f.status
BY DEF Failures

IsRejected(f, reason, status) ==
    /\ f \in Failures
    /\ f.code = "rejected" /\ f.retryable = FALSE /\ f.hint = NoHint
    /\ f.reason = reason /\ f.status = status

LEMMA RejectedFields ==
    ASSUME NEW reason \in Reasons, NEW status \in Nat
    PROVE  IsRejected(Rejected(reason, status), reason, status)
<1> DEFINE g == Failure("rejected", FALSE)
<1>1. g \in Failures /\ g.code = "rejected" /\ g.retryable = FALSE /\ g.hint = NoHint
  BY FailureFields DEF Codes
<1> HIDE DEF g
<1>2. Rejected(reason, status) = [g EXCEPT !.reason = reason, !.status = status]
  BY DEF Rejected, g
<1> QED BY <1>1, <1>2 DEF Failures, IsRejected

\* What makes an answer the right one: it says that a mutation's outcome is
\* unknown, or the adapter's error means what the library's means and the
\* mutation was not applied.
Definite(e, t) == t.v # "Ok" /\ ~unknown(t) /\ Keeps(e, t)

Right(o, sent, e, f) ==
    /\ f \in Failures
    /\ IF f.code = "outcome_unknown" THEN sent = "Mutation"
       ELSE /\ Definite(e, answered(o, Body(o, f)))
            /\ sent = "Mutation" => ~MayHaveApplied(e)

\* A status relayed as Alpaca gave it.
LEMMA DefiniteApi ==
    ASSUME NEW o, NEW f \in Failures, NEW e, f.code = "rejected" => typed(o, f.reason) = {},
           RelayedOf(f) = e.status, f.hint = e.hint, f.code # "outcome_unknown",
           e.hint \in Waits,
           \/ e.v = "Api" /\ e.cause = "none" /\ e.status \in Statuses \cup {429}
           \/ e.v = "Entitlement" /\ e.cause = "none" /\ e.status = 403
           \/ e.v = "TransferNotFound" /\ e.cause = "none" /\ e.status = 404
    PROVE  Definite(e, answered(o, Body(o, f)))
<1> DEFINE t == answered(o, Body(o, f))
<1>1. e.status # NoStatus /\ e.hint \in Int /\ e.hint >= NoHint
  BY DEF Statuses, NoStatus, Waits, NoHint
<1>2. t = Error("Api", "none", e.status, Wait(e.hint))
  BY <1>1, AnsweredApi
<1> HIDE DEF t
<1>3. t.v = "Api" /\ t.cause = "none" /\ t.status = e.status /\ t.hint = Wait(e.hint)
  BY <1>2 DEF Error
<1>4. t.v # "Ok" /\ ~unknown(t)
  BY <1>3 DEF unknown
<1>5. t.hint >= e.hint
  BY <1>1, <1>3, WaitIsLonger
<1>6. transient(t) <=> transient(e)
  BY <1>3 DEF transient, clears, hop_may_clear, quote_may_clear, response_status_permanence,
     Statuses
<1>7. throttles(t) <=> throttles(e)
  BY <1>3 DEF throttles
<1>8. e.v \notin definitive /\ t.v \notin definitive
  BY <1>3 DEF definitive
<1> QED BY <1>4, <1>5, <1>6, <1>7, <1>8 DEF Definite, Keeps, t

\* An error of the hop.
LEMMA DefiniteHop ==
    ASSUME NEW o, NEW f \in Failures, NEW e, f.code = "rejected" => typed(o, f.reason) = {},
           RelayedOf(f) = NoStatus, f.code # "outcome_unknown",
           e.v \notin {"Gateway", "Api"} \cup definitive, e.hint \in Waits,
           f.hint = IF throttles(e) THEN e.hint ELSE NoHint,
           e.v # "NotSent" /\ e.cause # "NotSent" =>
              ((f.retryable /\ f.code # "rejected") <=> transient(e))
    PROVE  Definite(e, answered(o, Body(o, f)))
<1> DEFINE t == answered(o, Body(o, f))
           again == f.retryable /\ f.code # "rejected"
<1>1. f.hint \in Int /\ f.hint >= NoHint /\ e.hint >= NoHint /\ e.hint \in Int
  BY DEF Waits, NoHint
<1>2. t = Hop(again, FALSE, FALSE, Wait(f.hint))
  BY AnsweredHop
<1> HIDE DEF t
<1>3. /\ t.v = "Gateway" /\ t.cause.retryable = again /\ t.cause.unknown = FALSE
      /\ t.cause.same_key = FALSE /\ t.hint = Wait(f.hint)
  BY <1>2 DEF Hop, Error
<1>4. t.v # "Ok" /\ ~unknown(t)
  BY <1>3 DEF unknown
<1>5. transient(t) <=> again
  BY <1>3 DEF transient, clears, hop_may_clear, quote_may_clear
<1>6. throttles(t) <=> f.hint # NoHint
  BY <1>1, <1>3, WaitIsLonger DEF throttles
<1>7. throttles(e) => t.hint >= e.hint
  BY <1>1, <1>3, WaitIsLonger
<1>8. t.v \notin definitive
  BY <1>3 DEF definitive
<1> HIDE DEF again
<1>9. e.v # "NotSent" /\ e.cause # "NotSent" => (again <=> transient(e))
  BY DEF again
<1>10. throttles(t) => throttles(e)
  BY <1>6
<1>11. throttles(e) /\ (e.v = "Api" \/ e.hint # NoHint) => throttles(t) /\ t.hint >= e.hint
  BY <1>6, <1>7
<1> QED BY <1>4, <1>5, <1>8, <1>9, <1>10, <1>11 DEF Definite, Keeps, t

\* Variants that no table treats apart.
Untyped == {"AccountActivitiesPageLimitExceeded", "IncompleteOrder", "FilledQuantityMismatch",
            "CalendarDateMismatch", "MissingPositionQuantity", "PositionSymbolMismatch",
            "MissingPrice", "NonPositivePrice", "Float", "MissingQuote",
            "LatestQuoteSymbolMismatch", "InvalidQuote", "FromHex",
            "DuplicateMintIssuerRequestId"}

EntitlementKind(e) ==
    e.v = "Entitlement" /\ e.cause = "none" /\ e.status = 403 /\ e.hint = NoHint

LEMMA NoTypeFor ==
    ASSUME NEW o, NEW r \in {"alpaca_api", "unsupported_network", "AccountNotActive",
                             "AssetNotActive", "AssetNotTradable"} \cup OffNetwork
    PROVE  typed(o, r) = {}
BY DEF typed, OffNetwork, definitive

LEMMA TransientIsBoolean ==
    ASSUME NEW e
    PROVE  transient(e) \in BOOLEAN
BY DEF transient

\* A failed read, or a mutation whose outcome is not known.
LEMMA UntypedRight ==
    ASSUME NEW o, NEW sent \in {"Read", "Mutation"}, NEW e, e.hint \in Waits, ~throttles(e),
           e.v \notin {"Gateway", "Api"} \cup definitive
    PROVE  Right(o, sent, e, untyped(sent, e))
<1>1. CASE sent = "Read"
  <2> DEFINE f == Failure("upstream_transient", transient(e))
  <2>1. untyped(sent, e) = f
    BY <1>1 DEF untyped
  <2>2. /\ f \in Failures /\ f.code = "upstream_transient" /\ f.retryable = transient(e)
        /\ f.hint = NoHint /\ f.status = NoStatus
    BY FailureFields, TransientIsBoolean DEF Codes
  <2> HIDE DEF f
  <2>3. RelayedOf(f) = NoStatus
    BY <2>2 DEF RelayedOf
  <2>4. Definite(e, answered(o, Body(o, f)))
    BY <2>2, <2>3, DefiniteHop
  <2> QED BY <1>1, <2>1, <2>2, <2>4 DEF Right
<1>2. CASE sent = "Mutation"
  <2>1. untyped(sent, e) = Failure("outcome_unknown", FALSE)
    BY <1>2 DEF untyped
  <2>2. /\ Failure("outcome_unknown", FALSE) \in Failures
        /\ Failure("outcome_unknown", FALSE).code = "outcome_unknown"
    BY FailureFields DEF Codes
  <2> QED BY <1>2, <2>1, <2>2 DEF Right
<1> QED BY <1>1, <1>2

\* An error status: a definite refusal, or as an untyped one with its status.
LEMMA ApiRight ==
    ASSUME NEW o, NEW sent \in {"Read", "Mutation"}, NEW e,
           e.cause = "none" /\ e.hint = NoHint,
           \/ e.v = "Api" /\ e.status \in Statuses
           \/ e.v = "Entitlement" /\ e.status = 403
    PROVE  Right(o, sent, e, api_failure(sent, e))
<1>0. e.status \in Nat /\ e.status # NoStatus /\ e.hint \in Waits
  BY DEF Statuses, NoStatus, Waits, NoHint
<1>1. CASE e.status \in 400..499 \ {408, 429}
  <2> DEFINE f == Rejected("alpaca_api", e.status)
  <2>1. api_failure(sent, e) = f
    BY <1>1 DEF api_failure
  <2>2. /\ f \in Failures /\ f.code = "rejected" /\ f.hint = NoHint
        /\ f.reason = "alpaca_api" /\ f.status = e.status
    <3>1. "alpaca_api" \in Reasons
      BY DEF Reasons
    <3>2. IsRejected(f, "alpaca_api", e.status)
      BY <1>0, <3>1, RejectedFields
    <3> QED BY <3>2 DEF IsRejected
  <2> HIDE DEF f
  <2>3. RelayedOf(f) = e.status /\ typed(o, f.reason) = {}
    BY <2>2, NoTypeFor DEF RelayedOf
  <2>4. Definite(e, answered(o, Body(o, f)))
    BY <1>0, <2>2, <2>3, DefiniteApi
  <2>5. ~MayHaveApplied(e)
    BY <1>1 DEF MayHaveApplied, OffNetwork
  <2> QED BY <2>1, <2>2, <2>4, <2>5 DEF Right
<1>2. CASE e.status \notin 400..499 \ {408, 429}
  <2> DEFINE g == untyped(sent, e)
             f == [g EXCEPT !.status = e.status]
  <2>1. api_failure(sent, e) = f
    BY <1>2 DEF api_failure
  <2>2. /\ g \in Failures /\ g.hint = NoHint
        /\ g.code = IF sent = "Read" THEN "upstream_transient" ELSE "outcome_unknown"
    <3>1. CASE sent = "Read"
      <4>1. g = Failure("upstream_transient", transient(e))
        BY <3>1 DEF untyped
      <4>2. "upstream_transient" \in Codes
        BY DEF Codes
      <4> QED BY <3>1, <4>1, <4>2, FailureFields, TransientIsBoolean
    <3>2. CASE sent = "Mutation"
      <4>1. g = Failure("outcome_unknown", FALSE)
        BY <3>2 DEF untyped
      <4>2. "outcome_unknown" \in Codes /\ FALSE \in BOOLEAN
        BY DEF Codes
      <4> HIDE DEF g
      <4>3. /\ Failure("outcome_unknown", FALSE) \in Failures
            /\ Failure("outcome_unknown", FALSE).hint = NoHint
            /\ Failure("outcome_unknown", FALSE).code = "outcome_unknown"
        BY <4>2, FailureFields, Zenon
      <4> QED BY <3>2, <4>1, <4>3
    <3> QED BY <3>1, <3>2
  <2> HIDE DEF g
  <2>3. /\ f \in Failures /\ f.hint = NoHint /\ f.status = e.status
        /\ f.code = IF sent = "Read" THEN "upstream_transient" ELSE "outcome_unknown"
    BY <1>0, <2>2, FailureStatus
  <2> HIDE DEF f
  <2>4. CASE sent = "Read"
    <3>1. RelayedOf(f) = e.status
      BY <2>3, <2>4 DEF RelayedOf
    <3>2. Definite(e, answered(o, Body(o, f)))
      BY <1>0, <2>3, <2>4, <3>1, DefiniteApi
    <3> QED BY <2>1, <2>3, <2>4, <3>2 DEF Right
  <2> QED BY <2>1, <2>3, <2>4 DEF Right
<1> QED BY <1>1, <1>2

\* A throttle, of Alpaca or of the credential.
LEMMA ThrottledRight ==
    ASSUME NEW o, NEW sent \in {"Read", "Mutation"}, NEW e, e.hint \in Waits,
           \/ e.v = "Auth" /\ e.cause = "throttled" /\ e.status = NoStatus
           \/ e.v = "Api" /\ e.cause = "none" /\ e.status = 429
    PROVE  Right(o, sent, e, throttled(e)) /\ throttles(e)
<1>0. e.hint \in Int /\ throttles(e) /\ ~MayHaveApplied(e)
  BY DEF Waits, NoHint, throttles, MayHaveApplied, OffNetwork
<1>1. CASE e.v = "Auth"
  <2> DEFINE g == Failure("unavailable", TRUE)
             f == [g EXCEPT !.hint = e.hint]
  <2>1. throttled(e) = f
    BY <1>1 DEF throttled
  <2>2. /\ g \in Failures /\ g.code = "unavailable" /\ g.retryable = TRUE /\ g.status = NoStatus
    BY FailureFields DEF Codes
  <2> HIDE DEF g
  <2>3. /\ f \in Failures /\ f.code = "unavailable" /\ f.retryable = TRUE
        /\ f.hint = e.hint /\ f.status = NoStatus
    BY <1>0, <2>2, FailureHint
  <2> HIDE DEF f
  <2>4. RelayedOf(f) = NoStatus /\ transient(e) /\ e.v \notin {"Gateway", "Api"} \cup definitive
    BY <1>1, <2>3 DEF RelayedOf, transient, clears, definitive
  <2>5. Definite(e, answered(o, Body(o, f)))
    BY <1>0, <2>3, <2>4, DefiniteHop
  <2> QED BY <1>0, <2>1, <2>3, <2>5 DEF Right
<1>2. CASE e.v = "Api"
  <2> DEFINE g == Failure("backpressure", TRUE)
             f == [g EXCEPT !.hint = e.hint, !.status = e.status]
  <2>1. throttled(e) = f
    BY <1>2 DEF throttled, NoStatus
  <2>2. g \in Failures /\ g.code = "backpressure"
    BY FailureFields DEF Codes
  <2> HIDE DEF g
  <2>3. f \in Failures /\ f.code = "backpressure" /\ f.hint = e.hint /\ f.status = 429
    <3> DEFINE h == [g EXCEPT !.hint = e.hint]
    <3>1. h \in Failures /\ h.code = "backpressure" /\ h.hint = e.hint
      BY <1>0, <2>2, FailureHint
    <3>2. f = [h EXCEPT !.status = 429]
      BY <1>2, <2>2 DEF Failures
    <3> HIDE DEF h, f
    <3> QED BY <3>1, <3>2, FailureStatus
  <2> HIDE DEF f
  <2>4. RelayedOf(f) = 429
    BY <2>3 DEF RelayedOf, NoStatus
  <2>5. Definite(e, answered(o, Body(o, f)))
    BY <1>2, <2>3, <2>4, DefiniteApi
  <2> QED BY <1>0, <2>1, <2>3, <2>5 DEF Right
<1> QED BY <1>1, <1>2

\* A plain failure that leaves Alpaca untouched.
LEMMA PlainRight ==
    ASSUME NEW o, NEW sent \in {"Read", "Mutation"}, NEW e,
           NEW code \in {"upstream_transient", "unavailable", "invalid_request"},
           NEW retryable \in BOOLEAN,
           e.v \notin {"Gateway", "Api"} \cup definitive, e.hint \in Waits, ~throttles(e),
           e.v # "NotSent" /\ e.cause # "NotSent" => (retryable <=> transient(e)),
           sent = "Mutation" => ~MayHaveApplied(e)
    PROVE  Right(o, sent, e, Failure(code, retryable))
<1> DEFINE f == Failure(code, retryable)
<1>1. code \in Codes
  BY DEF Codes
<1>2. /\ f \in Failures /\ f.code = code /\ f.retryable = retryable
      /\ f.hint = NoHint /\ f.status = NoStatus
  BY <1>1, FailureFields
<1> HIDE DEF f
<1>3. RelayedOf(f) = NoStatus
  BY <1>2 DEF RelayedOf
<1>4. f.code # "rejected" /\ f.code # "outcome_unknown"
  BY <1>2
<1>5. Definite(e, answered(o, Body(o, f)))
  BY <1>2, <1>3, <1>4, DefiniteHop
<1> QED BY <1>2, <1>4, <1>5 DEF Right, f

\* The table the four clients share.
LEMMA MappedRight ==
    ASSUME NEW o, NEW sent \in {"Read", "Mutation"}, NEW e,
           SharedKind(e) \/ EntitlementKind(e) \/ PlainKind(e, Untyped)
    PROVE  Right(o, sent, e, mapped(sent, e))
<1>0. NoHint \in Waits
  BY DEF Waits
<1>1. CASE \/ e.v = "Auth" /\ e.cause = "throttled" /\ e.status = NoStatus /\ e.hint \in Waits
           \/ e.v = "Api" /\ e.cause = "none" /\ e.status = 429 /\ e.hint \in Waits
  <2>1. Right(o, sent, e, throttled(e)) /\ throttles(e)
    BY <1>1, ThrottledRight
  <2> QED BY <2>1 DEF mapped
<1>2. CASE e.v = "Http" /\ e.cause \in {"builder", "connect"} /\ e.hint = NoHint
  <2>1. mapped(sent, e) = unsent(e)
    BY <1>2 DEF mapped, throttles, never_left
  <2>2. /\ ~throttles(e) /\ ~MayHaveApplied(e) /\ e.v \notin {"Gateway", "Api"} \cup definitive
        /\ transient(e) <=> e.cause # "builder"
    BY <1>2 DEF throttles, MayHaveApplied, OffNetwork, definitive, transient, clears,
                hop_may_clear, quote_may_clear
  <2>3. CASE e.cause = "builder"
    <3>1. unsent(e) = Failure("upstream_transient", FALSE) /\ ~transient(e)
      BY <2>2, <2>3 DEF unsent
    <3>2. Right(o, sent, e, Failure("upstream_transient", FALSE))
      BY <1>0, <1>2, <2>2, <3>1, PlainRight
    <3> QED BY <2>1, <3>1, <3>2
  <2>4. CASE e.cause = "connect"
    <3>1. unsent(e) = Failure("unavailable", TRUE) /\ transient(e)
      BY <2>2, <2>4 DEF unsent
    <3>2. Right(o, sent, e, Failure("unavailable", TRUE))
      BY <1>0, <1>2, <2>2, <3>1, PlainRight
    <3> QED BY <2>1, <3>1, <3>2
  <2> QED BY <1>2, <2>3, <2>4
<1>3. CASE (e.v = "NotSent" \/ (e.v = "Auth" /\ e.cause = "NotSent")) /\ e.hint = NoHint
  <2>1. mapped(sent, e) = Failure("upstream_transient", TRUE)
    BY <1>3 DEF mapped, throttles, never_left
  <2>2. ~throttles(e) /\ ~MayHaveApplied(e) /\ e.v \notin {"Gateway", "Api"} \cup definitive
    BY <1>3 DEF throttles, MayHaveApplied, OffNetwork, definitive
  <2>3. Right(o, sent, e, Failure("upstream_transient", TRUE))
    BY <1>0, <1>3, <2>2, PlainRight
  <2> QED BY <2>1, <2>3
<1>4. CASE \/ e.v = "Auth" /\ e.cause \in {"deterministic", "transport"} /\ e.hint = NoHint
           \/ e.v = "Endpoint" /\ e.hint = NoHint
  <2>1. mapped(sent, e) = Failure("unavailable", transient(e))
    BY <1>4 DEF mapped, throttles, never_left
  <2>2. ~throttles(e) /\ ~MayHaveApplied(e) /\ e.v \notin {"Gateway", "Api"} \cup definitive
    BY <1>4 DEF throttles, MayHaveApplied, OffNetwork, definitive
  <2>3. Right(o, sent, e, Failure("unavailable", transient(e)))
    BY <1>0, <1>4, <2>2, TransientIsBoolean, PlainRight
  <2> QED BY <2>1, <2>3
<1>5. CASE \/ e.v = "Api" /\ e.cause = "none" /\ e.status \in Statuses /\ e.hint = NoHint
           \/ EntitlementKind(e)
  <2>1. mapped(sent, e) = api_failure(sent, e)
    <3>1. e.v \in {"Api", "Entitlement"} /\ e.status # 429
      BY <1>5 DEF EntitlementKind, Statuses
    <3>2. ~throttles(e) /\ ~never_left(e)
      BY <3>1 DEF throttles, never_left
    <3> QED BY <3>1, <3>2 DEF mapped
  <2>2. Right(o, sent, e, api_failure(sent, e))
    BY <1>5, ApiRight DEF EntitlementKind
  <2> QED BY <2>1, <2>2
<1>6. CASE \/ e.v = "Http" /\ e.cause = "cut" /\ e.hint = NoHint
           \/ e.v = "Parse" /\ e.hint = NoHint
           \/ PlainKind(e, Untyped)
  <2>1. mapped(sent, e) = untyped(sent, e)
    <3>1. /\ e.v \notin {"Api", "Entitlement", "Auth", "Endpoint", "NotSent", "Gateway"}
          /\ ~never_left(e)
      BY <1>6 DEF PlainKind, Untyped, never_left
    <3>2. ~throttles(e)
      BY <3>1 DEF throttles
    <3> QED BY <3>1, <3>2 DEF mapped
  <2>2. /\ ~throttles(e) /\ e.v \notin {"Gateway", "Api"} \cup definitive /\ e.hint \in Waits
    BY <1>0, <1>6 DEF throttles, definitive, PlainKind, Untyped
  <2>3. Right(o, sent, e, untyped(sent, e))
    BY <2>2, UntypedRight
  <2> QED BY <2>1, <2>3
<1> QED BY <1>1, <1>2, <1>3, <1>4, <1>5, <1>6 DEF SharedKind

\* A rejection that reaches the caller as an error of the hop.
LEMMA RejectedRight ==
    ASSUME NEW o, NEW sent \in {"Read", "Mutation"}, NEW e, NEW reason \in Reasons,
           typed(o, reason) = {}, e.v \notin {"Gateway", "Api"} \cup definitive,
           e.hint \in Waits, ~throttles(e), ~transient(e), sent = "Mutation" => ~MayHaveApplied(e)
    PROVE  Right(o, sent, e, Rejected(reason, NoStatus))
<1> DEFINE f == Rejected(reason, NoStatus)
<1>1. /\ f \in Failures /\ f.code = "rejected" /\ f.retryable = FALSE
      /\ f.hint = NoHint /\ f.status = NoStatus /\ f.reason = reason
  <2>1. NoStatus \in Nat
    BY DEF NoStatus
  <2>2. IsRejected(f, reason, NoStatus)
    BY <2>1, RejectedFields
  <2> QED BY <2>2 DEF IsRejected
<1> HIDE DEF f
<1>2. RelayedOf(f) = NoStatus
  BY <1>1 DEF RelayedOf
<1>3. Definite(e, answered(o, Body(o, f)))
  BY <1>1, <1>2, DefiniteHop
<1> QED BY <1>1, <1>3 DEF Right, f

\* A rejection the adapter rebuilds as the error it was.
LEMMA TypedRight ==
    ASSUME NEW o, NEW sent \in {"Read", "Mutation"}, NEW e, NEW reason \in Reasons,
           NEW status \in Nat, typed(o, reason) = {e}, e.v \notin {"Gateway", "Ok"},
           ~throttles(e), sent = "Mutation" => ~MayHaveApplied(e)
    PROVE  Right(o, sent, e, Rejected(reason, status))
<1> DEFINE f == Rejected(reason, status)
<1>1. f \in Failures /\ f.code = "rejected" /\ f.reason = reason
  BY RejectedFields DEF IsRejected
<1> HIDE DEF f
<1>2. answered(o, Body(o, f)) = e
  BY <1>1, AnsweredTyped
<1>3. Definite(e, e)
  BY DEF Definite, Keeps, unknown
<1> QED BY <1>1, <1>2, <1>3 DEF Right, f

BrokerOps == BrokerReads \cup Placements \cup BrokerWrites
Stopped == {"AccountNotActive", "AssetNotActive", "AssetNotTradable"}

ConversionKind(e) ==
    \/ e = Error("UsdConversionInsufficientBalance", "none", 403, NoHint)
    \/ e = Error("Api", "duplicate", 422, NoHint)

\* The broker's table.
LEMMA BrokerRight ==
    ASSUME NEW o \in BrokerOps, NEW sent \in {"Read", "Mutation"}, NEW e,
           \/ SharedKind(e)
           \/ PlainKind(e, Unpriced \cup BrokerDecided \cup {"PositionSymbolMismatch"})
           \/ sent = "Mutation" /\ ConversionKind(e)
    PROVE  Right(o, sent, e, broker(sent, e))
<1>0. NoHint \in Waits
  BY DEF Waits
<1>1. CASE sent = "Mutation" /\ e = Error("UsdConversionInsufficientBalance", "none", 403, NoHint)
  <2>1. e.v = "UsdConversionInsufficientBalance" /\ e.cause = "none"
    BY <1>1 DEF Error
  <2>2. broker(sent, e) = Rejected("insufficient_balance", 403)
    BY <2>1 DEF broker, Unpriced
  <2>3. typed(o, "insufficient_balance") = {e}
    BY <1>1 DEF typed, BrokerOps, definitive
  <2>4. ~throttles(e) /\ ~MayHaveApplied(e)
    BY <2>1 DEF throttles, MayHaveApplied, OffNetwork
  <2>5. "insufficient_balance" \in Reasons
    BY DEF Reasons
  <2>6. Right(o, sent, e, Rejected("insufficient_balance", 403))
    BY <2>1, <2>3, <2>4, <2>5, TypedRight
  <2> QED BY <2>2, <2>6
<1>2. CASE sent = "Mutation" /\ e = Error("Api", "duplicate", 422, NoHint)
  <2>1. e.v = "Api" /\ e.cause = "duplicate" /\ e.status = 422
    BY <1>2 DEF Error
  <2> DEFINE f == [Failure("outcome_unknown", FALSE) EXCEPT !.status = e.status]
  <2>2. broker(sent, e) = f
    BY <1>2, <2>1 DEF broker, Unpriced, untyped
  <2>3. /\ Failure("outcome_unknown", FALSE) \in Failures
        /\ Failure("outcome_unknown", FALSE).code = "outcome_unknown"
    BY FailureFields DEF Codes
  <2>4. f \in Failures /\ f.code = "outcome_unknown"
    <3> DEFINE g == Failure("outcome_unknown", FALSE)
    <3> HIDE DEF g
    <3>1. f = [g EXCEPT !.status = 422] /\ g \in Failures /\ g.code = "outcome_unknown"
      BY <2>1, <2>3 DEF g
    <3> HIDE DEF f
    <3> QED BY <3>1, FailureStatus
  <2> HIDE DEF f
  <2> QED BY <1>2, <2>2, <2>4 DEF Right
<1>3. CASE PlainKind(e, Stopped)
  <2>1. e.v \in Stopped /\ e.hint = NoHint /\ e.cause = "none"
    BY <1>3 DEF PlainKind
  <2>2. broker(sent, e) = Rejected(e.v, NoStatus)
    BY <2>1 DEF broker, Unpriced, Stopped
  <2>3. /\ ~throttles(e) /\ ~MayHaveApplied(e) /\ e.v \notin {"Gateway", "Api"} \cup definitive
        /\ ~transient(e)
    BY <2>1 DEF throttles, MayHaveApplied, OffNetwork, definitive, transient, clears,
                hop_may_clear, quote_may_clear, Stopped
  <2>4. e.v \in Reasons /\ typed(o, e.v) = {}
    BY <2>1, NoTypeFor DEF Reasons, Stopped
  <2>5. Right(o, sent, e, Rejected(e.v, NoStatus))
    BY <1>0, <2>1, <2>3, <2>4, RejectedRight
  <2> QED BY <2>2, <2>5
<1>4. CASE PlainKind(e, Unpriced \cup {"AccountActivitiesPageLimitExceeded"})
  <2>1. /\ e.v \in Unpriced \cup {"AccountActivitiesPageLimitExceeded"}
        /\ e.hint = NoHint /\ e.cause = "none"
    BY <1>4 DEF PlainKind
  <2>2. broker(sent, e) = Failure("invalid_request", FALSE)
    BY <2>1 DEF broker, Unpriced
  <2>3. /\ ~throttles(e) /\ ~MayHaveApplied(e) /\ e.v \notin {"Gateway", "Api"} \cup definitive
        /\ ~transient(e)
    BY <2>1 DEF throttles, MayHaveApplied, OffNetwork, definitive, transient, clears,
                hop_may_clear, quote_may_clear, Unpriced
  <2>4. Right(o, sent, e, Failure("invalid_request", FALSE))
    BY <1>0, <2>1, <2>3, PlainRight
  <2> QED BY <2>2, <2>4
<1>5. CASE SharedKind(e) \/ PlainKind(e, Untyped \ {"AccountActivitiesPageLimitExceeded"})
  <2>1. /\ e.v \notin Unpriced \cup Stopped
                     \cup {"AccountActivitiesPageLimitExceeded", "UsdConversionInsufficientBalance"}
        /\ e.cause # "duplicate"
    BY <1>5 DEF SharedKind, PlainKind, Untyped, Unpriced, Stopped
  <2>2. broker(sent, e) = mapped(sent, e)
    BY <2>1 DEF broker, Stopped
  <2>3. SharedKind(e) \/ PlainKind(e, Untyped)
    BY <1>5 DEF PlainKind
  <2> QED BY <2>2, <2>3, MappedRight
<1>6. \/ PlainKind(e, Unpriced \cup BrokerDecided \cup {"PositionSymbolMismatch"}) =>
           \/ PlainKind(e, Stopped)
           \/ PlainKind(e, Unpriced \cup {"AccountActivitiesPageLimitExceeded"})
           \/ PlainKind(e, Untyped \ {"AccountActivitiesPageLimitExceeded"})
  BY DEF PlainKind, Stopped, BrokerDecided, Untyped
<1> QED BY <1>1, <1>2, <1>3, <1>4, <1>5, <1>6 DEF ConversionKind

\* The wallet's table.
LEMMA WalletRight ==
    ASSUME NEW o \in WalletReads \cup {"WalletWithdraw"}, NEW sent \in {"Read", "Mutation"}, NEW e,
           \/ SharedKind(e) \/ PlainKind(e, {"FromHex"})
           \/ o \in WalletReads /\ sent = "Read"
                   /\ e = Error("TransferNotFound", "none", 404, NoHint)
           \/ o = "WalletWithdraw" /\ e = Plain("AddressNotWhitelisted")
    PROVE  Right(o, sent, e, wallet(sent, e))
<1>0. NoHint \in Waits
  BY DEF Waits
<1>1. CASE SharedKind(e) \/ PlainKind(e, {"FromHex"})
  <2>1. e.v \notin {"AddressNotWhitelisted", "TransferNotFound"}
    BY <1>1 DEF SharedKind, PlainKind
  <2>2. wallet(sent, e) = mapped(sent, e)
    BY <2>1 DEF wallet
  <2>3. SharedKind(e) \/ PlainKind(e, Untyped)
    BY <1>1 DEF PlainKind, Untyped
  <2> QED BY <2>2, <2>3, MappedRight
<1>2. CASE /\ o \in WalletReads /\ sent = "Read"
           /\ e = Error("TransferNotFound", "none", 404, NoHint)
  <2>1. e.v = "TransferNotFound" /\ e.cause = "none" /\ e.status = 404 /\ e.hint = NoHint
    BY <1>2 DEF Error
  <2> DEFINE f == Rejected("request_not_found", 404)
  <2>2. wallet(sent, e) = f
    BY <2>1 DEF wallet
  <2>4. /\ f \in Failures /\ f.code = "rejected" /\ f.hint = NoHint
        /\ f.reason = "request_not_found" /\ f.status = 404
    <3>1. "request_not_found" \in Reasons
      BY DEF Reasons
    <3>2. IsRejected(f, "request_not_found", 404)
      BY <3>1, RejectedFields
    <3> QED BY <3>2 DEF IsRejected
  <2> HIDE DEF f
  <2>5. RelayedOf(f) = e.status
    BY <2>1, <2>4 DEF RelayedOf
  <2>6. typed(o, f.reason) = {}
    BY <1>2, <2>4 DEF typed, WalletReads, definitive
  <2>7. Definite(e, answered(o, Body(o, f)))
    BY <1>0, <2>1, <2>4, <2>5, <2>6, DefiniteApi
  <2> QED BY <1>2, <2>2, <2>4, <2>7 DEF Right
<1>3. CASE o = "WalletWithdraw" /\ e = Plain("AddressNotWhitelisted")
  <2>1. e.v = "AddressNotWhitelisted"
    BY <1>3 DEF Plain, Error
  <2>2. wallet(sent, e) = Rejected("address_not_whitelisted", NoStatus)
    BY <2>1 DEF wallet
  <2>3. typed(o, "address_not_whitelisted") = {e}
    BY <1>3 DEF typed, definitive
  <2>4. ~throttles(e) /\ ~MayHaveApplied(e)
    BY <2>1 DEF throttles, MayHaveApplied, OffNetwork
  <2>5. "address_not_whitelisted" \in Reasons /\ NoStatus \in Nat
    BY DEF Reasons, NoStatus
  <2>6. Right(o, sent, e, Rejected("address_not_whitelisted", NoStatus))
    BY <2>1, <2>3, <2>4, <2>5, TypedRight
  <2> QED BY <2>2, <2>6
<1> QED BY <1>1, <1>2, <1>3

\* The tokenization client's table.
LEMMA TokenizationRight ==
    ASSUME NEW o \in TokenizationReads \cup {"TokenizationMint"}, NEW sent, NEW e,
           sent = IF o = "TokenizationMint" THEN "Mutation" ELSE "Read",
           \/ e \in Shared
           \/ e \in {Plain(v) : v \in OffNetwork}
           \/ sent = "Read"
                   /\ e \in {Plain(v) : v \in {"RequestNotFound", "DuplicateMintIssuerRequestId"}}
           \/ sent = "Mutation" /\ e \in {Plain(v) : v \in definitive}
    PROVE  Right(o, sent, e, tokenization(sent, e))
<1>0. NoHint \in Waits /\ NoStatus \in Nat /\ sent \in {"Read", "Mutation"}
  BY DEF Waits, NoStatus
<1>1. CASE sent = "Mutation" /\ e \in {Plain(v) : v \in definitive}
  <2>1. e.v \in definitive /\ e = Plain(e.v)
    BY <1>1, PlainFields DEF PlainKind
  <2>2. tokenization(sent, e) = Rejected(e.v, NoStatus)
    BY <2>1 DEF tokenization, definitive, OffNetwork
  <2>3. typed(o, e.v) = {e}
    <3>1. typed(o, e.v) = {Plain(e.v)}
      BY <1>1, <2>1 DEF typed, definitive
    <3> QED BY <2>1, <3>1
  <2>4. ~throttles(e) /\ ~MayHaveApplied(e) /\ e.v \notin {"Gateway", "Ok"}
    BY <2>1 DEF throttles, MayHaveApplied, OffNetwork, definitive
  <2>5. e.v \in Reasons
    BY <2>1 DEF Reasons
  <2>6. Right(o, sent, e, Rejected(e.v, NoStatus))
    BY <1>0, <2>3, <2>4, <2>5, TypedRight
  <2> QED BY <2>2, <2>6
<1>2. CASE sent = "Read" /\ e \in {Plain(v) : v \in {"RequestNotFound"}}
  <2>1. e.v = "RequestNotFound" /\ e = Plain("RequestNotFound") /\ e.hint = NoHint
          /\ e.cause = "none"
    BY <1>2 DEF Plain, Error
  <2>2. tokenization(sent, e) = Rejected("request_not_found", NoStatus)
    BY <2>1 DEF tokenization, definitive, OffNetwork
  <2>3. /\ ~throttles(e) /\ e.v \notin {"Gateway", "Ok", "Api"} \cup definitive /\ ~transient(e)
        /\ ~MayHaveApplied(e)
    BY <2>1 DEF throttles, definitive, transient, clears, hop_may_clear, quote_may_clear,
                MayHaveApplied, OffNetwork
  <2>4. "request_not_found" \in Reasons
    BY DEF Reasons
  <2>5. CASE o = "TokenizationRequest"
    <3>1. typed(o, "request_not_found") = {e}
      BY <2>1, <2>5 DEF typed, definitive
    <3>2. Right(o, sent, e, Rejected("request_not_found", NoStatus))
      BY <1>0, <2>3, <2>4, <3>1, TypedRight
    <3> QED BY <2>2, <3>2
  <2>6. CASE o # "TokenizationRequest"
    <3>1. typed(o, "request_not_found") = {}
      BY <2>6 DEF typed, definitive
    <3>2. Right(o, sent, e, Rejected("request_not_found", NoStatus))
      BY <1>0, <2>1, <2>3, <2>4, <3>1, RejectedRight
    <3> QED BY <2>2, <3>2
  <2> QED BY <2>5, <2>6
<1>3. CASE e \in {Plain(v) : v \in OffNetwork}
  <2>1. e.v \in OffNetwork /\ e.hint = NoHint /\ e.cause = "none"
    BY <1>3, PlainFields DEF PlainKind
  <2>2. /\ ~throttles(e) /\ e.v \notin {"Gateway", "Api"} \cup definitive /\ ~transient(e)
        /\ e.v \in Reasons /\ typed(o, e.v) = {}
    <3>1. /\ ~throttles(e) /\ e.v \notin {"Gateway", "Api"} \cup definitive /\ ~transient(e)
      BY <2>1 DEF throttles, definitive, transient, clears, hop_may_clear, quote_may_clear,
         OffNetwork
    <3>2. e.v \in Reasons /\ typed(o, e.v) = {}
      BY <2>1, NoTypeFor DEF Reasons
    <3> QED BY <3>1, <3>2
  <2>3. CASE sent = "Read"
    <3>1. tokenization(sent, e) = Rejected(e.v, NoStatus)
      BY <2>1, <2>2, <2>3 DEF tokenization, OffNetwork
    <3>2. Right(o, sent, e, Rejected(e.v, NoStatus))
      BY <1>0, <2>1, <2>2, <2>3, RejectedRight
    <3> QED BY <3>1, <3>2
  <2>4. CASE sent = "Mutation"
    <3>1. tokenization(sent, e) = untyped(sent, e)
      BY <2>1, <2>2, <2>4 DEF tokenization, OffNetwork
    <3>2. Right(o, sent, e, untyped(sent, e))
      BY <1>0, <2>1, <2>2, UntypedRight
    <3> QED BY <3>1, <3>2
  <2> QED BY <1>0, <2>3, <2>4
<1>4. CASE e \in Shared /\ e.v = "Api" /\ e.status # 429 /\ sent = "Mutation"
  <2>1. e.status \in Nat
    BY <1>4, SharedFields DEF SharedKind, Statuses
  <2> DEFINE g == Failure("outcome_unknown", FALSE)
             f == [g EXCEPT !.status = e.status]
  <2>2. tokenization(sent, e) = f
    BY <1>4 DEF tokenization, definitive, OffNetwork, untyped
  <2>3. g \in Failures /\ g.code = "outcome_unknown"
    BY FailureFields DEF Codes
  <2> HIDE DEF g
  <2>4. f \in Failures /\ f.code = "outcome_unknown"
    BY <2>1, <2>3, FailureStatus
  <2> HIDE DEF f
  <2> QED BY <1>4, <2>2, <2>4 DEF Right
<1>5. CASE \/ e \in Shared /\ ~(e.v = "Api" /\ e.status # 429 /\ sent = "Mutation")
           \/ e \in {Plain(v) : v \in {"DuplicateMintIssuerRequestId"}}
  <2>1. SharedKind(e) \/ PlainKind(e, {"DuplicateMintIssuerRequestId"})
    BY <1>5, SharedFields, PlainFields
  <2>2. /\ e.v \notin definitive \cup OffNetwork \cup {"RequestNotFound"}
        /\ ~(e.v = "Api" /\ e.status # 429 /\ sent = "Mutation")
    <3>1. e \in {Plain(v) : v \in {"DuplicateMintIssuerRequestId"}} => e.v # "Api"
      BY DEF Plain, Error
    <3> QED BY <1>5, <2>1, <3>1 DEF SharedKind, PlainKind, definitive, OffNetwork
  <2>3. tokenization(sent, e) = mapped(sent, e)
    BY <2>2 DEF tokenization
  <2>4. SharedKind(e) \/ PlainKind(e, Untyped)
    BY <2>1 DEF PlainKind, Untyped
  <2> QED BY <1>0, <2>3, <2>4, MappedRight
<1> QED BY <1>1, <1>2, <1>3, <1>4, <1>5

\* A placement whose POST may have been written is in doubt whatever failed.
LEMMA PlacementRight ==
    ASSUME NEW o, NEW e, e.status \in Nat, e.hint \in Int
    PROVE  Right(o, "Mutation", e, placement(TRUE, e))
<1> DEFINE g == Failure("outcome_unknown", FALSE)
           hint == IF throttles(e) THEN e.hint ELSE NoHint
           f == [g EXCEPT !.status = e.status, !.hint = hint]
<1>1. placement(TRUE, e) = f
  BY DEF placement
<1>2. g \in Failures /\ g.code = "outcome_unknown"
  BY FailureFields DEF Codes
<1>3. hint \in Int
  BY DEF NoHint
<1> HIDE DEF g, hint
<1>4. f \in Failures /\ f.code = "outcome_unknown"
  BY <1>2, <1>3 DEF Failures
<1> HIDE DEF f
<1> QED BY <1>1, <1>4 DEF Right

LEMMA SharedNumbers ==
    ASSUME NEW e, \/ SharedKind(e)
                  \/ PlainKind(e, Unpriced \cup BrokerDecided \cup {"PositionSymbolMismatch"})
    PROVE  e.status \in Nat /\ e.hint \in Int
BY DEF SharedKind, PlainKind, Statuses, Waits, NoStatus, NoHint

\* Every error of every operation is answered right. What is sent as a read
\* is no mutation, or one that failed before its write.
LEMMA AnswerRight ==
    ASSUME NEW o \in Catalog, NEW e \in Errors(o), NEW wrote \in BOOLEAN,
           ~wrote => o \in ReadsFirst
    PROVE  \E sent \in {"Read", "Mutation"} :
              /\ Right(o, sent, e, answer_of(o, e, wrote))
              /\ sent = "Mutation" => mutates(o)
              /\ sent = "Read" /\ mutates(o) => ~wrote
              /\ o \in Placements /\ wrote => answer_of(o, e, wrote).code = "outcome_unknown"
<1> USE DEF Catalog, MarketDataReads, BrokerReads, Placements, BrokerWrites, WalletReads,
            TokenizationReads
<1>1. CASE o \in Placements
  <2>1. answer_of(o, e, wrote) = placement(wrote, e) /\ mutates(o)
    BY <1>1 DEF answer_of, mutates
  <2>2. Errors(o) = BrokerErrors
    BY <1>1 DEF Errors
  <2>3. SharedKind(e) \/ PlainKind(e, Unpriced \cup BrokerDecided \cup {"PositionSymbolMismatch"})
    BY <2>2, SharedFields, PlainFields DEF BrokerErrors
  <2>4. CASE wrote
    <3>1. Right(o, "Mutation", e, placement(wrote, e))
      BY <2>3, <2>4, SharedNumbers, PlacementRight
    <3>2. placement(wrote, e).code = "outcome_unknown"
      BY <2>4 DEF placement, Failure
    <3> QED BY <2>1, <2>4, <3>1, <3>2
  <2>5. CASE ~wrote
    <3>1. placement(wrote, e) = broker("Read", e)
      BY <2>5 DEF placement
    <3>2. Right(o, "Read", e, broker("Read", e))
      BY <1>1, <2>3, BrokerRight DEF BrokerOps
    <3> QED BY <2>1, <2>5, <3>1, <3>2
  <2> QED BY <2>4, <2>5
<1>2. CASE o \in TokenizationReads \cup {"TokenizationMint"}
  <2> DEFINE sent == IF o = "TokenizationMint" THEN "Mutation" ELSE "Read"
  <2>1. Sent(o) = sent /\ (sent = "Mutation" <=> mutates(o)) /\ sent \in {"Read", "Mutation"}
        /\ o \notin ReadsFirst /\ o \notin Placements
    BY <1>2 DEF Sent, mutates, ReadsFirst
  <2>2. answer_of(o, e, wrote) = tokenization(sent, e)
    BY <1>2, <2>1 DEF answer_of
  <2>3. CASE o = "TokenizationMint"
    <3>1. Errors(o) = MintErrors
      BY <2>3 DEF Errors
    <3>2. \/ e \in Shared \/ e \in {Plain(v) : v \in OffNetwork}
          \/ e \in {Plain(v) : v \in definitive}
      BY <3>1 DEF MintErrors
    <3>3. Right(o, sent, e, tokenization(sent, e))
      BY <2>3, <3>2, TokenizationRight
    <3> QED BY <2>1, <2>2, <3>3
  <2>4. CASE o \in TokenizationReads
    <3>1. Errors(o) = TokenizationErrors
      BY <2>4 DEF Errors
    <3>2. \/ e \in Shared \/ e \in {Plain(v) : v \in OffNetwork}
          \/ e \in {Plain(v) : v \in {"RequestNotFound", "DuplicateMintIssuerRequestId"}}
      BY <3>1 DEF TokenizationErrors
    <3>3. Right(o, sent, e, tokenization(sent, e))
      BY <2>4, <3>2, TokenizationRight
    <3> QED BY <2>1, <2>2, <3>3
  <2> QED BY <1>2, <2>3, <2>4
<1>3. CASE o = "WalletWithdraw"
  <2> DEFINE sent == IF wrote THEN "Mutation" ELSE "Read"
  <2>1. answer_of(o, e, wrote) = wallet(sent, e) /\ mutates(o) /\ o \notin Placements
    BY <1>3 DEF answer_of, mutates
  <2>2. e \in Shared \/ e \in {Plain(v) : v \in {"AddressNotWhitelisted"}}
    BY <1>3 DEF Errors, WithdrawErrors
  <2>3. SharedKind(e) \/ e = Plain("AddressNotWhitelisted")
    BY <2>2, SharedFields
  <2>4. sent \in {"Read", "Mutation"}
    OBVIOUS
  <2>5. Right(o, sent, e, wallet(sent, e))
    BY <1>3, <2>3, <2>4, WalletRight
  <2> QED BY <2>1, <2>4, <2>5
<1>4. CASE o \in WalletReads
  <2>1. answer_of(o, e, wrote) = wallet("Read", e) /\ ~mutates(o) /\ o \notin Placements
    BY <1>4 DEF answer_of, mutates
  <2>2. \/ e \in Shared \/ e \in {Plain(v) : v \in {"FromHex"}}
        \/ e = Error("TransferNotFound", "none", 404, NoHint)
    BY <1>4 DEF Errors, WalletErrors
  <2>3. Right(o, "Read", e, wallet("Read", e))
    BY <1>4, <2>2, SharedFields, PlainFields, WalletRight
  <2> QED BY <2>1, <2>3
<1>5. CASE o \in MarketDataReads
  <2>1. answer_of(o, e, wrote) = mapped("Read", e) /\ ~mutates(o) /\ o \notin Placements
    BY <1>5 DEF answer_of, mutates
  <2>2. \/ e \in Shared
        \/ e \in {Plain(v) : v \in {"MissingPrice", "NonPositivePrice", "Float", "MissingQuote",
                                    "LatestQuoteSymbolMismatch", "InvalidQuote"}}
        \/ e = Error("Entitlement", "none", 403, NoHint)
    BY <1>5 DEF Errors, MarketDataErrors
  <2>3. e = Error("Entitlement", "none", 403, NoHint) => EntitlementKind(e)
    BY DEF EntitlementKind, Error
  <2>4. e \in {Plain(v) : v \in {"MissingPrice", "NonPositivePrice", "Float", "MissingQuote",
                                 "LatestQuoteSymbolMismatch", "InvalidQuote"}}
           => PlainKind(e, Untyped)
    BY PlainFields DEF PlainKind, Untyped
  <2>5. Right(o, "Read", e, mapped("Read", e))
    BY <2>2, <2>3, <2>4, SharedFields, MappedRight
  <2> QED BY <2>1, <2>5
<1>6. CASE o \in BrokerReads
  <2>1. answer_of(o, e, wrote) = broker("Read", e) /\ ~mutates(o) /\ o \notin Placements
    BY <1>6 DEF answer_of, mutates, Sent
  <2>2. e \in BrokerErrors
    BY <1>6 DEF Errors
  <2>3. SharedKind(e) \/ PlainKind(e, Unpriced \cup BrokerDecided \cup {"PositionSymbolMismatch"})
    BY <2>2, SharedFields, PlainFields DEF BrokerErrors
  <2>4. Right(o, "Read", e, broker("Read", e))
    BY <1>6, <2>3, BrokerRight DEF BrokerOps
  <2> QED BY <2>1, <2>4
<1>7. CASE o \in BrokerWrites
  <2>1. answer_of(o, e, wrote) = broker("Mutation", e) /\ mutates(o) /\ o \notin Placements
    BY <1>7 DEF answer_of, mutates, Sent
  <2>2. e \in ConversionErrors
    BY <1>7 DEF Errors, ConversionErrors
  <2>3. e \in Shared \/ e \in {Plain(v) : v \in Unpriced} \/ ConversionKind(e)
    BY <2>2 DEF ConversionErrors, WriteErrors, ConversionKind
  <2>4. e \in {Plain(v) : v \in Unpriced} =>
           PlainKind(e, Unpriced \cup BrokerDecided \cup {"PositionSymbolMismatch"})
    BY PlainFields DEF PlainKind
  <2>5. Right(o, "Mutation", e, broker("Mutation", e))
    BY <1>7, <2>3, <2>4, SharedFields, BrokerRight DEF BrokerOps
  <2> QED BY <2>1, <2>5
<1> QED BY <1>1, <1>2, <1>3, <1>4, <1>5, <1>6, <1>7

\* What the caller is told of a failed call: an unknown outcome of a mutation,
\* to be resent as the catalog says, or an error that means what it meant and
\* says that nothing was applied.
Told(o, e, wrote) == answered(o, Body(o, answer_of(o, e, wrote)))

UnknownOf(o, t) ==
    /\ mutates(o) /\ t.v # "Ok"
    /\ unknown(t) /\ t.cause.same_key = resendable_with_same_key(o)

LEMMA ToldRight ==
    ASSUME NEW o \in Catalog, NEW e \in Errors(o), NEW wrote \in BOOLEAN,
           ~wrote => o \in ReadsFirst
    PROVE  LET t == Told(o, e, wrote) IN
           \/ UnknownOf(o, t)
           \/ /\ Definite(e, t)
              /\ mutates(o) /\ wrote => o \notin Placements /\ ~MayHaveApplied(e)
<1> DEFINE f == answer_of(o, e, wrote)
           t == Told(o, e, wrote)
<1>1. PICK sent \in {"Read", "Mutation"} :
         /\ Right(o, sent, e, f)
         /\ sent = "Mutation" => mutates(o)
         /\ sent = "Read" /\ mutates(o) => ~wrote
         /\ o \in Placements /\ wrote => f.code = "outcome_unknown"
  BY AnswerRight
<1>2. t = answered(o, Body(o, f))
  BY DEF Told
<1> HIDE DEF f, t
<1>3. CASE f.code = "outcome_unknown"
  <2>1. f \in Failures /\ mutates(o)
    BY <1>1, <1>3 DEF Right
  <2>2. t = Hop(FALSE, TRUE, resendable_with_same_key(o), Wait(f.hint))
    BY <1>2, <1>3, <2>1, AnsweredUnknown
  <2>3. t.v = "Gateway" /\ t.cause.unknown = TRUE /\ t.cause.same_key = resendable_with_same_key(o)
    BY <2>2 DEF Hop, Error
  <2>4. UnknownOf(o, t)
    BY <2>1, <2>3 DEF UnknownOf, unknown
  <2> QED BY <2>4 DEF t
<1>4. CASE f.code # "outcome_unknown"
  <2>1. Definite(e, t) /\ (sent = "Mutation" => ~MayHaveApplied(e))
    BY <1>1, <1>2, <1>4 DEF Right
  <2>2. mutates(o) /\ wrote => o \notin Placements /\ ~MayHaveApplied(e)
    BY <1>1, <1>4, <2>1
  <2> QED BY <2>1, <2>2 DEF t
<1> QED BY <1>3, <1>4

\* A refusal before the work is definite.
LEMMA RefusalRight ==
    ASSUME NEW o \in Catalog, NEW f \in Refusals
    PROVE  LET t == answered(o, Body(o, f)) IN t.v # "Ok" /\ ~unknown(t)
<1> DEFINE t == answered(o, Body(o, f))
<1>1. /\ f \in Failures /\ f.code # "outcome_unknown"
      /\ f.code = "rejected" => f.reason = "unsupported_network"
  <2>1. CASE f = [Failure("forbidden", FALSE) EXCEPT !.reason = "destination_not_allowed"]
    <3> DEFINE g == Failure("forbidden", FALSE)
    <3>1. g \in Failures /\ g.code = "forbidden"
      BY FailureFields DEF Codes
    <3>2. "destination_not_allowed" \in Reasons
      BY DEF Reasons
    <3> HIDE DEF g
    <3>3. f = [g EXCEPT !.reason = "destination_not_allowed"]
      BY <2>1 DEF g
    <3> QED BY <3>1, <3>2, <3>3 DEF Failures
  <2>2. CASE f = [Failure("backpressure", TRUE) EXCEPT !.hint = 3]
    <3> DEFINE g == Failure("backpressure", TRUE)
    <3>1. g \in Failures /\ g.code = "backpressure"
      BY FailureFields DEF Codes
    <3> HIDE DEF g
    <3>2. f = [g EXCEPT !.hint = 3]
      BY <2>2 DEF g
    <3> QED BY <3>1, <3>2, FailureHint
  <2>3. CASE f = Rejected("unsupported_network", NoStatus)
    <3>1. "unsupported_network" \in Reasons /\ NoStatus \in Nat
      BY DEF Reasons, NoStatus
    <3>2. IsRejected(f, "unsupported_network", NoStatus)
      BY <2>3, <3>1, RejectedFields
    <3> QED BY <3>2 DEF IsRejected
  <2>4. CASE \E code \in {"invalid_request", "unauthenticated", "capability_disabled",
                          "unknown_operation", "not_ready"}, r \in BOOLEAN : f = Failure(code, r)
    <3>1. PICK code \in {"invalid_request", "unauthenticated", "capability_disabled",
                         "unknown_operation", "not_ready"}, r \in BOOLEAN : f = Failure(code, r)
      BY <2>4
    <3>2. code \in Codes
      BY DEF Codes
    <3>3. f \in Failures /\ f.code = code
      BY <3>1, <3>2, FailureFields
    <3> QED BY <3>3
  <2> QED BY <2>1, <2>2, <2>3, <2>4 DEF Refusals
<1>2. f.code = "rejected" => typed(o, f.reason) = {}
  BY <1>1, NoTypeFor
<1>3. CASE RelayedOf(f) # NoStatus
  <2>1. t = Error("Api", "none", RelayedOf(f), Wait(f.hint))
    BY <1>1, <1>2, <1>3, AnsweredApi
  <2> QED BY <2>1 DEF Error, unknown
<1>4. CASE RelayedOf(f) = NoStatus
  <2>1. t = Hop(f.retryable /\ f.code # "rejected", FALSE, FALSE, Wait(f.hint))
    BY <1>1, <1>2, <1>4, AnsweredHop
  <2>2. t.v = "Gateway" /\ t.cause.unknown = FALSE
    BY <2>1 DEF Hop, Error
  <2> QED BY <2>2 DEF unknown
<1> QED BY <1>3, <1>4

\* A deadline leaves a mutation in doubt and nothing else.
LEMMA OverdueRight ==
    ASSUME NEW o \in Catalog
    PROVE  LET t == answered(o, Body(o, Overdue(o))) IN
           /\ t.v # "Ok"
           /\ IF mutates(o) THEN UnknownOf(o, t) ELSE ~unknown(t)
<1> DEFINE f == Overdue(o)
           t == answered(o, Body(o, f))
<1>1. /\ f \in Failures /\ f.hint = NoHint /\ f.status = NoStatus /\ f.retryable = TRUE
      /\ f.code = IF mutates(o) THEN "outcome_unknown" ELSE "upstream_transient"
  BY FailureFields DEF Overdue, Codes
<1> HIDE DEF f
<1>2. CASE mutates(o)
  <2>1. t = Hop(FALSE, TRUE, resendable_with_same_key(o), Wait(f.hint))
    BY <1>1, <1>2, AnsweredUnknown
  <2>2. t.v = "Gateway" /\ t.cause.unknown = TRUE /\ t.cause.same_key = resendable_with_same_key(o)
    BY <2>1 DEF Hop, Error
  <2> QED BY <1>2, <2>2 DEF UnknownOf, unknown, f
<1>3. CASE ~mutates(o)
  <2>1. RelayedOf(f) = NoStatus
    BY <1>1, <1>3 DEF RelayedOf
  <2>2. t = Hop(f.retryable /\ f.code # "rejected", FALSE, FALSE, Wait(f.hint))
    BY <1>1, <1>3, <2>1, AnsweredHop
  <2>3. t.v = "Gateway" /\ t.cause.unknown = FALSE
    BY <2>2 DEF Hop, Error
  <2> QED BY <1>3, <2>3 DEF unknown, f
<1> QED BY <1>2, <1>3

\* An answer that does not come leaves a mutation in doubt when its request may
\* have left.
LEMMA UnansweredRight ==
    ASSUME NEW o, NEW left \in BOOLEAN, NEW retryable \in BOOLEAN
    PROVE  LET t == unanswered(o, left, retryable) IN
           /\ t.v # "Ok"
           /\ IF left /\ mutates(o) THEN UnknownOf(o, t) ELSE ~unknown(t)
BY DEF unanswered, UnknownOf, unknown, Hop, Error

-----------------------------------------------------------------------------
(* The steps *)

LEMMA BoundFacts ==
    ASSUME NEW o \in Catalog
    PROVE  deadline(o) \in Nat /\ bound(o) \in Nat /\ bound(o) >= 60
BY DEF bound, deadline, DEADLINE_MARGIN

LEMMA ErrorOk == NoError.v = "Ok" /\ ~unknown(NoError)
BY DEF NoError, Error, unknown

\* A call that returns t, having applied nothing but its own mutation, and
\* nothing at all where t says so.
LEMMA ReturnStep ==
    ASSUME HopInv, NEW t, phase # "idle", Return(t), spent' \in 0..bound(op),
           effects' \cup pending' \subseteq Applied \cup {Mutation},
           ~mutates(op) => effects' = {} /\ pending' = {},
           t.v # "Ok" \/ (t = NoError /\ (mutates(op) => Mutation \in effects')),
           \/ UnknownOf(op, t)
           \/ ~unknown(t) /\ (t = NoError \/ effects' \cup pending' = Applied)
    PROVE  HopInv'
<1>1. /\ op' = op /\ key' = key /\ calls' = calls /\ phase' = "idle" /\ told' = t
      /\ doubted' = (doubted \/ unknown(t))
  BY DEF Return
<1>2. TypeOK'
  <2>1. doubted' \in BOOLEAN
    BY <1>1
  <2>2. calls' \in 0..MaxCalls /\ key' \in 1..(MaxCalls + 1)
    BY <1>1 DEF HopInv, TypeOK
  <2>3. spent' \in 0..bound(op')
    BY <1>1
  <2> QED BY <1>1, <2>1, <2>2, <2>3 DEF TypeOK
<1>3. CountInv'
  BY <1>1 DEF HopInv, CountInv
<1>4. SpentOk'
  BY <1>1 DEF SpentOk
<1>5. DoubtInv'
  <2>1. unknown(t) => doubted' /\ mutates(op) /\ t.cause.same_key = resendable_with_same_key(op)
    BY <1>1, ErrorOk DEF UnknownOf
  <2> QED BY <1>1, <2>1 DEF DoubtInv
<1>6. OnceInv'
  <2>1. calls # 0 /\ Applied \subseteq {Mutation} /\ (~doubted => Applied = {})
    BY DEF HopInv, OnceInv
  <2>2. Mutation' = Mutation
    BY <1>1 DEF Mutation
  <2>3. Applied' \subseteq {Mutation'}
    BY <2>1, <2>2 DEF Applied
  <2>4. ~doubted' /\ told' # NoError => Applied' = {}
    BY <1>1, <2>1 DEF Applied, UnknownOf
  <2>5. DoneIsApplied'
    BY <1>1, <2>2, ErrorOk DEF DoneIsApplied
  <2> QED BY <1>1, <2>1, <2>3, <2>4, <2>5 DEF OnceInv
<1> QED BY <1>2, <1>3, <1>4, <1>5, <1>6 DEF HopInv

\* A step of a call on its way out.
LEMMA MoveStep ==
    ASSUME HopInv, phase # "idle", phase' \in {"token", "connect", "sent"},
           UNCHANGED <<op, key, calls, told, doubted, direct, pending, effects>>,
           SpentOk', spent' \in 0..bound(op)
    PROVE  HopInv'
<1>1. TypeOK'
  BY DEF HopInv, TypeOK
<1>2. CountInv'
  BY DEF HopInv, CountInv
<1>3. DoubtInv'
  BY DEF HopInv, DoubtInv
<1>4. OnceInv'
  <2>1. Mutation' = Mutation /\ Applied' = Applied
    BY DEF Mutation, Applied
  <2>2. DoneIsApplied'
    BY DEF DoneIsApplied
  <2>3. calls # 0
    BY DEF HopInv, OnceInv
  <2> QED BY <2>1, <2>2, <2>3 DEF HopInv, OnceInv
<1> QED BY <1>1, <1>2, <1>3, <1>4 DEF HopInv

\* The ways out that leave no mutation in doubt.
LEMMA UnsentStep ==
    ASSUME HopInv, NEW r \in BOOLEAN, phase # "idle", Return(unanswered(op, FALSE, r)),
           spent' \in 0..bound(op), UNCHANGED <<direct, pending, effects>>
    PROVE  HopInv'
<1> DEFINE t == unanswered(op, FALSE, r)
<1>1. t.v # "Ok" /\ ~unknown(t)
  BY UnansweredRight
<1>2. Return(t)
  OBVIOUS
<1> HIDE DEF t
<1>3. effects' \cup pending' = Applied
  BY DEF Applied
<1>4. ~mutates(op) => effects' = {} /\ pending' = {}
  BY DEF HopInv, TypeOK
<1> QED BY <1>1, <1>2, <1>3, <1>4, ReturnStep

LEMMA OpInCatalog ==
    ASSUME HopInv
    PROVE  op \in Catalog
BY HopAssumption DEF HopInv, CountInv

LEMMA UrlStep ==
    ASSUME HopInv, Url
    PROVE  HopInv'
<1>0. op \in Catalog /\ bound(op) \in Nat /\ bound(op) >= 60
  BY OpInCatalog, BoundFacts
<1>1. phase = "url" /\ spent = 0 /\ spent' = spent /\ UNCHANGED <<direct, pending, effects>>
  BY DEF Url, HopInv, SpentOk
<1>2. CASE phase' = "token" /\ UNCHANGED <<op, key, calls, told, doubted>>
  <2>1. SpentOk'
    BY <1>1, <1>2 DEF SpentOk
  <2> QED BY <1>0, <1>1, <1>2, <2>1, MoveStep
<1>3. CASE Return(unanswered(op, FALSE, FALSE))
  <2>1. spent' \in 0..bound(op)
    BY <1>0, <1>1
  <2> QED BY <1>1, <1>3, <2>1, UnsentStep
<1> QED BY <1>2, <1>3 DEF Url

LEMMA TokenStep ==
    ASSUME HopInv, Token
    PROVE  HopInv'
<1>0. op \in Catalog /\ bound(op) \in Nat /\ bound(op) >= 60
  BY OpInCatalog, BoundFacts
<1>1. phase = "token" /\ spent = 0 /\ UNCHANGED <<direct, pending, effects>>
  BY DEF Token, HopInv, SpentOk
<1>2. CASE /\ spent' \in {spent, spent + METADATA_TIMEOUT} /\ phase' = "connect"
           /\ UNCHANGED <<op, key, calls, told, doubted>>
  <2>1. SpentOk' /\ spent' \in 0..bound(op)
    BY <1>0, <1>1, <1>2 DEF SpentOk, METADATA_TIMEOUT
  <2> QED BY <1>1, <1>2, <2>1, MoveStep
<1>3. CASE /\ spent' = spent
           /\ \E status \in {302, 404, 503} :
                 Return(unanswered(op, FALSE, clears_on_its_own(status)))
  <2>1. PICK status \in {302, 404, 503} : Return(unanswered(op, FALSE, clears_on_its_own(status)))
    BY <1>3
  <2>2. clears_on_its_own(status) \in BOOLEAN
    BY DEF clears_on_its_own
  <2>3. spent' \in 0..bound(op)
    BY <1>0, <1>1, <1>3
  <2> QED BY <1>1, <2>1, <2>2, <2>3, UnsentStep
<1>4. CASE spent' = spent + METADATA_TIMEOUT /\ Return(unanswered(op, FALSE, TRUE))
  <2>1. spent' \in 0..bound(op)
    BY <1>0, <1>1, <1>4 DEF METADATA_TIMEOUT
  <2> QED BY <1>1, <1>4, <2>1, UnsentStep
<1> QED BY <1>2, <1>3, <1>4 DEF Token

LEMMA ConnectStep ==
    ASSUME HopInv, Connect
    PROVE  HopInv'
<1>0. op \in Catalog /\ bound(op) \in Nat /\ bound(op) >= 60
  BY OpInCatalog, BoundFacts
<1>1. /\ phase = "connect" /\ spent \in {0, METADATA_TIMEOUT}
      /\ UNCHANGED <<direct, pending, effects>>
  BY DEF Connect, HopInv, SpentOk
<1>2. CASE /\ spent' \in {spent, spent + GATEWAY_CONNECT_TIMEOUT} /\ phase' = "sent"
           /\ UNCHANGED <<op, key, calls, told, doubted>>
  <2>1. SpentOk' /\ spent' \in 0..bound(op)
    BY <1>0, <1>1, <1>2 DEF SpentOk, METADATA_TIMEOUT, GATEWAY_CONNECT_TIMEOUT
  <2> QED BY <1>1, <1>2, <2>1, MoveStep
<1>3. CASE spent' = spent /\ Return(unanswered(op, FALSE, FALSE))
  <2>1. spent' \in 0..bound(op)
    BY <1>0, <1>1, <1>3 DEF METADATA_TIMEOUT
  <2> QED BY <1>1, <1>3, <2>1, UnsentStep
<1>4. CASE spent' = spent + GATEWAY_CONNECT_TIMEOUT /\ Return(unanswered(op, FALSE, TRUE))
  <2>1. spent' \in 0..bound(op)
    BY <1>0, <1>1, <1>4 DEF METADATA_TIMEOUT, GATEWAY_CONNECT_TIMEOUT
  <2> QED BY <1>1, <1>4, <2>1, UnsentStep
<1> QED BY <1>2, <1>3, <1>4 DEF Connect

\* What a step of the gateway's work may have done to the world.
Touched ==
    /\ effects' \cup pending' \subseteq Applied \cup {Mutation}
    /\ ~mutates(op) => effects' = {} /\ pending' = {}

\* An answer that does not come back.
LEMMA LostStep ==
    ASSUME HopInv, NEW r \in BOOLEAN, phase # "idle", Return(unanswered(op, TRUE, r)),
           spent' \in 0..bound(op), Touched
    PROVE  HopInv'
<1> DEFINE t == unanswered(op, TRUE, r)
<1>1. t.v # "Ok" /\ (IF mutates(op) THEN UnknownOf(op, t) ELSE ~unknown(t))
  BY UnansweredRight
<1>2. Return(t)
  OBVIOUS
<1> HIDE DEF t
<1>3. ~mutates(op) => effects' \cup pending' = Applied
  BY DEF Touched, Applied, HopInv, TypeOK
<1> QED BY <1>1, <1>2, <1>3, ReturnStep DEF Touched

LEMMA UndeliveredStep ==
    ASSUME HopInv, phase = "sent", Undelivered, Touched
    PROVE  HopInv'
<1>0. op \in Catalog /\ bound(op) \in Nat /\ bound(op) >= 60
  BY OpInCatalog, BoundFacts
<1>1. spent \in 0..bound(op)
  BY DEF HopInv, TypeOK
<1>2. CASE spent' = spent /\ Return(unanswered(op, TRUE, TRUE))
  BY <1>1, <1>2, LostStep
<1>3. CASE spent' = bound(op) /\ Return(unanswered(op, TRUE, TRUE))
  <2>1. spent' \in 0..bound(op)
    BY <1>0, <1>3
  <2> QED BY <1>3, <2>1, LostStep
<1>4. CASE /\ spent' = spent
           /\ \E status \in {200, 302, 404, 502} :
                 Return(unanswered(op, TRUE, clears_on_its_own(status)))
  <2>1. PICK status \in {200, 302, 404, 502} :
           Return(unanswered(op, TRUE, clears_on_its_own(status)))
    BY <1>4
  <2>2. clears_on_its_own(status) \in BOOLEAN
    BY DEF clears_on_its_own
  <2> QED BY <1>1, <1>4, <2>1, <2>2, LostStep
<1> QED BY <1>2, <1>3, <1>4 DEF Undelivered

\* An answer that comes, unless the client's bound ends first.
LEMMA DeliveredStep ==
    ASSUME HopInv, phase = "sent", NEW t, NEW at \in Nat, delivered(t, at), Touched,
           t.v # "Ok" \/ (t = NoError /\ (mutates(op) => Mutation \in effects')),
           \/ UnknownOf(op, t)
           \/ ~unknown(t) /\ (t = NoError \/ effects' \cup pending' = Applied)
    PROVE  HopInv'
<1>0. op \in Catalog /\ bound(op) \in Nat /\ bound(op) >= 60
  BY OpInCatalog, BoundFacts
<1>1. CASE at <= bound(op)
  <2>1. spent' \in 0..bound(op) /\ Return(t)
    BY <1>0, <1>1 DEF delivered
  <2> QED BY <2>1, ReturnStep DEF Touched
<1>2. CASE ~(at <= bound(op))
  <2>1. spent' = bound(op) /\ Return(unanswered(op, TRUE, TRUE))
    BY <1>2 DEF delivered
  <2>2. spent' \in 0..bound(op)
    BY <1>0, <2>1
  <2> QED BY <2>1, <2>2, LostStep
<1> QED BY <1>1, <1>2

LEMMA ApplyTouches ==
    ASSUME HopInv, Apply, UNCHANGED pending
    PROVE  Touched /\ (mutates(op) => Mutation \in effects')
BY DEF HopInv, TypeOK, Apply, Touched, Applied

LEMMA UncertainTouches ==
    ASSUME HopInv, mutates(op), Uncertain
    PROVE  Touched
BY DEF Apply, Uncertain, Touched, Applied

LEMMA UntouchedTouches ==
    ASSUME HopInv, UNCHANGED <<effects, pending>>
    PROVE  Touched /\ effects' \cup pending' = Applied
BY DEF HopInv, TypeOK, Touched, Applied

LEMMA SpentIsNat ==
    ASSUME HopInv
    PROVE  spent \in Nat
BY DEF HopInv, TypeOK

LEMMA SucceedStep ==
    ASSUME HopInv, Succeed
    PROVE  HopInv'
<1>1. phase = "sent" /\ Touched /\ (mutates(op) => Mutation \in effects')
  BY ApplyTouches DEF Succeed
<1>2. CASE delivered(NoError, spent)
  BY <1>1, <1>2, ErrorOk, SpentIsNat, DeliveredStep
<1>3. CASE Undelivered
  BY <1>1, <1>3, UndeliveredStep
<1> QED BY <1>2, <1>3 DEF Succeed

LEMMA FailStep ==
    ASSUME HopInv, Fail
    PROVE  HopInv'
<1>1. phase = "sent" /\ op \in Catalog /\ spent \in Nat
  BY OpInCatalog, SpentIsNat DEF Fail
<1>2. PICK e \in Errors(op), wrote \in BOOLEAN :
          /\ ~wrote => op \in ReadsFirst
          /\ IF mutates(op) /\ wrote /\ (op \in Placements \/ MayHaveApplied(e))
             THEN Uncertain
             ELSE UNCHANGED <<effects, pending>>
          /\ \/ delivered(Told(op, e, wrote), spent)
             \/ Undelivered
  BY DEF Fail, Told
<1>3. Touched
  BY <1>2, UncertainTouches, UntouchedTouches
<1>4. CASE Undelivered
  BY <1>1, <1>3, <1>4, UndeliveredStep
<1>5. CASE delivered(Told(op, e, wrote), spent)
  <2> DEFINE t == Told(op, e, wrote)
  <2>1. \/ UnknownOf(op, t)
        \/ /\ Definite(e, t)
           /\ mutates(op) /\ wrote => op \notin Placements /\ ~MayHaveApplied(e)
    BY <1>1, <1>2, ToldRight
  <2>2. delivered(t, spent)
    BY <1>5
  <2> HIDE DEF t
  <2>3. t.v # "Ok"
    BY <2>1 DEF UnknownOf, Definite
  <2>4. CASE UnknownOf(op, t)
    BY <1>1, <1>3, <2>2, <2>3, <2>4, DeliveredStep
  <2>5. CASE ~UnknownOf(op, t)
    <3>1. ~unknown(t) /\ UNCHANGED <<effects, pending>>
      BY <1>2, <2>1, <2>5 DEF Definite
    <3>2. effects' \cup pending' = Applied
      BY <3>1, UntouchedTouches
    <3> QED BY <1>1, <1>3, <2>2, <2>3, <3>1, <3>2, DeliveredStep
  <2> QED BY <2>4, <2>5
<1> QED BY <1>2, <1>4, <1>5

LEMMA RefuseStep ==
    ASSUME HopInv, Refuse
    PROVE  HopInv'
<1>1. phase = "sent" /\ op \in Catalog /\ spent \in Nat /\ UNCHANGED <<effects, pending>>
  BY OpInCatalog, SpentIsNat DEF Refuse
<1>2. Touched /\ effects' \cup pending' = Applied
  BY <1>1, UntouchedTouches
<1>3. PICK f \in Refusals : delivered(answered(op, Body(op, f)), spent) \/ Undelivered
  BY DEF Refuse
<1>4. CASE Undelivered
  BY <1>1, <1>2, <1>4, UndeliveredStep
<1>5. CASE delivered(answered(op, Body(op, f)), spent)
  <2> DEFINE t == answered(op, Body(op, f))
  <2>1. t.v # "Ok" /\ ~unknown(t) /\ delivered(t, spent)
    BY <1>1, <1>5, RefusalRight
  <2> HIDE DEF t
  <2> QED BY <1>1, <1>2, <2>1, DeliveredStep
<1> QED BY <1>3, <1>4, <1>5

LEMMA DeadlineStep ==
    ASSUME HopInv, Deadline
    PROVE  HopInv'
<1>1. phase = "sent" /\ op \in Catalog /\ spent \in Nat /\ deadline(op) \in Nat
  BY OpInCatalog, SpentIsNat, BoundFacts DEF Deadline
<1>2. Touched /\ (~mutates(op) => effects' \cup pending' = Applied)
  BY UncertainTouches, UntouchedTouches DEF Deadline
<1> DEFINE t == answered(op, Body(op, Overdue(op)))
<1>3. /\ t.v # "Ok" /\ (IF mutates(op) THEN UnknownOf(op, t) ELSE ~unknown(t))
      /\ delivered(t, spent + deadline(op))
  BY <1>1, OverdueRight DEF Deadline
<1> HIDE DEF t
<1>4. spent + deadline(op) \in Nat
  BY <1>1
<1> QED BY <1>1, <1>2, <1>3, <1>4, DeliveredStep

LEMMA LandStep ==
    ASSUME HopInv, Land
    PROVE  HopInv'
<1>1. UNCHANGED <<op, key, calls, phase, spent, direct, told, doubted>>
  BY DEF Land
<1>2. PICK m \in pending : effects' = effects \cup {m} /\ pending' = pending \ {m}
  BY DEF Land
<1>3. Applied' = Applied /\ Mutation' = Mutation
  BY <1>1, <1>2 DEF Applied, Mutation
<1>4. mutates(op)
  BY <1>2 DEF HopInv, TypeOK
<1>5. TypeOK'
  BY <1>1, <1>4 DEF HopInv, TypeOK
<1>6. CountInv' /\ SpentOk' /\ DoubtInv'
  BY <1>1 DEF HopInv, CountInv, SpentOk, DoubtInv
<1>7. DoneIsApplied'
  BY <1>1, <1>2, <1>3 DEF HopInv, OnceInv, DoneIsApplied
<1>8. OnceInv'
  BY <1>1, <1>3, <1>7 DEF HopInv, OnceInv
<1> QED BY <1>5, <1>6, <1>8 DEF HopInv

\* A call begins, or is made again as its error lets it.
LEMMA CallStep ==
    ASSUME HopInv, Call
    PROVE  HopInv'
<1>0. op \in Catalog /\ bound(op) \in Nat /\ bound(op) >= 60
  BY OpInCatalog, BoundFacts
<1>1. /\ phase = "idle" /\ calls < MaxCalls /\ calls' = calls + 1
      /\ phase' = "url" /\ spent' = 0 /\ direct' = NoError /\ told' = NoError
      /\ UNCHANGED <<op, pending, effects, doubted>>
  BY DEF Call
<1>2. /\ calls \in 0..MaxCalls /\ key \in 1..(MaxCalls + 1) /\ key <= calls + 1
      /\ doubted \in BOOLEAN /\ MaxCalls \in Nat
  BY HopAssumption DEF HopInv, TypeOK, CountInv
<1>3. key' \in {key, key + 1} /\ (key' # key => ~doubted)
  BY DEF Call
<1>4. doubted => resendable_with_same_key(op)
  <2>1. CASE calls = 0
    BY <2>1 DEF HopInv, OnceInv
  <2>2. CASE unknown(told) /\ told.cause.same_key
    BY <2>2 DEF HopInv, DoubtInv
  <2>3. CASE doubted => resendable_with_same_key(op)
    BY <2>3
  <2> QED BY <2>1, <2>2, <2>3 DEF Call
<1>5. ~doubted => Applied = {}
  <2>1. CASE calls = 0
    BY <2>1 DEF HopInv, OnceInv
  <2>2. CASE unknown(told)
    BY <2>2 DEF HopInv, DoubtInv
  <2>3. CASE told # NoError
    BY <2>3 DEF HopInv, OnceInv
  <2> QED BY <2>1, <2>2, <2>3 DEF Call
<1>6. TypeOK'
  <2>1. calls' \in 0..MaxCalls /\ key' \in 1..(MaxCalls + 1)
    BY <1>1, <1>2, <1>3
  <2>2. spent' \in 0..bound(op)
    BY <1>0, <1>1
  <2> QED BY <1>1, <1>2, <2>1, <2>2 DEF HopInv, TypeOK
<1>7. CountInv'
  BY <1>1, <1>2, <1>3 DEF HopInv, CountInv
<1>8. SpentOk'
  BY <1>1 DEF SpentOk
<1>9. DoubtInv'
  BY <1>1, ErrorOk DEF DoubtInv
<1>10. OnceInv'
  <2>1. Applied' = Applied
    BY <1>1 DEF Applied
  <2>2. Applied \subseteq {Mutation'}
    <3>1. CASE ~doubted
      BY <1>5, <3>1
    <3>2. CASE doubted
      <4>1. Mutation' = Mutation
        BY <1>1, <1>3, <1>4, <3>2 DEF Mutation, AlpacaDedupes, resendable_with_same_key
      <4> QED BY <4>1 DEF HopInv, OnceInv
    <3> QED BY <3>1, <3>2
  <2>3. DoneIsApplied'
    BY <1>1 DEF DoneIsApplied
  <2>4. calls' # 0
    BY <1>1, <1>2
  <2> QED BY <1>1, <1>4, <1>5, <2>1, <2>2, <2>3, <2>4 DEF OnceInv
<1> QED BY <1>6, <1>7, <1>8, <1>9, <1>10 DEF HopInv

LEMMA HopStart ==
    ASSUME Init
    PROVE  HopInv
<1>0. op \in Catalog /\ bound(op) \in Nat /\ bound(op) >= 60 /\ MaxCalls \in Nat
  BY HopAssumption, BoundFacts DEF Init
<1>1. TypeOK
  <2>1. calls \in 0..MaxCalls /\ key \in 1..(MaxCalls + 1) /\ spent \in 0..bound(op)
    BY <1>0 DEF Init
  <2>2. phase = "idle" /\ doubted \in BOOLEAN /\ effects = {} /\ pending = {}
    BY DEF Init
  <2> QED BY <2>1, <2>2 DEF TypeOK
<1>2. CountInv /\ SpentOk /\ DoubtInv
  BY ErrorOk DEF Init, CountInv, SpentOk, DoubtInv
<1>3. OnceInv
  BY DEF Init, OnceInv, Applied, DoneIsApplied
<1> QED BY <1>1, <1>2, <1>3 DEF HopInv

LEMMA HopStep ==
    ASSUME HopInv, [Next]_vars
    PROVE  HopInv'
<1>1. CASE UNCHANGED vars
  <2>1. UNCHANGED <<op, key, calls, phase, spent, direct, told, pending, effects, doubted>>
    BY <1>1 DEF vars
  <2>2. Mutation' = Mutation /\ Applied' = Applied
    BY <2>1 DEF Mutation, Applied
  <2>3. TypeOK' /\ CountInv' /\ SpentOk' /\ DoubtInv'
    BY <2>1 DEF HopInv, TypeOK, CountInv, SpentOk, DoubtInv
  <2>4. OnceInv'
    BY <2>1, <2>2 DEF HopInv, OnceInv, DoneIsApplied
  <2> QED BY <2>3, <2>4 DEF HopInv
<1> QED BY <1>1, CallStep, UrlStep, TokenStep, ConnectStep, SucceedStep, FailStep, RefuseStep,
           DeadlineStep, LandStep DEF Next

LEMMA HopInvariant == Spec => []HopInv
<1>1. Init => HopInv
  BY HopStart
<1>2. HopInv /\ [Next]_vars => HopInv'
  BY HopStep
<1> QED BY <1>1, <1>2, PTL DEF Spec

\* The adapter's promises, whatever the gateway, the proxy in front of it and
\* Alpaca answer and whenever: a call stays within the client's bound, an error
\* that is not unknown means that nothing was or will be applied, a mutation
\* resent as the errors let it is applied at most once, late arrivals included,
\* and a call reported as done was applied.
THEOREM HopIsSafeHolds == Spec => []HopIsSafe
<1>1. HopInv => HopIsSafe
  <2> SUFFICES ASSUME HopInv PROVE HopIsSafe
    OBVIOUS
  <2>1. DefiniteMeansNotApplied
    BY DEF HopInv, OnceInv, DefiniteMeansNotApplied, Applied
  <2>2. NeverAppliedTwice
    BY DEF HopInv, OnceInv, NeverAppliedTwice, Applied
  <2> QED BY <2>1, <2>2 DEF HopInv, OnceInv, HopIsSafe
<1> QED BY <1>1, HopInvariant, PTL

LEMMA MeaningStep ==
    ASSUME HopInv, HopKeepsTheMeaning, [Next]_vars
    PROVE  HopKeepsTheMeaning'
<1> SUFFICES ASSUME phase' = "idle", direct' # NoError, ~unknown(told')
             PROVE  Keeps(direct', told')
  BY DEF HopKeepsTheMeaning, Keeps
<1>1. CASE phase' = phase /\ direct' = direct /\ told' = told
  BY <1>1 DEF HopKeepsTheMeaning, Keeps
<1>2. CASE direct' = direct /\ phase # "idle"
  BY <1>2 DEF HopInv, DoubtInv
<1>3. CASE Fail
  <2>1. phase = "sent" /\ op \in Catalog /\ spent <= 20 /\ spent \in Nat
    BY <1>3, OpInCatalog, SpentIsNat
       DEF Fail, HopInv, SpentOk, METADATA_TIMEOUT, GATEWAY_CONNECT_TIMEOUT
  <2>2. PICK e \in Errors(op), wrote \in BOOLEAN :
            /\ ~wrote => op \in ReadsFirst
            /\ \/ direct' = e /\ delivered(Told(op, e, wrote), spent)
               \/ direct' = NoError
    BY <1>3 DEF Fail, Told
  <2>3. direct' = e /\ delivered(Told(op, e, wrote), spent)
    BY <2>2
  <2>4. told' = Told(op, e, wrote)
    <3>1. spent <= bound(op)
      BY <2>1, BoundFacts
    <3> QED BY <2>3, <3>1 DEF delivered, Return
  <2>5. Definite(e, Told(op, e, wrote))
    BY <2>1, <2>2, <2>4, ToldRight DEF UnknownOf
  <2> QED BY <2>3, <2>4, <2>5 DEF Definite
<1>4. CASE Call
  BY <1>4 DEF Call
<1>5. CASE Url \/ Token \/ Connect \/ Succeed \/ Refuse \/ Deadline
  BY <1>2, <1>5 DEF Url, Token, Connect, Succeed, Refuse, Deadline
<1>6. CASE Land \/ UNCHANGED vars
  BY <1>1, <1>6 DEF Land, vars
<1> QED BY <1>3, <1>4, <1>5, <1>6 DEF Next

\* Over the gateway an error means what it means on the direct path, for every
\* operation and every error its work may end in: it clears exactly when that
\* one does, its wait is no shorter, and throttles and definite mint rejections
\* are neither lost nor made up.
THEOREM MeaningIsKept == Spec => []HopKeepsTheMeaning
<1>1. Init => HopKeepsTheMeaning
  BY DEF Init, HopKeepsTheMeaning
<1>2. HopInv /\ HopKeepsTheMeaning /\ [Next]_vars => HopKeepsTheMeaning'
  BY MeaningStep
<1> QED BY <1>1, <1>2, HopInvariant, PTL DEF Spec

-----------------------------------------------------------------------------
(* The issuer's retry loop, whose end the gateway answers in the same way.   *)

Answers == [code : {"none", "backpressure", "unavailable", "rejected",
                    "upstream_transient", "outcome_unknown"},
            retryable : BOOLEAN]

Places == {"idle", "check", "holding", "auth", "inflight", "backoff", "ok", "failed"}

\* A request is out only while its attempt awaits it, and a poll changes
\* nothing.
OnTheWire ==
    \A c \in Callers :
        /\ wire[c] # "none" => pc[c] = "inflight"
        /\ call[c] = "poll" => ~applied[c] /\ ~stray[c] /\ wire[c] # "landed"

\* While a call runs and its loop has seen no attempt that may have reached
\* Alpaca, none has, but for the one in flight.
UnwrittenSoFar ==
    \A c \in Callers :
        pc[c] \notin {"ok", "failed"} /\ ~written[c]
        => ~stray[c] /\ (applied[c] => wire[c] = "landed")

\* What a failure other than outcome_unknown says.
FailureIsTrue ==
    \A c \in Callers :
        pc[c] = "failed" /\ answer[c].code # "outcome_unknown"
        => ~applied[c] /\ ~stray[c]

\* What was slept, what is still to be slept of a hold and what is left of the
\* budget make up the budget at most.
BudgetSplit ==
    \A c \in Callers :
        /\ waited[c] + budget[c] <= Budget
        /\ pc[c] = "holding" => waited[c] + sleepLeft[c] + budget[c] <= Budget

WriteInv == OnTheWire /\ UnwrittenSoFar /\ FailureIsTrue

RetryInv == IssuerTypeOK /\ WriteInv /\ BudgetSplit

LEMMA MinMax ==
    ASSUME NEW a \in Int, NEW b \in Int
    PROVE  /\ Min2(a, b) \in {a, b} /\ Min2(a, b) <= a /\ Min2(a, b) <= b
           /\ Max2(a, b) \in {a, b} /\ Max2(a, b) >= a /\ Max2(a, b) >= b
BY DEF Min2, Max2

(* What the gateway answers is one of its failures, and outcome_unknown for a *)
(* call that may have been written.                                           *)
LEMMA AnswerType ==
    ASSUME NEW w \in BOOLEAN, NEW e
    PROVE  issuer_call(w, e) \in Answers /\ (w
            => issuer_call(w, e).code = "outcome_unknown")
<1>1. issuer_transient(e) \in BOOLEAN
    BY DEF issuer_transient
<1>2. issuer(e) \in Answers
    BY <1>1 DEF issuer, IssuerFailure, Answers
<1>3. IssuerFailure("outcome_unknown", FALSE) \in Answers
      /\ IssuerFailure("outcome_unknown", FALSE).code = "outcome_unknown"
    BY DEF IssuerFailure, Answers
<1> QED BY <1>2, <1>3 DEF issuer_call

LEMMA WrittenType ==
    ASSUME IssuerTypeOK, NEW c \in Callers, NEW w \in BOOLEAN, NEW e
    PROVE  written_on(c, w, e) \in BOOLEAN /\ writtenAfter(c, e) \in BOOLEAN
BY DEF written_on, writtenAfter, may_have_reached_alpaca, IssuerTypeOK

(* The hold never exceeds MAX_RETRY_AFTER_HOLD. *)
LEMMA HoldBounded ==
    ASSUME holdLeft \in 0..MaxHold, NEW hint \in Hints \cup {0}
    PROVE  hold_for(hint) \in 0..MaxHold
<1>1. hint \in Nat /\ MaxHold \in Nat
    BY BoundsAssumption
<1>2. Min2(hint, MaxHold) \in 0..MaxHold
    BY <1>1, MinMax
<1>3. Max2(holdLeft, Min2(hint, MaxHold)) \in {holdLeft, Min2(hint, MaxHold)}
    BY <1>1, <1>2, MinMax
<1> QED BY <1>2, <1>3 DEF hold_for

(* What the loop does after a failed attempt: it changes only its own       *)
(* caller, and either backs off or ends the call with its answer.           *)
LEMMA AfterAttempt ==
    ASSUME IssuerTypeOK, NEW c \in Callers, NEW e, AttemptFailed(c, e)
    PROVE  /\ holdLeft' \in 0..MaxHold
           /\ pc' \in [Callers -> Places]
           /\ sleepLeft' \in [Callers -> Nat]
           /\ tries' \in [Callers -> 0..MaxRetries]
           /\ written' \in [Callers -> BOOLEAN]
           /\ answer' \in [Callers -> Answers]
           /\ UNCHANGED <<call, budget, applied, waited>>
           /\ \A d \in Callers \ {c} :
                 /\ pc'[d] = pc[d] /\ sleepLeft'[d] = sleepLeft[d]
                 /\ written'[d] = written[d] /\ answer'[d] = answer[d]
           /\ \/ /\ pc'[c] = "backoff" /\ is_retryable(e)
                 /\ written'[c] = writtenAfter(c, e)
              \/ /\ pc'[c] = "failed"
                 /\ answer'[c].code # "outcome_unknown"
                       => ~written_on(c, writtenAfter(c, e), e)
<1>1. PICK hint \in Hints \cup {0} :
        LET hold == IF backpressure(e) THEN hold_for(hint) ELSE holdLeft
            retry == is_retryable(e) /\ tries[c] > 0 /\ hold <= budget[c]
        IN
        /\ holdLeft' = hold
        /\ IF retry
           THEN /\ Goto(c, "backoff")
                /\ \E delay \in Delays : sleepLeft' = [sleepLeft EXCEPT ![c] = delay]
                /\ written' = [written EXCEPT ![c] = writtenAfter(c, e)]
                /\ UNCHANGED answer
           ELSE /\ Goto(c, "failed")
                /\ written' = [written EXCEPT
                                  ![c] = written_on(c, writtenAfter(c, e), e)]
                /\ Tell(c, written'[c], e)
                /\ UNCHANGED sleepLeft
        /\ tries' = [tries EXCEPT ![c] = triesAfter(c, e)]
        /\ UNCHANGED <<call, budget, applied, waited>>
    BY DEF AttemptFailed
<1> DEFINE hold == IF backpressure(e) THEN hold_for(hint) ELSE holdLeft
           retry == is_retryable(e) /\ tries[c] > 0 /\ hold <= budget[c]
<1>2. holdLeft' \in 0..MaxHold
    BY <1>1, HoldBounded DEF IssuerTypeOK
<1>3. tries' \in [Callers -> 0..MaxRetries]
    <2>1. tries[c] \in 0..MaxRetries /\ MaxRetries \in Nat
        BY BoundsAssumption DEF IssuerTypeOK
    <2>2. triesAfter(c, e) \in 0..MaxRetries
        BY <2>1 DEF triesAfter
    <2> QED BY <1>1, <2>2 DEF IssuerTypeOK
<1>4. /\ writtenAfter(c, e) \in BOOLEAN
      /\ written_on(c, writtenAfter(c, e), e) \in BOOLEAN
    BY WrittenType
<1>5. CASE retry
    <2>1. PICK delay \in Delays : sleepLeft' = [sleepLeft EXCEPT ![c] = delay]
        BY <1>1, <1>5
    <2>2. sleepLeft' \in [Callers -> Nat]
        BY <2>1, BoundsAssumption DEF IssuerTypeOK
    <2>3. /\ pc' = [pc EXCEPT ![c] = "backoff"] /\ answer' = answer
          /\ written' = [written EXCEPT ![c] = writtenAfter(c, e)] /\ is_retryable(e)
        BY <1>1, <1>5 DEF Goto
    <2>4. written' \in [Callers -> BOOLEAN] /\ written'[c] = writtenAfter(c, e)
        BY <1>4, <2>3 DEF IssuerTypeOK
    <2>5. pc' \in [Callers -> Places] /\ pc'[c] = "backoff" /\ answer' \in [Callers -> Answers]
        BY <2>3 DEF IssuerTypeOK, Places, Answers
    <2>6. \A d \in Callers \ {c} : /\ pc'[d] = pc[d] /\ sleepLeft'[d] = sleepLeft[d]
                                   /\ written'[d] = written[d] /\ answer'[d] = answer[d]
        BY <2>1, <2>3 DEF IssuerTypeOK
    <2> QED BY <1>1, <1>2, <1>3, <2>2, <2>3, <2>4, <2>5, <2>6
<1>6. CASE ~retry
    <2>1. /\ pc' = [pc EXCEPT ![c] = "failed"] /\ sleepLeft' = sleepLeft
          /\ written' = [written EXCEPT ![c] = written_on(c, writtenAfter(c, e), e)]
          /\ answer' = [answer EXCEPT ![c] = issuer_call(written'[c], e)]
        BY <1>1, <1>6 DEF Goto, Tell
    <2>2. /\ written' \in [Callers -> BOOLEAN]
          /\ written'[c] = written_on(c, writtenAfter(c, e), e)
        BY <1>4, <2>1 DEF IssuerTypeOK
    <2>3. /\ issuer_call(written'[c], e) \in Answers
          /\ written'[c] => issuer_call(written'[c], e).code = "outcome_unknown"
        BY <2>2, AnswerType
    <2>4. /\ answer' \in [Callers -> Answers] /\ answer'[c] = issuer_call(written'[c], e)
        BY <2>1, <2>3 DEF IssuerTypeOK, Answers
    <2>5. pc' \in [Callers -> Places] /\ pc'[c] = "failed" /\ sleepLeft' \in [Callers -> Nat]
        BY <2>1 DEF IssuerTypeOK, Places
    <2>6. \A d \in Callers \ {c} : /\ pc'[d] = pc[d] /\ sleepLeft'[d] = sleepLeft[d]
                                   /\ written'[d] = written[d] /\ answer'[d] = answer[d]
        BY <2>1 DEF IssuerTypeOK
    <2> QED BY <1>1, <1>2, <1>3, <2>2, <2>3, <2>4, <2>5, <2>6
<1> QED BY <1>5, <1>6

(* The initial states satisfy the invariant. *)
LEMMA RetryStart ==
    IssuerInit => RetryInv
<1> SUFFICES ASSUME IssuerInit PROVE RetryInv
    OBVIOUS
<1>1. NoAnswer \in Answers
    BY DEF NoAnswer, IssuerFailure, Answers
<1>2. IssuerTypeOK
    <2>1. /\ holdLeft \in 0..MaxHold /\ budget \in [Callers -> 0..Budget]
          /\ tries \in [Callers -> 0..MaxRetries]
          /\ sleepLeft \in [Callers -> Nat] /\ waited \in [Callers -> Nat]
        BY BoundsAssumption DEF IssuerInit
    <2>2. /\ written \in [Callers -> BOOLEAN] /\ stray \in [Callers -> BOOLEAN]
          /\ applied \in [Callers -> BOOLEAN]
        BY DEF IssuerInit
    <2>3. answer \in [Callers -> Answers]
        BY <1>1 DEF IssuerInit
    <2> QED BY <2>1, <2>2, <2>3 DEF IssuerInit, IssuerTypeOK, Answers
<1>3. WriteInv
    BY DEF IssuerInit, WriteInv, OnTheWire, UnwrittenSoFar, FailureIsTrue
<1>4. BudgetSplit
    BY BoundsAssumption DEF IssuerInit, BudgetSplit
<1> QED BY <1>2, <1>3, <1>4 DEF RetryInv

(* Every step keeps the variables in their sets. *)
LEMMA NextType ==
    IssuerTypeOK /\ [IssuerNext]_issuerVars => IssuerTypeOK'
<1> SUFFICES ASSUME IssuerTypeOK, [IssuerNext]_issuerVars PROVE IssuerTypeOK'
    OBVIOUS
<1>1. ASSUME NEW c \in Callers, Start(c) PROVE IssuerTypeOK'
    <2>1. PICK k \in Calls :
              /\ call' = [call EXCEPT ![c] = k]
              /\ \/ Goto(c, "check") /\ answer' = [answer EXCEPT ![c] = NoAnswer]
                 \/ k = "redeem" /\ Goto(c, "failed") /\ Tell(c, FALSE, "unsupported")
        BY <1>1 DEF Start
    <2>2. NoAnswer \in Answers /\ issuer_call(FALSE, "unsupported") \in Answers
        BY AnswerType DEF NoAnswer, IssuerFailure, Answers
    <2>3. answer' \in [Callers -> Answers]
        BY <2>1, <2>2 DEF IssuerTypeOK, Answers, Tell
    <2>4. call' \in [Callers -> Calls] /\ pc' \in [Callers -> Places]
        BY <2>1 DEF IssuerTypeOK, Goto, Places
    <2>5. /\ budget' \in [Callers -> 0..Budget] /\ tries' \in [Callers -> 0..MaxRetries]
          /\ waited' \in [Callers -> Nat] /\ wire' \in [Callers -> {"none", "out", "landed"}]
        BY <1>1, BoundsAssumption DEF Start, IssuerTypeOK
    <2>6. /\ written' \in [Callers -> BOOLEAN] /\ stray' \in [Callers -> BOOLEAN]
          /\ applied' \in [Callers -> BOOLEAN]
        BY <1>1 DEF Start, IssuerTypeOK
    <2> QED BY <1>1, <2>3, <2>4, <2>5, <2>6 DEF Start, IssuerTypeOK, Answers, Places
<1>2. ASSUME NEW c \in Callers, SleepOnHold(c) PROVE IssuerTypeOK'
    <2>1. PICK jitter \in Jitters :
              LET wait == Min2(holdLeft + jitter, budget[c]) IN
              /\ sleepLeft' = [sleepLeft EXCEPT ![c] = wait]
              /\ budget' = [budget EXCEPT ![c] = @ - wait]
        BY <1>2 DEF SleepOnHold
    <2> DEFINE wait == Min2(holdLeft + jitter, budget[c])
    <2>2. /\ holdLeft + jitter \in Nat /\ budget[c] \in 0..Budget /\ Budget \in Nat
        BY BoundsAssumption DEF IssuerTypeOK
    <2>3. wait \in Nat /\ wait <= budget[c]
        BY <2>2, MinMax
    <2>4. sleepLeft' \in [Callers -> Nat] /\ budget' \in [Callers -> 0..Budget]
        BY <2>1, <2>2, <2>3 DEF IssuerTypeOK
    <2> QED BY <1>2, <2>4 DEF SleepOnHold, Goto, netVars, IssuerTypeOK
<1>3. ASSUME NEW c \in Callers, RefuseHold(c) PROVE IssuerTypeOK'
    <2>1. written_on(c, written[c], "held") \in BOOLEAN
        BY WrittenType DEF IssuerTypeOK
    <2>2. written' \in [Callers -> BOOLEAN] /\ written'[c] \in BOOLEAN
        BY <1>3, <2>1 DEF RefuseHold, IssuerTypeOK
    <2>3. answer' \in [Callers -> Answers]
        BY <1>3, <2>2, AnswerType DEF RefuseHold, Tell, IssuerTypeOK, Answers
    <2> QED BY <1>3, <2>2, <2>3 DEF RefuseHold, Goto, netVars,
               IssuerTypeOK, Answers
<1>4. ASSUME NEW c \in Callers, Attempt(c) \/ Send(c) \/ IssuerSucceed(c) \/ Wake(c)
      PROVE  IssuerTypeOK'
    BY <1>4 DEF Attempt, Send, IssuerSucceed, Wake, Goto,
       netVars, IssuerTypeOK
<1>5. ASSUME NEW c \in Callers, NEW e, AuthFails(c, e) PROVE IssuerTypeOK'
    BY <1>5, AfterAttempt DEF AuthFails, IssuerTypeOK, Places, Answers
<1>6. ASSUME NEW c \in Callers, NEW e, SendFails(c, e) PROVE IssuerTypeOK'
    <2>1. wire' \in [Callers -> {"none", "out", "landed"}] /\ stray' \in [Callers -> BOOLEAN]
        BY <1>6 DEF SendFails, IssuerTypeOK
    <2>2. AttemptFailed(c, e)
        BY <1>6 DEF SendFails
    <2> QED BY <2>1, <2>2, AfterAttempt DEF IssuerTypeOK, Places, Answers
<1>7. ASSUME NEW c \in Callers, IssuerLand(c) PROVE IssuerTypeOK'
    <2>1. applied' \in [Callers -> BOOLEAN] /\ stray' \in [Callers -> BOOLEAN]
        BY <1>7 DEF IssuerLand, IssuerTypeOK
    <2> QED BY <1>7, <2>1 DEF IssuerLand, loopVars, IssuerTypeOK
<1>8. CASE Tick
    <2>1. holdLeft \in 0..MaxHold /\ MaxHold \in Nat /\ sleepLeft \in [Callers -> Nat]
        BY BoundsAssumption DEF IssuerTypeOK
    <2>2. holdLeft' \in 0..MaxHold
        BY <1>8, <2>1 DEF Tick, Max2
    <2>3. sleepLeft' \in [Callers -> Nat]
        BY <1>8, <2>1 DEF Tick, Max2
    <2>4. waited' \in [Callers -> Nat]
        BY <1>8 DEF Tick, IssuerTypeOK
    <2> QED BY <1>8, <2>2, <2>3, <2>4 DEF Tick, netVars, IssuerTypeOK
<1>9. CASE UNCHANGED issuerVars
    BY <1>9 DEF issuerVars, loopVars, netVars, IssuerTypeOK
<1> QED
    BY <1>1, <1>2, <1>3, <1>4, <1>5, <1>6, <1>7, <1>8, <1>9 DEF IssuerNext, Step

(* Every step keeps what is known of the requests. *)
LEMMA NextWrite ==
    IssuerTypeOK /\ WriteInv /\ [IssuerNext]_issuerVars => WriteInv'
<1> SUFFICES ASSUME IssuerTypeOK, WriteInv, [IssuerNext]_issuerVars PROVE WriteInv'
    OBVIOUS
<1> USE DEF WriteInv
<1>1. ASSUME NEW c \in Callers, Start(c) PROVE WriteInv'
    <2>1. \A d \in Callers \ {c} :
              call'[d] = call[d] /\ pc'[d] = pc[d] /\ answer'[d] = answer[d]
        BY <1>1 DEF Start, Goto, Tell, IssuerTypeOK
    <2>2. \A d \in Callers \ {c} :
              /\ wire'[d] = wire[d] /\ stray'[d] = stray[d] /\ applied'[d] = applied[d]
              /\ written'[d] = written[d]
        BY <1>1 DEF Start, IssuerTypeOK
    <2>3. wire'[c] = "none" /\ ~stray'[c] /\ ~applied'[c]
        BY <1>1 DEF Start, IssuerTypeOK
    <2> QED BY <2>1, <2>2, <2>3 DEF OnTheWire, UnwrittenSoFar, FailureIsTrue
<1>2. ASSUME NEW c \in Callers, SleepOnHold(c) \/ Attempt(c) \/ Wake(c)
      PROVE  WriteInv'
    <2>1. /\ UNCHANGED <<call, written, wire, stray, applied, answer>>
          /\ \A d \in Callers \ {c} : pc'[d] = pc[d]
          /\ pc[c] \in {"check", "holding", "backoff"}
          /\ pc'[c] \in {"holding", "auth", "check"}
        BY <1>2 DEF SleepOnHold, Attempt, Wake, Goto, netVars,
           IssuerTypeOK
    <2> QED BY <2>1 DEF OnTheWire, UnwrittenSoFar, FailureIsTrue
<1>3. ASSUME NEW c \in Callers, RefuseHold(c) PROVE WriteInv'
    <2>1. /\ pc[c] = "check" /\ pc' = [pc EXCEPT ![c] = "failed"]
          /\ written' = [written EXCEPT ![c] = written_on(c, written[c], "held")]
          /\ answer' = [answer EXCEPT ![c] = issuer_call(written'[c], "held")]
          /\ UNCHANGED <<call, wire, stray, applied>>
        BY <1>3 DEF RefuseHold, Goto, Tell, netVars
    <2>2. written_on(c, written[c], "held") \in BOOLEAN
        BY WrittenType DEF IssuerTypeOK
    <2>3. written'[c] = written_on(c, written[c], "held") /\ written'[c] \in BOOLEAN
        BY <2>1, <2>2 DEF IssuerTypeOK
    <2>4. answer'[c].code # "outcome_unknown" => ~written'[c]
        BY <2>1, <2>3, AnswerType DEF IssuerTypeOK
    <2>5. ~written'[c] => call[c] = "poll" \/ ~written[c]
        BY <2>3 DEF written_on
    <2>6. wire[c] = "none"
        BY <2>1 DEF OnTheWire
    <2>7. answer'[c].code # "outcome_unknown" => ~applied[c] /\ ~stray[c]
        BY <2>1, <2>4, <2>5, <2>6 DEF OnTheWire, UnwrittenSoFar
    <2>8. OnTheWire'
        BY <2>1, <2>6 DEF OnTheWire, IssuerTypeOK
    <2>9. UnwrittenSoFar'
        BY <2>1 DEF UnwrittenSoFar, IssuerTypeOK
    <2>10. FailureIsTrue'
        BY <2>1, <2>7 DEF FailureIsTrue, IssuerTypeOK
    <2> QED BY <2>8, <2>9, <2>10
<1>4. ASSUME NEW c \in Callers, Send(c) PROVE WriteInv'
    <2>1. wire[c] = "none" /\ pc[c] = "auth"
        BY <1>4 DEF Send, OnTheWire
    <2> QED BY <1>4, <2>1 DEF Send, Goto, IssuerTypeOK, OnTheWire, UnwrittenSoFar,
               FailureIsTrue
<1>5. ASSUME NEW c \in Callers, IssuerSucceed(c) PROVE WriteInv'
    BY <1>5 DEF IssuerSucceed, Goto, IssuerTypeOK, OnTheWire, UnwrittenSoFar, FailureIsTrue
<1>6. ASSUME NEW c \in Callers, NEW e, AttemptFailed(c, e),
             wire' \in [Callers -> {"none", "out", "landed"}], wire'[c] = "none",
             stray' \in [Callers -> BOOLEAN],
             \A d \in Callers \ {c} : wire'[d] = wire[d] /\ stray'[d] = stray[d],
             call[c] = "poll" => ~stray'[c],
             ~written_on(c, writtenAfter(c, e), e) /\ call[c] # "poll"
                => ~stray'[c] /\ ~applied[c]
      PROVE  WriteInv'
    <2>1. /\ UNCHANGED <<call, applied>>
          /\ \A d \in Callers \ {c} :
                pc'[d] = pc[d] /\ written'[d] = written[d] /\ answer'[d] = answer[d]
          /\ \/ /\ pc'[c] = "backoff" /\ is_retryable(e)
                /\ written'[c] = writtenAfter(c, e)
             \/ /\ pc'[c] = "failed"
                /\ answer'[c].code # "outcome_unknown"
                      => ~written_on(c, writtenAfter(c, e), e)
        BY <1>6, AfterAttempt
    <2>2. OnTheWire'
        BY <1>6, <2>1 DEF OnTheWire
    <2>3. is_retryable(e) /\ ~writtenAfter(c, e)
            => ~written_on(c, writtenAfter(c, e), e)
        BY DEF is_retryable, written_on
    <2>4. UnwrittenSoFar'
        BY <1>6, <2>1, <2>3 DEF UnwrittenSoFar, OnTheWire
    <2>5. FailureIsTrue'
        BY <1>6, <2>1 DEF FailureIsTrue, OnTheWire
    <2> QED BY <2>2, <2>4, <2>5
<1>7. ASSUME NEW c \in Callers, NEW e, AuthFails(c, e) PROVE WriteInv'
    <2>1. /\ pc[c] = "auth" /\ AttemptFailed(c, e) /\ UNCHANGED <<wire, stray>>
          /\ wire[c] = "none"
        BY <1>7 DEF AuthFails, OnTheWire
    <2>2. ~written_on(c, writtenAfter(c, e), e) /\ call[c] # "poll" => ~written[c]
        BY DEF written_on, writtenAfter
    <2>3. ~written[c] => ~stray[c] /\ ~applied[c]
        BY <2>1 DEF UnwrittenSoFar
    <2> QED BY <1>6, <2>1, <2>2, <2>3 DEF IssuerTypeOK, OnTheWire
<1>8. ASSUME NEW c \in Callers, NEW e \in SendErrors, SendFails(c, e) PROVE WriteInv'
    <2>1. /\ pc[c] = "inflight" /\ AttemptFailed(c, e)
          /\ e \in {"connect", "429", "4xx"} => wire[c] = "out"
          /\ wire' = [wire EXCEPT ![c] = "none"]
          /\ stray' = [stray EXCEPT
                          ![c] = @ \/ (e \in {"lost", "5xx", "408", "3xx", "ambiguous"}
                                       /\ wire[c] = "out" /\ call[c] # "poll")]
        BY <1>8 DEF SendFails
    <2>2. /\ stray' \in [Callers -> BOOLEAN]
          /\ stray'[c] = (stray[c] \/ (e \in {"lost", "5xx", "408", "3xx", "ambiguous"}
                                       /\ wire[c] = "out" /\ call[c] # "poll"))
        BY <2>1 DEF IssuerTypeOK
    <2>3. /\ wire' \in [Callers -> {"none", "out", "landed"}] /\ wire'[c] = "none"
          /\ \A d \in Callers \ {c} : wire'[d] = wire[d] /\ stray'[d] = stray[d]
        BY <2>1 DEF IssuerTypeOK
    <2>4. call[c] = "poll" => ~stray'[c]
        BY <2>2 DEF OnTheWire
    <2>5. ASSUME ~written_on(c, writtenAfter(c, e), e), call[c] # "poll"
          PROVE  ~stray'[c] /\ ~applied[c]
        <3>1. ~written[c] /\ ~may_have_reached_alpaca(e) /\ e # "ambiguous"
            BY <2>5 DEF written_on, writtenAfter
        <3>2. e \in {"connect", "429", "4xx"}
            BY <3>1 DEF may_have_reached_alpaca, SendErrors
        <3>3. ~stray[c] /\ ~applied[c]
            BY <2>1, <3>1, <3>2 DEF UnwrittenSoFar
        <3> QED BY <2>2, <3>2, <3>3
    <2> QED BY <1>6, <2>1, <2>2, <2>3, <2>4, <2>5
<1>9. ASSUME NEW c \in Callers, IssuerLand(c) PROVE WriteInv'
    <2>1. /\ call[c] # "poll" /\ applied' = [applied EXCEPT ![c] = TRUE]
          /\ UNCHANGED <<call, pc, written, answer>>
          /\ \/ /\ wire[c] = "out" /\ wire' = [wire EXCEPT ![c] = "landed"]
                /\ UNCHANGED stray
             \/ /\ stray[c] /\ stray' = [stray EXCEPT ![c] = FALSE]
                /\ UNCHANGED wire
        BY <1>9 DEF IssuerLand, loopVars
    <2>2. OnTheWire'
        BY <2>1 DEF OnTheWire, IssuerTypeOK
    <2>3. UnwrittenSoFar'
        BY <2>1 DEF UnwrittenSoFar, IssuerTypeOK
    <2>4. FailureIsTrue'
        BY <2>1 DEF FailureIsTrue, OnTheWire, IssuerTypeOK
    <2> QED BY <2>2, <2>3, <2>4
<1>10. CASE Tick \/ UNCHANGED issuerVars
    BY <1>10 DEF Tick, issuerVars, loopVars, netVars, OnTheWire,
       UnwrittenSoFar, FailureIsTrue
<1> QED
    BY <1>1, <1>2, <1>3, <1>4, <1>5, <1>7, <1>8, <1>9, <1>10 DEF IssuerNext, Step

(* Every step keeps the split of the wait budget: a sleep on the hold is     *)
(* taken off the budget when it starts, and only time slept is added back.   *)
LEMMA NextBudget ==
    IssuerTypeOK /\ BudgetSplit /\ [IssuerNext]_issuerVars => BudgetSplit'
<1> SUFFICES ASSUME IssuerTypeOK, BudgetSplit, [IssuerNext]_issuerVars PROVE BudgetSplit'
    OBVIOUS
<1>0. \A c \in Callers : /\ budget[c] \in Nat /\ waited[c] \in Nat /\ sleepLeft[c] \in Nat
                         /\ Budget \in Nat /\ holdLeft \in Nat
    BY BoundsAssumption DEF IssuerTypeOK
<1>1. ASSUME NEW c \in Callers, Start(c) PROVE BudgetSplit'
    <2>1. /\ waited'[c] = 0 /\ budget'[c] = Budget /\ pc'[c] # "holding"
          /\ \A d \in Callers \ {c} : /\ waited'[d] = waited[d] /\ budget'[d] = budget[d]
                                      /\ pc'[d] = pc[d] /\ sleepLeft'[d] = sleepLeft[d]
        BY <1>1 DEF Start, Goto, IssuerTypeOK
    <2> QED BY <1>0, <2>1 DEF BudgetSplit
<1>2. ASSUME NEW c \in Callers, SleepOnHold(c) PROVE BudgetSplit'
    <2>1. PICK jitter \in Jitters :
              LET wait == Min2(holdLeft + jitter, budget[c]) IN
              /\ sleepLeft' = [sleepLeft EXCEPT ![c] = wait]
              /\ budget' = [budget EXCEPT ![c] = @ - wait]
        BY <1>2 DEF SleepOnHold
    <2> DEFINE wait == Min2(holdLeft + jitter, budget[c])
    <2>2. holdLeft + jitter \in Nat
        BY <1>0, BoundsAssumption
    <2>3. wait \in Nat
        BY <1>0, <2>2, MinMax
    <2>4. /\ sleepLeft'[c] = wait /\ budget'[c] = budget[c] - wait /\ waited' = waited
          /\ \A d \in Callers \ {c} : /\ budget'[d] = budget[d] /\ pc'[d] = pc[d]
                                      /\ sleepLeft'[d] = sleepLeft[d]
        BY <1>2, <2>1 DEF SleepOnHold, Goto, IssuerTypeOK
    <2> HIDE DEF wait
    <2>5. /\ waited'[c] + budget'[c] <= Budget
          /\ waited'[c] + sleepLeft'[c] + budget'[c] <= Budget
        BY <1>0, <2>3, <2>4 DEF BudgetSplit
    <2> QED BY <2>4, <2>5 DEF BudgetSplit
<1>3. ASSUME NEW c \in Callers, UNCHANGED <<budget, waited>>, pc'[c] # "holding",
             \A d \in Callers \ {c} : pc'[d] = pc[d] /\ sleepLeft'[d] = sleepLeft[d]
      PROVE  BudgetSplit'
    BY <1>3 DEF BudgetSplit
<1>4. ASSUME NEW c \in Callers,
             RefuseHold(c) \/ Attempt(c) \/ Send(c) \/ IssuerSucceed(c)
                     \/ Wake(c)
      PROVE  BudgetSplit'
    <2>1. /\ UNCHANGED <<budget, waited>> /\ pc'[c] # "holding"
          /\ \A d \in Callers \ {c} : pc'[d] = pc[d] /\ sleepLeft'[d] = sleepLeft[d]
        BY <1>4 DEF RefuseHold, Attempt, Send, IssuerSucceed, Wake,
           Goto, IssuerTypeOK
    <2> QED BY <1>3, <2>1
<1>5. ASSUME NEW c \in Callers, NEW e, AuthFails(c, e) \/ SendFails(c, e)
      PROVE  BudgetSplit'
    <2>1. AttemptFailed(c, e)
        BY <1>5 DEF AuthFails, SendFails
    <2>2. /\ UNCHANGED <<budget, waited>> /\ pc'[c] # "holding"
          /\ \A d \in Callers \ {c} : pc'[d] = pc[d] /\ sleepLeft'[d] = sleepLeft[d]
        BY <2>1, AfterAttempt
    <2> QED BY <1>3, <2>2
<1>6. CASE Tick
    <2>1. ASSUME NEW c \in Callers
          PROVE  /\ waited'[c] + budget'[c] <= Budget
                 /\ pc'[c] = "holding" => waited'[c] + sleepLeft'[c] + budget'[c] <= Budget
        <3>1. /\ budget'[c] = budget[c] /\ pc'[c] = pc[c]
              /\ sleepLeft'[c] = Max2(sleepLeft[c] - 1, 0)
              /\ waited'[c] = IF pc[c] = "holding" /\ sleepLeft[c] > 0
                              THEN waited[c] + 1 ELSE waited[c]
            BY <1>6 DEF Tick
        <3>2. /\ waited[c] + budget[c] <= Budget
              /\ pc[c] = "holding" => waited[c] + sleepLeft[c] + budget[c] <= Budget
            BY DEF BudgetSplit
        <3> QED BY <1>0, <3>1, <3>2 DEF Max2
    <2> QED BY <2>1 DEF BudgetSplit
<1>7. CASE (\E c \in Callers : IssuerLand(c)) \/ UNCHANGED issuerVars
    BY <1>7 DEF IssuerLand, issuerVars, loopVars, BudgetSplit
<1> QED BY <1>1, <1>2, <1>4, <1>5, <1>6, <1>7 DEF IssuerNext, Step

(* The invariant holds of every behaviour. *)
LEMMA RetryInvariant ==
    IssuerSpec => []RetryInv
<1>1. RetryInv /\ [IssuerNext]_issuerVars => RetryInv'
    BY NextType, NextWrite, NextBudget DEF RetryInv
<1>2. IssuerInit => RetryInv
    BY RetryStart
<1> QED BY <1>1, <1>2, PTL DEF IssuerSpec

(* What the answer of a failed issuer call promises (answer.rs issuer_call   *)
(* over retry_attempts of core.rs): anything but outcome_unknown means that  *)
(* no attempt of the call changed anything at Alpaca, or still can.          *)
THEOREM UnwrittenIsUntouchedHolds ==
    IssuerSpec => []UnwrittenIsUntouched
<1>1. RetryInv => UnwrittenIsUntouched
    BY DEF RetryInv, WriteInv, OnTheWire, FailureIsTrue, UnwrittenIsUntouched
<1>2. IssuerSpec => []RetryInv
    BY RetryInvariant
<1> QED BY <1>1, <1>2, PTL

(* However the callers that share one Retry-After hold extend it, none       *)
(* sleeps on it beyond RETRY_AFTER_BUDGET, and the hold itself stays within  *)
(* MAX_RETRY_AFTER_HOLD.                                                     *)
THEOREM WaitsWithinBudgetHolds ==
    IssuerSpec => []WaitsWithinBudget
<1>1. RetryInv => WaitsWithinBudget
    BY DEF RetryInv, BudgetSplit, WaitsWithinBudget
<1>2. IssuerSpec => []RetryInv
    BY RetryInvariant
<1> QED BY <1>1, <1>2, PTL
=============================================================================
