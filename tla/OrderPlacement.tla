--------------------------- MODULE OrderPlacement ---------------------------
(***************************************************************************)
(* Placing an equity order under a client order id (src/broker/order.rs,   *)
(* src/broker/api.rs): sizing, the POST, the adoption of the order a       *)
(* duplicate key names, the read back, recovery by key and the status      *)
(* read, next to the broker and to the caller, who are external. The       *)
(* caller hedges Need units and keeps the rules its side of the contract   *)
(* states: it resends under the same key once an attempt may have been     *)
(* written, and takes a new key only when nothing was written under the    *)
(* old one or its order has ended.                                         *)
(***************************************************************************)
EXTENDS Integers, Functions

CONSTANTS
    Need,         \* what is to be hedged, in the smallest unit
    Whole,        \* the units of a whole share
    Prices,       \* the limit prices
    NoPrice,      \* a market order's
    MaxKeys,      \* bound: keys the caller uses
    MaxAttempts   \* bound: placements the caller asks for

ASSUME PlacementAssumption ==
    /\ {Need, Whole, MaxKeys} \subseteq Nat \ {0}
    /\ MaxAttempts \in Nat
    /\ NoPrice \notin Prices

VARIABLES
    order,      \* the broker's order under each key
    stray,      \* POSTs whose answer was lost and which may still land
    key,        \* the caller's key
    dirty,      \* an attempt under it may have been written
    remaining,  \* what the caller knows is still to be hedged
    attempt,    \* attempts so far
    pc,         \* where the current attempt is
    request,    \* what it sends
    placement,  \* the OrderPlacement it built or returned
    unwritten   \* history: the attempts that reported written = false

brokerVars == <<order, stray>>
callerVars == <<key, dirty, remaining, attempt>>
vars == <<brokerVars, callerVars, pc, request, placement, unwritten>>

Keys == 1..MaxKeys
Terms == {[ext |-> FALSE, limit |-> NoPrice]} \cup [ext : BOOLEAN, limit : Prices]

\* Statuses by what the broker may still do: "working" has not ended, an
\* order leaves "paused" (replaced, suspended, calculated) again, and a Day
\* order ends with done_for_day.
Ended == {"filled", "canceled", "expired", "rejected", "done_for_day"}

NoOrder == [by |-> 0, shares |-> 0, filled |-> 0, status |-> "none",
            ext |-> FALSE, limit |-> NoPrice]
NoRequest == [by |-> 0, shares |-> 0, ext |-> FALSE, limit |-> NoPrice]
NoPlacement == [via |-> "none", shares |-> 0, ext |-> FALSE, limit |-> NoPrice]

Init ==
    /\ order = [k \in Keys |-> NoOrder]
    /\ stray = [k \in Keys |-> {}]
    /\ key = 1 /\ dirty = FALSE
    /\ remaining = Need
    /\ attempt = 0
    /\ pc = "idle"
    /\ request = NoRequest
    /\ placement = NoPlacement
    /\ unwritten = {}

-----------------------------------------------------------------------------
(* The broker (external) *)

Free(k) == order[k].status = "none"

Created(r) ==
    [by |-> r.by, shares |-> r.shares, filled |-> 0, status |-> "working",
     ext |-> r.ext, limit |-> r.limit]

Land(k) ==
    /\ \E r \in stray[k] :
          /\ stray' = [stray EXCEPT ![k] = @ \ {r}]
          /\ order' = IF Free(k) THEN [order EXCEPT ![k] = Created(r)] ELSE order
    /\ UNCHANGED <<callerVars, pc, request, placement, unwritten>>

\* An order fills by units, ends, pauses and resumes, a cancel of the caller
\* included.
Move(k) ==
    /\ \/ /\ order[k].status = "working"
          /\ \/ order' = [order EXCEPT ![k].filled = @ + 1,
                                       ![k].status = IF order[k].filled + 1 = order[k].shares
                                                     THEN "filled" ELSE "working"]
             \/ \E s \in (Ended \ {"filled"}) \cup {"paused"} :
                   order' = [order EXCEPT ![k].status = s]
       \/ /\ order[k].status = "paused"
          /\ order' = [order EXCEPT ![k].status = "working"]
    /\ UNCHANGED <<stray, callerVars, pc, request, placement, unwritten>>

-----------------------------------------------------------------------------
(* A placement *)

\* The end of an attempt with an error, and the caller's note of it.
Fail(written) ==
    /\ pc' = "idle"
    /\ dirty' = (dirty \/ written)
    /\ unwritten' = IF written THEN unwritten ELSE unwritten \cup {attempt}
    /\ request' = NoRequest
    /\ placement' = NoPlacement
    /\ UNCHANGED <<key, remaining, attempt>>

\* truncate_to_decimal_places, 0 when nothing is left.
truncate(shares, fractional) == IF fractional THEN shares ELSE shares - (shares % Whole)

\* prepare_counter_trade_shares: the asset read, its validation, the size.
prepare_order_shares_for_placement(shares, asset) ==
    IF asset \in {"unread", "refused"} THEN 0
    ELSE truncate(shares, asset = "fractional")

\* The caller asks for a market or limit order over what is left.
Place ==
    /\ pc = "idle" /\ attempt < MaxAttempts /\ remaining > 0
    /\ \E terms \in Terms, shares \in 1..remaining :
          request' = [by |-> attempt + 1, shares |-> shares,
                      ext |-> terms.ext, limit |-> terms.limit]
    /\ attempt' = attempt + 1
    /\ pc' = "prepare"
    /\ UNCHANGED <<brokerVars, key, dirty, remaining, placement, unwritten>>

Prepare ==
    /\ pc = "prepare"
    /\ \E asset \in {"unread", "refused", "whole", "fractional"} :
          LET shares == prepare_order_shares_for_placement(request.shares, asset) IN
          IF shares = 0 THEN Fail(FALSE)
          ELSE /\ request' = [request EXCEPT !.shares = shares]
               /\ pc' = "post"
               /\ UNCHANGED <<callerVars, placement, unwritten>>
    /\ UNCHANGED brokerVars

\* What a placement reports of an order just accepted: the request's terms.
Fresh == [via |-> "fresh", shares |-> request.shares,
          ext |-> request.ext, limit |-> request.limit]

PostAccepted ==
    /\ pc = "post" /\ Free(key)
    /\ order' = [order EXCEPT ![key] = Created(request)]
    /\ placement' = Fresh
    /\ pc' = "placed_at"
    /\ UNCHANGED <<stray, callerVars, request, unwritten>>

\* The duplicate key 422.
PostDuplicate ==
    /\ pc = "post" /\ ~Free(key)
    /\ pc' = "duplicate"
    /\ UNCHANGED <<brokerVars, callerVars, request, placement, unwritten>>

PostErrors == {"not_sent", "rejected", "request_timeout", "lost"}

\* Mutant: every 4xx is a definite rejection, a 408 too.
reachedUnless4xx(error) == error = "lost"

may_have_reached_alpaca(error) == error \in {"request_timeout", "lost"}

\* A 408, a 5xx, a timeout or an answer cut short: the order may be there, may
\* come later or never. The rest left nothing.
PostFails(error) ==
    /\ pc = "post"
    /\ IF error \in {"not_sent", "rejected"} THEN UNCHANGED brokerVars
       ELSE \/ UNCHANGED brokerVars
            \/ stray' = [stray EXCEPT ![key] = @ \cup {request}] /\ UNCHANGED order
            \/ /\ Free(key)
               /\ order' = [order EXCEPT ![key] = Created(request)]
               /\ UNCHANGED stray
    /\ Fail(may_have_reached_alpaca(error))

\* Mutant: the size asked for, not the one held.
adoptAsked(held, echo) ==
    [via |-> "adopted", shares |-> request.shares, ext |-> held.ext, limit |-> held.limit]

\* What an adoption reports of the order found. The answer may leave out the
\* flag or the price: a market placement then says FALSE and none, a limit
\* one what it asked for, also for the price of an order that has none.
adopt(held, echo) ==
    [via |-> "adopted", shares |-> held.shares,
     ext |-> IF "ext" \in echo THEN held.ext ELSE request.ext,
     limit |-> IF "limit" \in echo /\ held.limit # NoPrice
               THEN held.limit ELSE request.limit]

\* find_duplicate_order has its answer.
DuplicateRead ==
    /\ pc = "duplicate"
    /\ \E echo \in SUBSET {"ext", "limit"} : placement' = adopt(order[key], echo)
    /\ pc' = "placed_at"
    /\ UNCHANGED <<brokerVars, callerVars, request, unwritten>>

\* The lookup fails, finds nothing or cannot be parsed; or the time of the
\* order is missing and the read for it fails. An order exists by then.
ReadBackFails ==
    /\ pc \in {"duplicate", "placed_at"}
    /\ Fail(TRUE)
    /\ UNCHANGED brokerVars

\* broker_order_placed_at has its time: the placement returns.
Placed ==
    /\ pc = "placed_at"
    /\ pc' = "held"
    /\ UNCHANGED <<brokerVars, callerVars, request, placement, unwritten>>

\* recover_order_by_client_id, which submits nothing. An answer without the
\* flag, or without a price for an extended hours order, is an error.
recovered(held, echo) ==
    [via |-> "recovered", shares |-> held.shares, ext |-> held.ext,
     limit |-> IF echo THEN held.limit ELSE NoPrice]

Recover ==
    /\ pc = "idle" /\ dirty /\ ~Free(key)
    /\ \E echo \in BOOLEAN :
          /\ order[key].ext => echo
          /\ placement' = recovered(order[key], echo)
    /\ pc' = "held"
    /\ UNCHANGED <<brokerVars, callerVars, request, unwritten>>

-----------------------------------------------------------------------------
(* The status of a held order and the caller's use of it *)

\* Mutant: a suspended order counts as over.
overIfFailed(status) ==
    IF status = "working" THEN "submitted"
    ELSE IF status \in {"filled", "canceled"} THEN status ELSE "failed_terminal"

\* classify_broker_status.
classify_broker_status(status) ==
    IF status = "working" THEN "submitted"
    ELSE IF status \in {"filled", "canceled"} THEN status
    ELSE IF status = "paused" THEN "failed_not_terminal" ELSE "failed_terminal"

KeyReleased == {"filled", "canceled", "failed_terminal"}

\* get_order_status reports an end: the caller takes off what was filled and
\* goes on under a new key.
StatusEnded ==
    /\ pc = "held" /\ key < MaxKeys
    /\ classify_broker_status(order[key].status) \in KeyReleased
    /\ remaining' = remaining - order[key].filled
    /\ key' = key + 1 /\ dirty' = FALSE
    /\ pc' = "idle"
    /\ request' = NoRequest /\ placement' = NoPlacement
    /\ UNCHANGED <<brokerVars, attempt, unwritten>>

\* Nothing was written under the key, so the caller may give it up.
NewKey ==
    /\ pc = "idle" /\ ~dirty /\ attempt > 0 /\ key < MaxKeys
    /\ key' = key + 1
    /\ UNCHANGED <<brokerVars, dirty, remaining, attempt, pc, request, placement,
                   unwritten>>

-----------------------------------------------------------------------------

Next ==
    \/ \E k \in Keys : Land(k) \/ Move(k)
    \/ Place \/ Prepare
    \/ PostAccepted \/ PostDuplicate \/ \E error \in PostErrors : PostFails(error)
    \/ DuplicateRead \/ ReadBackFails \/ Placed \/ Recover
    \/ StatusEnded \/ NewKey

Spec == Init /\ [][Next]_vars

-----------------------------------------------------------------------------
(* Properties *)

Amount == 0..Need
Limits == Prices \cup {NoPrice}

TypeOK ==
    /\ order \in [Keys -> [by : 0..MaxAttempts, shares : Amount, filled : Amount,
                           status : Ended \cup {"none", "working", "paused"},
                           ext : BOOLEAN, limit : Limits]]
    /\ \A k \in Keys : stray[k] \subseteq
          [by : 1..MaxAttempts, shares : 1..Need, ext : BOOLEAN, limit : Limits]
    /\ key \in Keys /\ dirty \in BOOLEAN
    /\ remaining \in Amount /\ attempt \in 0..MaxAttempts
    /\ pc \in {"idle", "prepare", "post", "duplicate", "placed_at", "held"}
    /\ request \in [by : 0..MaxAttempts, shares : Amount, ext : BOOLEAN, limit : Limits]
    /\ placement \in [via : {"none", "fresh", "adopted", "recovered"},
                      shares : Amount, ext : BOOLEAN, limit : Limits]
    /\ unwritten \subseteq 1..MaxAttempts

\* What PlacementError says: an attempt with written = false has no order, and
\* will have none however late the broker acts.
UnwrittenMeansNoOrder ==
    \A k \in Keys :
        /\ order[k].by \notin unwritten
        /\ \A r \in stray[k] : r.by \notin unwritten

\* A placement a caller holds names an order the broker holds, of the size
\* reported whichever attempt created it. A fresh one has its terms, and one
\* recovered is never taken for a regular order when it is not, or priced
\* otherwise.
PlacementIsHeld ==
    pc = "held" =>
        /\ ~Free(key)
        /\ placement.shares = order[key].shares
        /\ placement.via # "adopted" => placement.ext = order[key].ext
        /\ placement.via = "fresh" \/ (placement.via = "recovered" /\ order[key].ext)
              => placement.limit = order[key].limit

\* However attempts are lost, resent, recovered and released, the position is
\* never hedged beyond what was needed.
NeverHedgedTwice == SumFunction([k \in Keys |-> order[k].filled]) <= Need
=============================================================================
