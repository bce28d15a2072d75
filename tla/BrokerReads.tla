----------------------------- MODULE BrokerReads -----------------------------
(***************************************************************************)
(* The broker client's reads (src/broker: market_hours.rs, activity.rs,     *)
(* positions.rs, market_data.rs, api.rs): each takes one or several         *)
(* requests, while the exchange, the account and the caches move on.        *)
(* Readers all make the same kind of read, chosen at the start; what the     *)
(* other kinds look at stands still. They share the asset cache and nothing  *)
(* else, so only its readers overlap.                                       *)
(***************************************************************************)
EXTENDS Integers, Sequences, SequencesExt, FiniteSets, FiniteSetsExt

CONSTANTS
    Readers,
    Minutes,        \* the minutes of a day looked at
    PAGE_SIZE,      \* ACCOUNT_ACTIVITIES_PAGE_SIZE
    MaxPages,       \* max_pages
    MaxRows,        \* bound: activity rows
    TTL,            \* asset_cache_ttl
    FetchTimeout,   \* the HTTP client's request timeout
    MaxTick         \* bound: ticks of the asset cache's clock

ASSUME ReadAssumption ==
    /\ {PAGE_SIZE, MaxPages} \subseteq Nat \ {0}
    /\ {MaxRows, TTL, FetchTimeout, MaxTick} \subseteq Nat
    /\ Minutes \subseteq 0..1439 /\ Minutes # {}

VARIABLES
    op,             \* the kind of read
    now,            \* minutes (session) or ticks (asset)
    trading,        \* trading days, among them those that close early
    early,
    rows,           \* the account's activities, oldest first: TRUE if of a type asked for
    honest,         \* whether page tokens are followed
    asset,          \* the asset as Alpaca holds it, and since when it does
    account,        \* shares, USDC (total and locked) and cash
    order,          \* the order whose status is read
    cache,          \* asset_cache: the asset, when it was read, and cached_at
    read            \* per reader: stage, the moment asked, what was read

readVars == <<op, now, trading, early, rows, honest, asset, account, order, cache, read>>
world == <<trading, early, rows, honest, asset, account, order>>

DAY == 1440
Day(t) == t \div DAY
Minute(t) == t % DAY
MaxDay == 5
None == [kind |-> "none"]
Idle == [stage |-> "idle", asked |-> 0, token |-> 0, pages |-> 0, found |-> <<>>, start |-> 0,
         answer |-> None]

Answer(r, a) == read' = [read EXCEPT ![r].stage = "done", ![r].answer = a]
Error == [kind |-> "error"]

-----------------------------------------------------------------------------
(* The market session *)

\* CalendarDay: open, close, session_open and session_close, in minutes.
OPEN == 570
close(day) == IF day \in early THEN 780 ELSE 960
SESSION_OPEN == 240
session_close(day) == IF day \in early THEN 1020 ELSE 1200

\* get_calendar: the trading days of the range; when there is none, nothing or
\* the nearest trading day, later or earlier.
get_calendar(start, end) ==
    LET in == {d \in trading : start <= d /\ d <= end}
        after == {d \in trading : d > end}
        before == {d \in trading : d < start}
    IN  IF in # {} THEN {in}
        ELSE {{}} \cup (IF after = {} THEN {} ELSE {{Min(after)}})
                  \cup (IF before = {} THEN {} ELSE {{Max(before)}})

\* Mutant: the evening of a day that does not trade is closed.
sessionOfToday(t, calendar) ==
    LET today == Day(t) m == Minute(t) IN
    IF today \notin calendar THEN "Closed"
    ELSE IF OPEN <= m /\ m < close(today) THEN "Regular"
    ELSE IF SESSION_OPEN <= m /\ m < session_close(today) THEN "Extended"
    ELSE IF m >= 20 * 60 /\ (today + 1) \in calendar THEN "Overnight"
    ELSE IF m < 4 * 60 THEN "Overnight"
    ELSE "Closed"

\* session_and_close_at: the session at t, from the calendar of its day and the next.
session_at(t, calendar) ==
    LET today == Day(t)
        m == Minute(t)
        evening == m >= 20 * 60 /\ (today + 1) \in calendar
    IN  IF today \notin calendar THEN (IF evening THEN "Overnight" ELSE "Closed")
        ELSE IF OPEN <= m /\ m < close(today) THEN "Regular"
        ELSE IF SESSION_OPEN <= m /\ m < session_close(today) THEN "Extended"
        ELSE IF evening \/ m < 4 * 60 THEN "Overnight"
        ELSE "Closed"

\* The close metadata of a session: minutes since day 0, 0 for none.
session_opens_at(t, s) == IF s = "Extended" THEN Day(t) * DAY + SESSION_OPEN ELSE 0
session_closes_at(t, s) ==
    CASE s = "Regular" -> Day(t) * DAY + close(Day(t))
      [] s = "Extended" -> Day(t) * DAY + session_close(Day(t))
      [] OTHER -> 0

\* classify_post_close_gap: by the first trading day after today.
classify_post_close_gap(today, calendar) ==
    LET next == {d \in calendar : d > today} IN
    IF next = {} THEN "Unknown"
    ELSE IF Min(next) = today + 1 THEN "OrdinaryOvernight"
    ELSE "MultiDayClosure"

Session(t, s, gap) ==
    [kind |-> "session", at |-> t, session |-> s, gap |-> gap,
     opens |-> session_opens_at(t, s), closes |-> session_closes_at(t, s)]

\* market_session_status: now is read, then the calendar is asked. A day
\* before the one asked about is an error; a later one is no evidence.
AskSession(r) ==
    /\ op = "session" /\ read[r].stage = "idle"
    /\ read' = [read EXCEPT ![r].stage = "calendar", ![r].asked = now]
    /\ UNCHANGED <<op, now, world, cache>>

CalendarAnswers(r) ==
    /\ op = "session" /\ read[r].stage = "calendar"
    /\ LET t == read[r].asked IN
       \E calendar \in get_calendar(Day(t), Day(t) + 1) :
          LET s == session_at(t, calendar) IN
          IF \E d \in calendar : d < Day(t) THEN Answer(r, Error)
          ELSE IF s = "Extended" THEN read' = [read EXCEPT ![r].stage = "gap"]
          ELSE Answer(r, Session(t, s, "Unknown"))
    /\ UNCHANGED <<op, now, world, cache>>

\* Only an extended session asks for the gap; a failure leaves it unknown.
GapAnswers(r) ==
    /\ op = "session" /\ read[r].stage = "gap"
    /\ LET t == read[r].asked IN
       \E calendar \in {{}} \cup get_calendar(Day(t) + 1, MaxDay) :
          Answer(r, Session(t, "Extended", classify_post_close_gap(Day(t), calendar)))
    /\ UNCHANGED <<op, now, world, cache>>

-----------------------------------------------------------------------------
(* Account activities *)

Matching == {i \in 1..Len(rows) : rows[i]}

ascending(S) ==
    CHOOSE s \in [1..Cardinality(S) -> S] : \A i, j \in DOMAIN s : i < j => s[i] < s[j]

\* A page: the first PAGE_SIZE rows of the types asked for after the token.
After(token) == {i \in Matching : i > (IF honest THEN token ELSE 0)}
First(S) == {i \in S : Cardinality({j \in S : j < i}) < PAGE_SIZE}
Page(token) == ascending(First(After(token)))

\* Mutant: the token is the first row of a page.
firstId(page) == Head(page)

\* The token of the next page: the last row of this one.
last_id(page) == Last(page)

\* What get_account_activities does after a page.
after_page(page, token, pages) ==
    IF page = <<>> \/ Len(page) < PAGE_SIZE THEN "complete"
    ELSE IF last_id(page) = token THEN "PaginationInvariantViolation"
    ELSE IF pages = MaxPages THEN "PageLimitExceeded"
    ELSE "more"

\* get_account_activities, a page at a time.
FetchPage(r) ==
    /\ op = "activities" /\ read[r].stage \in {"idle", "paging"}
    /\ LET page == Page(read[r].token)
           found == read[r].found \o page
           next == after_page(page, read[r].token, read[r].pages + 1)
           begun == [read[r] EXCEPT !.found = found, !.pages = @ + 1,
                        !.start = IF read[r].stage = "idle" THEN Len(rows) ELSE @]
       IN  read' = [read EXCEPT ![r] =
             CASE next = "complete" ->
                    [begun EXCEPT !.stage = "done", !.answer = [kind |-> "rows", rows |-> found]]
               [] next = "more" -> [begun EXCEPT !.stage = "paging", !.token = last_id(page)]
               [] OTHER -> [begun EXCEPT !.stage = "done", !.answer = Error]]
    /\ UNCHANGED <<op, now, world, cache>>

RowArrives ==
    /\ op = "activities" /\ Len(rows) < MaxRows
    /\ \E wanted \in BOOLEAN : rows' = Append(rows, wanted)
    /\ UNCHANGED <<op, now, trading, early, honest, asset, account, order, cache, read>>

-----------------------------------------------------------------------------
(* The asset cache *)

\* CachedAsset::is_expired.
is_expired == now - cache.at > TTL

\* CachedAsset::from_response, inserted: cached_at is when the response is in.
insert(a, since) == cache' = [asset |-> a, since |-> since, at |-> now]

\* truncate_to_decimal_places, in tenths of a share: fractional or whole.
truncate_to_decimal_places(shares, decimals) == IF decimals = 0 THEN shares - (shares % 10) ELSE shares

\* validate_asset and prepare_counter_trade_shares; 0 shares is a deferral.
Prepared(a, shares, extended) ==
    IF a.status # "active" \/ ~a.tradable THEN Error
    ELSE [kind |-> "prepared", extended |-> extended, of |-> a,
          shares |-> truncate_to_decimal_places(shares,
              IF a.fractionable /\ (~extended \/ a.fractional_eh) THEN 9 ELSE 0)]

OrderShares == {13}

\* get_asset_cached: a fresh entry answers, else the asset is fetched.
AskAsset(r) ==
    /\ op = "asset" /\ read[r].stage = "idle"
    /\ IF cache.at >= 0 /\ ~is_expired
       THEN \E shares \in OrderShares, extended \in BOOLEAN :
               read' = [read EXCEPT ![r].stage = "done", ![r].start = cache.since, ![r].asked = now,
                            ![r].answer = Prepared(cache.asset, shares, extended)]
       ELSE read' = [read EXCEPT ![r].stage = "sent", ![r].asked = now]
    /\ UNCHANGED <<op, now, world, cache>>

\* Alpaca reads the asset; the response is on its way.
AssetServed(r) ==
    /\ op = "asset" /\ read[r].stage = "sent"
    /\ read' = [read EXCEPT ![r].stage = "served", ![r].start = now, ![r].found = <<asset>>]
    /\ UNCHANGED <<op, now, world, cache>>

AssetReceived(r) ==
    /\ op = "asset" /\ read[r].stage = "served"
    /\ insert(read[r].found[1], read[r].start)
    /\ \E shares \in OrderShares, extended \in BOOLEAN :
          Answer(r, Prepared(read[r].found[1], shares, extended))
    /\ UNCHANGED <<op, now, world>>

AssetChanges ==
    /\ op = "asset"
    /\ \/ asset' = [asset EXCEPT !.tradable = ~@]
       \/ asset.tradable /\ asset' = [asset EXCEPT !.fractionable = ~@]
    /\ UNCHANGED <<op, now, trading, early, rows, honest, account, order, cache, read>>

-----------------------------------------------------------------------------
(* Inventory: the positions, then the account's funds *)

\* The positions as listed: equities and the USDC pair, with their class and
\* exchange, either of which Alpaca may omit.
Listed(classed) ==
    {[symbol |-> "EQ", class |-> IF classed THEN "us_equity" ELSE "none", exchange |-> "none",
      available |-> account.shares, total |-> account.shares],
     [symbol |-> "USDCUSD", class |-> IF classed THEN "crypto" ELSE "none", exchange |-> "none",
      available |-> account.usdc - account.locked, total |-> account.usdc],
     [symbol |-> "BTCUSD", class |-> IF classed THEN "crypto" ELSE "none", exchange |-> "CRYPTO",
      available |-> 1, total |-> 1]}

is_non_equity(p) ==
    \/ p.symbol = "USDCUSD"
    \/ IF p.class # "none" THEN p.class # "us_equity" ELSE p.exchange = "CRYPTO"

\* alpaca_usdc_balance: what a withdrawal locks is still held.
alpaca_usdc_balance(positions) ==
    IF \E p \in positions : p.symbol = "USDCUSD"
    THEN (CHOOSE p \in positions : p.symbol = "USDCUSD").total
    ELSE 0

ReadPositions(r) ==
    /\ op = "inventory" /\ read[r].stage = "idle"
    /\ \E classed \in BOOLEAN :
         read' = [read EXCEPT ![r].stage = "funds", ![r].found = <<Listed(classed), account>>]
    /\ UNCHANGED <<op, now, world, cache>>

\* to_cash_value_cents, in tenths of a cent: fractional cents are an error.
to_cash_value_cents(cash) == IF cash % 10 # 0 THEN -1 ELSE cash \div 10

ReadFunds(r) ==
    /\ op = "inventory" /\ read[r].stage = "funds"
    /\ LET positions == read[r].found[1]
           cents == to_cash_value_cents(account.cash)
       IN  Answer(r, IF cents < 0 THEN Error
                     ELSE [kind |-> "inventory", usdc |-> alpaca_usdc_balance(positions),
                           equities |-> {p \in positions : ~is_non_equity(p)},
                           cents |-> cents, of |-> read[r].found[2]])
    /\ UNCHANGED <<op, now, world, cache>>

\* A withdrawal is locked and leaves, a share is sold, a tenth of a cent accrues.
AccountMoves ==
    /\ op = "inventory"
    /\ \/ account.locked = 0 /\ account.usdc > 0 /\ account' = [account EXCEPT !.locked = account.usdc]
       \/ account.locked > 0 /\ account' = [account EXCEPT !.locked = 0, !.usdc = @ - account.locked]
       \/ account.shares > 0 /\ account' = [account EXCEPT !.shares = @ - 1, !.cash = @ + 10]
       \/ account.cash < 12 /\ account' = [account EXCEPT !.cash = @ + 1]
    /\ UNCHANGED <<op, now, trading, early, rows, honest, asset, order, cache, read>>

-----------------------------------------------------------------------------
(* Prices *)

\* A position or quote as answered: the symbol it names, bid and ask (0 for a
\* missing one; the mark of a position is its ask), and whether it is dated.
PriceAnswers == [symbol : {"own", "other"}, equity : BOOLEAN, bid : {-1, 0, 1, 2}, ask : {-1, 0, 1, 2},
                 dated : BOOLEAN]

\* fetch_position_mark: no mark is no error.
Mark(p) ==
    IF p.symbol # "own" THEN Error
    ELSE IF ~p.equity \/ p.ask <= 0 THEN [kind |-> "no mark"]
    ELSE [kind |-> "price", of |-> p]

\* fetch_latest_trade_price: the symbol of the answer is not read.
Trade(p) == IF p.ask <= 0 THEN Error ELSE [kind |-> "trade", of |-> p]

\* fetch_latest_quote and fetch_latest_overnight_quote.
Quote(p, overnight) ==
    IF \/ p.symbol # "own"
       \/ p.bid <= 0 \/ p.ask <= 0 \/ p.ask < p.bid
       \/ overnight /\ ~p.dated
    THEN Error
    ELSE [kind |-> "quote", of |-> p, overnight |-> overnight]

ReadPrice(r) ==
    /\ op = "price" /\ read[r].stage = "idle"
    /\ \E p \in PriceAnswers :
         \/ Answer(r, Mark(p)) \/ Answer(r, Trade(p))
         \/ \E overnight \in BOOLEAN : Answer(r, Quote(p, overnight))
    /\ UNCHANGED <<op, now, world, cache>>

-----------------------------------------------------------------------------
(* The status of a day order *)

Live == {"new", "partially_filled", "suspended", "replaced", "calculated", "pending_cancel"}
Over == {"filled", "canceled", "expired", "rejected", "done_for_day"}

\* CryptoOrderFailureReason::terminality.
terminality(status) ==
    IF status \in {"expired", "rejected", "done_for_day"} THEN "Terminal" ELSE "NotTerminal"

\* classify_broker_status.
classify_broker_status(status) ==
    CASE status \in {"new", "pending_cancel"} -> "Submitted"
      [] status = "partially_filled" -> "PartiallyFilled"
      [] status = "filled" -> "Filled"
      [] status = "canceled" -> "Cancelled"
      [] OTHER -> "Failed"

\* AlpacaBrokerApi::get_order_status: a fill that is missing (-1) fails closed,
\* except on a failed order, where it stays unknown.
get_order_status(o, filled) ==
    LET state == classify_broker_status(o.status) IN
    IF state = "Submitted" THEN [kind |-> "order", state |-> state, filled |-> 0, of |-> o]
    ELSE IF state = "Failed"
    THEN [kind |-> "order", state |-> terminality(o.status), filled |-> filled, of |-> o]
    ELSE IF filled < 0 \/ (state = "Filled" /\ filled # o.quantity) THEN Error
    ELSE [kind |-> "order", state |-> state, filled |-> filled, of |-> o]

ReadOrder(r) ==
    /\ op = "order" /\ read[r].stage = "idle"
    /\ \E filled \in {-1, order.filled} : Answer(r, get_order_status(order, filled))
    /\ UNCHANGED <<op, now, world, cache>>

OrderMoves ==
    /\ op = "order" /\ order.status \in Live
    /\ \/ \E n \in (order.filled + 1)..order.quantity :
             order' = [order EXCEPT !.filled = n,
                          !.status = IF n = order.quantity THEN "filled" ELSE "partially_filled"]
       \/ \E s \in (Live \cup Over) \ {"filled", "partially_filled"} : order' = [order EXCEPT !.status = s]
    /\ UNCHANGED <<op, now, trading, early, rows, honest, asset, account, cache, read>>

-----------------------------------------------------------------------------

\* Any request fails: no token, a closed gate, no connection, a status, a body
\* that does not parse (a gap then stays unknown).
ReadFails(r) ==
    /\ read[r].stage \notin {"done", "gap"}
    /\ Answer(r, Error)
    /\ UNCHANGED <<op, now, world, cache>>

\* The caller has its answer; another call may follow.
Return(r) ==
    /\ op \in {"asset", "order"} /\ read[r].stage = "done"
    /\ read' = [read EXCEPT ![r] = Idle]
    /\ UNCHANGED <<op, now, world, cache>>

\* Time passes; no request outlasts its timeout.
Tick ==
    /\ \/ /\ op = "session" /\ \A r \in Readers : read[r].stage # "done"
          /\ LET later == {m \in Minutes : m > Minute(now)} IN
             IF later # {} THEN now' = Day(now) * DAY + Min(later)
             ELSE Day(now) < 3 /\ now' = (Day(now) + 1) * DAY + Min(Minutes)
       \/ /\ op = "asset" /\ now < MaxTick
          /\ \A r \in Readers : read[r].stage \in {"sent", "served"} => now - read[r].asked < FetchTimeout
          /\ \A r \in Readers : read[r].stage # "done"
          /\ now' = now + 1
    /\ UNCHANGED <<op, world, cache, read>>

Ops == {"session", "activities", "asset", "inventory", "price", "order"}

ReadInit(ops) ==
    /\ op \in ops
    /\ now \in IF op = "session" THEN {2 * DAY} ELSE {0}
    /\ IF op = "session"
       THEN /\ trading \in SUBSET (1..MaxDay) /\ early \in {{}, trading \cap {2}}
       ELSE trading = {} /\ early = {}
    /\ rows \in IF op = "activities" THEN UNION {[1..n -> BOOLEAN] : n \in 0..MaxRows} ELSE {<<>>}
    /\ honest \in IF op = "activities" THEN BOOLEAN ELSE {TRUE}
    /\ asset = [status |-> "active", tradable |-> TRUE, fractionable |-> TRUE, fractional_eh |-> FALSE]
    /\ account = [shares |-> 1, usdc |-> 2, locked |-> 0, cash |-> 10]
    /\ order = [status |-> "new", filled |-> 0, quantity |-> 2]
    /\ cache = [asset |-> asset, since |-> 0, at |-> -1]
    /\ read = [r \in Readers |-> Idle]

ReadNext ==
    \/ \E r \in Readers :
         /\ op = "asset" \/ r = CHOOSE q \in Readers : TRUE
         /\ \/ AskSession(r) \/ CalendarAnswers(r) \/ GapAnswers(r)
            \/ FetchPage(r) \/ AskAsset(r) \/ AssetServed(r) \/ AssetReceived(r)
            \/ ReadPositions(r) \/ ReadFunds(r) \/ ReadPrice(r) \/ ReadOrder(r)
            \/ ReadFails(r) \/ Return(r)
    \/ RowArrives \/ AssetChanges \/ AccountMoves \/ OrderMoves \/ Tick

ReadSpec == ReadInit(Ops) /\ [][ReadNext]_readVars

-----------------------------------------------------------------------------
(* Properties *)

\* The exchange at t: the overnight session of a trading day runs from 20:00
\* the evening before to 04:00.
Exchange(t) ==
    LET d == Day(t) IN
    IF d \in trading /\ OPEN <= Minute(t) /\ Minute(t) < close(d) THEN "Regular"
    ELSE IF d \in trading /\ SESSION_OPEN <= Minute(t) /\ Minute(t) < session_close(d)
    THEN "Extended"
    ELSE IF \E n \in trading : (n - 1) * DAY + 1200 <= t /\ t < n * DAY + 240 THEN "Overnight"
    ELSE "Closed"

SessionIsRight(a) ==
    /\ a.session = Exchange(a.at)
    /\ a.session \in {"Regular", "Extended"} => a.at < a.closes /\ a.opens <= a.at
    /\ a.gap = "OrdinaryOvernight" => Day(a.at) + 1 \in trading
    /\ a.gap = "MultiDayClosure" => Day(a.at) + 1 \notin trading

\* What reader x was answered is true of what it asked about.
AnswerIsRight(x) ==
    LET a == x.answer IN
    CASE a.kind = "session" -> SessionIsRight(a)
      [] a.kind = "prepared" -> x.start >= now - TTL - FetchTimeout /\ a.of.tradable
      [] a.kind = "inventory" -> a.usdc = a.of.usdc /\ {p.symbol : p \in a.equities} = {"EQ"}
      [] a.kind = "trade" -> a.of.ask > 0
      [] a.kind \in {"price", "quote"} ->
            /\ a.of.symbol = "own" /\ a.of.ask > 0
            /\ a.kind = "quote" =>
                  /\ 0 < a.of.bid /\ a.of.bid <= a.of.ask
                  /\ a.overnight => a.of.dated
      [] a.kind = "order" ->
            /\ a.state \in {"Terminal", "Filled", "Cancelled"} => a.of.status \in Over
            /\ a.state \in {"PartiallyFilled", "Filled", "Cancelled"} => a.filled = a.of.filled
      [] OTHER -> TRUE

\* Whatever a read answers was true of what it was asked about: the session of
\* the moment asked, though the calendar may answer with other days; an asset
\* no older than the cache's TTL and one request, whichever of two overlapping
\* fetches landed last; all the USDC Alpaca holds, what a withdrawal locks
\* included; a price that is positive, a mark or quote of the symbol asked for,
\* a quote uncrossed and, overnight, dated (a latest trade is whatever symbol
\* the answer was about, which the code does not read); and of an order
\* its fill, and failed for good only when it can fill no more.
ReadIsRight == \A r \in Readers : read[r].stage = "done" => AnswerIsRight(read[r])

\* Activities read page by page while rows are added: every row there was at
\* the start, once and in order, and nothing that does not match.
EveryRowOnce ==
    \A r \in Readers : read[r].answer.kind = "rows" =>
        LET found == read[r].answer.rows IN
        /\ \A i, j \in DOMAIN found : i < j => found[i] < found[j]
        /\ ToSet(found) \subseteq Matching
        /\ \A i \in Matching : i <= Max({read[r].start} \cup ToSet(found)) => i \in ToSet(found)
=============================================================================
