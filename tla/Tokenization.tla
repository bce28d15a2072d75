---------------------------- MODULE Tokenization ----------------------------
(***************************************************************************)
(* Mints and redemptions: the tokenization client and the gateway handler   *)
(* that calls it (src/tokenization, handlers/tokenization.rs), against the  *)
(* tokenizer of the tests (src/tokenization_mock.rs) with its two tasks,    *)
(* the executor that sends minted tokens on chain and the watcher that      *)
(* reads redemptions off the chain. The network between client and          *)
(* tokenizer may lose an answer or deliver a POST late. The polls that wait *)
(* for a request to end are in DeadlinePoll.                                *)
(***************************************************************************)
EXTENDS Integers, Sequences, FiniteSetsExt, Functions

CONSTANTS
    Keys,         \* issuer request ids
    NoKey,        \* of a request that was not made by a mint call
    Symbols,      \* underlying symbols
    Known,        \* the ones the mint executor has a token for
    Chains,       \* networks
    MockChain,    \* the network of the mock's own chain
    Quantities,   \* shares of a request
    Until,        \* polls_until_complete
    MaxAttempts,  \* bound: mint calls
    MaxRequests,  \* bound: requests the tokenizer records
    MaxSends,     \* bound: redemption transfers
    MaxLost,      \* bound: receipts not read and sends that failed though accepted
    MaxForced     \* bound: statuses and thresholds a test sets

ASSUME TokenizationAssumption ==
    /\ Known \subseteq Symbols /\ MockChain \in Chains /\ NoKey \notin Keys
    /\ Quantities \subseteq Nat \ {0} /\ Until \in Nat \ {0}
    /\ {MaxAttempts, MaxRequests, MaxSends, MaxLost, MaxForced} \subseteq Nat

VARIABLES
    requests,   \* the tokenizer's requests, oldest first
    stray,      \* mint POSTs whose answer was lost and which may still land
    attempts,   \* the mint calls, each with what its caller was told
    shares,     \* the position at the broker
    tokens,     \* the tokens in the bot's wallet
    sends,      \* the transfers to the redemption wallet, one a block
    watcher,    \* last_block, and the range it is scanning
    jobs,       \* the mints the executor has collected
    transfer,   \* the transfer it awaits the receipt of, or NoTransfer
    owed,       \* shares of forced redemptions not yet given back
    forced,     \* how many statuses and thresholds tests have set
    lost,       \* tokens of transfers the executor does not know it made
    losses,     \* how many there were
    skewed      \* the books differ by a failed adjustment, or by what a test did

tokenizer == <<requests, stray>>
chain == <<tokens, sends>>
executor == <<jobs, transfer>>
books == <<lost, losses, skewed>>
forcing == <<owed, forced>>
vars == <<tokenizer, attempts, shares, chain, watcher, executor, books, forcing>>

NoTransfer == [request |-> 0, reverted |-> FALSE]
NoTx == 0
Never == -1   \* the poll threshold of an injected request

Init ==
    /\ requests = <<>> /\ stray = {}
    /\ attempts = <<>>
    /\ shares = 0 /\ tokens = 0
    /\ sends = <<>>
    /\ watcher = [last |-> 0, next |-> 0, to |-> 0]
    /\ jobs = {} /\ transfer = NoTransfer
    /\ owed = 0 /\ forced = 0 /\ lost = 0 /\ losses = 0 /\ skewed = FALSE

-----------------------------------------------------------------------------
(* The tokenizer's mint endpoint *)

Request(kind, key, symbol, quantity, network, until, by) ==
    [kind |-> kind, key |-> key, symbol |-> symbol, quantity |-> quantity,
     network |-> network, status |-> "pending", polls |-> 0, until |-> until,
     tx |-> NoTx, executing |-> FALSE, by |-> by]

Mints(k) == {i \in DOMAIN requests : requests[i].kind = "mint" /\ requests[i].key = k}

\* Mutant: the Idempotency-Key is not looked up.
mintAlways(post) ==
    [requests |-> Append(requests, Request("mint", post.key, post.symbol, post.quantity,
                                           post.network, Until, post.by)),
     status |-> 200, request |-> Len(requests) + 1]

\* POST mint: a key seen before answers with its request if the body agrees,
\* whatever the network, and 422 if it does not; a new one is recorded.
register_mint(post) ==
    LET held == Mints(post.key) IN
    IF held = {}
    THEN [requests |-> Append(requests, Request("mint", post.key, post.symbol,
                                                post.quantity, post.network, Until, post.by)),
          status |-> 200, request |-> Len(requests) + 1]
    ELSE LET i == CHOOSE i \in held : TRUE IN
         [requests |-> requests,
          status |-> IF requests[i].symbol = post.symbol /\ requests[i].quantity = post.quantity
                     THEN 200 ELSE 422,
          request |-> i]

-----------------------------------------------------------------------------
(* The mint call: the gateway's handler and the client *)

\* What a refusal says, by status and text.
Refusals ==
    ({403} \X {"insufficient position", "not supported for tokenization", "other"})
    \cup ({422} \X {"no positions found", "invalid wallet address", "other"})
    \cup ({401, 404, 429} \X {"other"})

map_mint_error(status, text) ==
    CASE status = 403 /\ text = "insufficient position" -> "InsufficientPosition"
      [] status = 403 /\ text = "not supported for tokenization" -> "UnsupportedAccount"
      [] status = 422 /\ text = "no positions found" -> "InsufficientPosition"
      [] status = 422 /\ text = "invalid wallet address" -> "InvalidParameters"
      [] status = 429 -> "Backpressure"
      [] OTHER -> "ApiError"

is_definitive_mint_rejection(error) ==
    error \in {"InsufficientPosition", "UnsupportedAccount", "InvalidParameters"}

\* The errors of a call that stopped before its POST left.
Unsent == {"NotSent", "Auth", "InvalidBaseUrl", "PrivateKeyJwtUnsupported", "Connect",
           "DestinationNotAllowed", "NoNetwork"}

\* Mutant: an answer that never came is taken for a request that never left.
outcomeOfSilence(error) ==
    IF error \in Unsent \cup {"Backpressure", "Reqwest"} \/ is_definitive_mint_rejection(error)
    THEN "not_applied" ELSE "unknown"

\* The outcome the gateway's answer states for a failed mint.
outcome(error) ==
    IF error \in Unsent \cup {"Backpressure"} \/ is_definitive_mint_rejection(error)
    THEN "not_applied" ELSE "unknown"

confirm_network(i, network) == requests[i].network = network

Body(post) == <<post.symbol, post.quantity, post.network>>

\* The caller's note of an attempt: its body matters once a request is held.
Told(post, what, i) ==
    attempts' = Append(attempts, [key |-> post.key, told |-> what, request |-> i,
                                  body |-> IF what = "applied" THEN Body(post) ELSE <<>>])

Posts == [key : Keys, symbol : Symbols, quantity : Quantities, network : Chains,
          by : {Len(attempts) + 1}]

\* The recipient is not pinned, no client serves the network, no credential,
\* a closed gate, no connection: the POST never left.
MintUnsent(post) ==
    /\ \E error \in Unsent : Told(post, outcome(error), 0)
    /\ UNCHANGED <<tokenizer, shares, chain, watcher, executor, books, forcing>>

\* The POST is answered by the tokenizer. An answer for a failed request does
\* not parse, and one for another network is refused.
MintAnswered(post) ==
    /\ Len(requests) < MaxRequests
    /\ LET answer == register_mint(post)
           i == answer.request
           parses == i > Len(requests) \/ requests[i].status # "failed"
           network == IF i > Len(requests) THEN TRUE ELSE confirm_network(i, post.network)
       IN  /\ requests' = answer.requests
           /\ IF answer.status = 200 /\ parses /\ network
              THEN Told(post, "applied", i)
              ELSE Told(post, outcome(IF answer.status = 200 THEN "WrongNetwork"
                                      ELSE map_mint_error(422, "other")), 0)
    /\ UNCHANGED <<stray, shares, chain, watcher, executor, books, forcing>>

\* Alpaca refuses the POST without recording it.
MintRefused(post) ==
    /\ \E refusal \in Refusals : Told(post, outcome(map_mint_error(refusal[1], refusal[2])), 0)
    /\ UNCHANGED <<tokenizer, shares, chain, watcher, executor, books, forcing>>

\* A 408, a 5xx, a timeout or an answer cut short: the POST may arrive, now or
\* late, or not at all.
MintLost(post) ==
    /\ stray' \in {stray, stray \cup {post}}
    /\ Told(post, outcome("Reqwest"), 0)
    /\ UNCHANGED <<requests, shares, chain, watcher, executor, books, forcing>>

MintCall ==
    /\ Len(attempts) < MaxAttempts
    /\ \E post \in Posts :
          MintUnsent(post) \/ MintAnswered(post) \/ MintRefused(post) \/ MintLost(post)

\* A late POST arrives; its answer is read by no one.
Land ==
    /\ Len(requests) < MaxRequests
    /\ \E post \in stray :
          /\ stray' = stray \ {post}
          /\ requests' = register_mint(post).requests
    /\ UNCHANGED <<attempts, shares, chain, watcher, executor, books, forcing>>

-----------------------------------------------------------------------------
(* Reads. Every list without a status filter counts as a poll of every      *)
(* pending request.                                                        *)

Advances(r) == r.status = "pending" /\ ~r.executing
Due(r) == Advances(r) /\ r.until # Never /\ r.polls + 1 >= r.until

\* Polls are counted, whatever the threshold, until one more would reach Until.
polled(r, redemption_outcome) ==
    IF ~Due(r) THEN [r EXCEPT !.polls = IF Advances(r) /\ @ + 1 < Until THEN @ + 1 ELSE @]
    ELSE IF r.kind = "mint" THEN [r EXCEPT !.executing = TRUE]
    ELSE [r EXCEPT !.status = redemption_outcome]

\* The list endpoint: redemptions that complete give their shares back, unless
\* the broker's position cannot be adjusted.
List(redemption_outcome) ==
    LET after == [i \in DOMAIN requests |-> polled(requests[i], redemption_outcome)]
        returned == {i \in DOMAIN requests :
                        requests[i].kind = "redeem" /\ requests[i].status # "completed"
                        /\ after[i].status = "completed"}
    IN  /\ requests' = after
        /\ \E failed \in SUBSET returned :
              /\ shares' = shares
                    + SumFunction([i \in returned \ failed |-> requests[i].quantity])
              /\ skewed' = (skewed \/ failed # {}
                            \/ \E i \in returned : requests[i].tx = NoTx)

\* get_request, find_redemption_by_tx or a plain list by anyone; list_pending
\* filters by status and leaves the tokenizer as it is.
Read ==
    /\ requests # <<>>
    /\ \E redemption_outcome \in {"completed", "rejected"} : List(redemption_outcome)
    /\ UNCHANGED <<stray, attempts, chain, watcher, executor, lost, losses, forcing>>

\* find_unique_mint_request: the request under a key, an error if there are
\* two or it does not parse.
find_unique_mint_request(k) ==
    {i \in Mints(k) : Cardinality(Mints(k)) = 1 /\ requests[i].status # "failed"}

\* The caller reconciles a mint of unknown outcome by its key.
Reconcile ==
    /\ \E a \in DOMAIN attempts :
          /\ attempts[a].told = "unknown"
          /\ \E i \in find_unique_mint_request(attempts[a].key) :
                attempts' = [attempts EXCEPT ![a].told = "recovered", ![a].request = i]
    /\ \E redemption_outcome \in {"completed", "rejected"} : List(redemption_outcome)
    /\ UNCHANGED <<stray, chain, watcher, executor, lost, losses, forcing>>

-----------------------------------------------------------------------------
(* The mint executor *)

\* It collects the mints to execute; one for a symbol without a token fails.
Collect ==
    /\ jobs = {} /\ transfer = NoTransfer
    /\ \E i \in DOMAIN requests : requests[i].executing
    /\ jobs' = {i \in DOMAIN requests : requests[i].executing /\ requests[i].symbol \in Known}
    /\ requests' = [i \in DOMAIN requests |->
                      IF requests[i].executing /\ requests[i].symbol \notin Known
                      THEN [requests[i] EXCEPT !.executing = FALSE, !.status = "failed"]
                      ELSE requests[i]]
    /\ UNCHANGED <<stray, attempts, shares, chain, watcher, transfer, books, forcing>>

Job == Min(jobs)

\* The transfer is sent, and moves the tokens unless it reverts.
SendTransfer ==
    /\ jobs # {} /\ transfer = NoTransfer
    /\ \E reverted \in BOOLEAN :
          /\ transfer' = [request |-> Job, reverted |-> reverted]
          /\ tokens' = IF reverted THEN tokens ELSE tokens + requests[Job].quantity
    /\ UNCHANGED <<tokenizer, attempts, shares, sends, watcher, jobs, books, forcing>>

\* The send fails, whether the node took the transfer or not: the mint is
\* collected again later.
SendFails ==
    /\ jobs # {} /\ transfer = NoTransfer
    /\ \/ UNCHANGED <<tokens, lost, losses>>
       \/ /\ losses < MaxLost
          /\ tokens' = tokens + requests[Job].quantity
          /\ lost' = lost + requests[Job].quantity
          /\ losses' = losses + 1
    /\ jobs' = jobs \ {Job}
    /\ UNCHANGED <<tokenizer, attempts, shares, sends, watcher, transfer, skewed, forcing>>

\* Mutant: the shares stay at the broker.
receiptKeepsShares(r, completed) == shares

sharesAfterMint(r, completed) == IF completed THEN shares - r.quantity ELSE shares

\* The receipt is read: the mint ends, whatever its status was, and its shares
\* leave the position, unless that cannot be adjusted.
Receipt ==
    /\ transfer # NoTransfer
    /\ LET i == transfer.request IN
       /\ requests' = [requests EXCEPT
             ![i].status = IF transfer.reverted THEN "failed" ELSE "completed",
             ![i].executing = FALSE]
       /\ \/ shares' = sharesAfterMint(requests[i], ~transfer.reverted) /\ UNCHANGED skewed
          \/ ~transfer.reverted /\ UNCHANGED shares /\ skewed' = TRUE
       /\ jobs' = jobs \ {i}
    /\ transfer' = NoTransfer
    /\ UNCHANGED <<stray, attempts, chain, watcher, lost, losses, forcing>>

\* It cannot be read: the mint stays to be executed, and is transferred again.
ReceiptLost ==
    /\ transfer # NoTransfer /\ losses < MaxLost
    /\ lost' = IF transfer.reverted THEN lost ELSE lost + requests[transfer.request].quantity
    /\ losses' = losses + 1
    /\ jobs' = jobs \ {transfer.request}
    /\ transfer' = NoTransfer
    /\ UNCHANGED <<tokenizer, attempts, shares, chain, watcher, skewed, forcing>>

-----------------------------------------------------------------------------
(* Redemptions and their watcher *)

\* The bot sends tokens to the redemption wallet, in a block of its own.
Redeem ==
    /\ Len(sends) < MaxSends /\ Len(requests) < MaxRequests
    /\ \E q \in Quantities :
          /\ q <= tokens
          /\ sends' = Append(sends, q)
          /\ tokens' = tokens - q
    /\ UNCHANGED <<tokenizer, attempts, shares, watcher, executor, books, forcing>>

\* Mutant: the range stops short of the newest block.
scanStartShort ==
    /\ watcher.next = 0 /\ watcher.last + 1 < Len(sends)
    /\ watcher' = [watcher EXCEPT !.next = watcher.last + 1, !.to = Len(sends) - 1]
    /\ UNCHANGED <<tokenizer, attempts, shares, chain, executor, books, forcing>>

ScanStart ==
    /\ watcher.next = 0 /\ watcher.last < Len(sends)
    /\ watcher' = [watcher EXCEPT !.next = watcher.last + 1, !.to = Len(sends)]
    /\ UNCHANGED <<tokenizer, attempts, shares, chain, executor, books, forcing>>

Recorded(b) == \E i \in DOMAIN requests : requests[i].kind = "redeem" /\ requests[i].tx = b

\* The redemption of block b, unless its transaction is already recorded.
recordRedemption(b) ==
    IF Recorded(b) THEN requests
    ELSE Append(requests, [Request("redeem", NoKey, CHOOSE s \in Known : TRUE, sends[b],
                                   MockChain, Until, 0) EXCEPT !.tx = b])

\* A block is scanned; last_block moves at the end of the whole range.
ScanBlock ==
    /\ watcher.next # 0
    /\ requests' = recordRedemption(watcher.next)
    /\ watcher' = IF watcher.next = watcher.to
                  THEN [last |-> watcher.to, next |-> 0, to |-> 0]
                  ELSE [watcher EXCEPT !.next = @ + 1]
    /\ UNCHANGED <<stray, attempts, shares, chain, executor, books, forcing>>

\* An RPC fails before or after the block's transaction was recorded: the range
\* is scanned again from its start.
ScanFails ==
    /\ watcher.next # 0
    /\ requests' \in {requests, recordRedemption(watcher.next)}
    /\ watcher' = [watcher EXCEPT !.next = 0, !.to = 0]
    /\ UNCHANGED <<stray, attempts, shares, chain, executor, books, forcing>>

-----------------------------------------------------------------------------
(* What a test does to the tokenizer *)

\* inject_pending_request: one of another client, pending for ever.
Inject ==
    /\ Len(requests) < MaxRequests
    /\ \E kind \in {"mint", "redeem"}, s \in Known, q \in Quantities :
          requests' = Append(requests, Request(kind, NoKey, s, q, MockChain, Never, 0))
    /\ UNCHANGED <<stray, attempts, shares, chain, watcher, executor, books, forcing>>

\* The position has its shares of a redemption already, or was never charged.
GivenTwice(r, status) ==
    /\ r.kind = "redeem"
    /\ IF r.tx = NoTx THEN status = "completed" ELSE r.status = "completed"

\* set_request_status on any request, the ones the executor works on included:
\* the lock is dropped before the shares of a redemption are given back.
SetRequestStatus ==
    /\ forced < MaxForced
    /\ \E i \in DOMAIN requests, status \in {"pending", "completed", "rejected", "failed"} :
          /\ requests' = [requests EXCEPT ![i].status = status]
          /\ owed' = IF status = "completed" /\ requests[i].kind = "redeem"
                     THEN owed + requests[i].quantity ELSE owed
          /\ skewed' = (skewed \/ GivenTwice(requests[i], status))
    /\ forced' = forced + 1
    /\ UNCHANGED <<stray, attempts, shares, chain, watcher, executor, lost, losses>>

\* set_request_polls_until_complete on any request.
SetRequestPolls ==
    /\ forced < MaxForced
    /\ \E i \in DOMAIN requests, until \in {Until, Never} :
          requests' = [requests EXCEPT ![i].until = until]
    /\ forced' = forced + 1
    /\ UNCHANGED <<stray, attempts, shares, chain, watcher, executor, books, owed>>

\* One of those shares are given back, or the position cannot be adjusted.
GiveBack ==
    /\ \E q \in Quantities :
          /\ q <= owed /\ owed' = owed - q
          /\ \/ shares' = shares + q /\ UNCHANGED skewed
             \/ UNCHANGED shares /\ skewed' = TRUE
    /\ UNCHANGED <<tokenizer, attempts, chain, watcher, executor, lost, losses, forced>>

-----------------------------------------------------------------------------

Next ==
    \/ MintCall \/ Land \/ Read \/ Reconcile
    \/ Collect \/ SendTransfer \/ SendFails \/ Receipt \/ ReceiptLost
    \/ Redeem \/ ScanStart \/ ScanBlock \/ ScanFails
    \/ Inject \/ SetRequestStatus \/ SetRequestPolls \/ GiveBack

Spec == Init /\ [][Next]_vars

\* Both tasks run for ever. A send and the scan of a block may fail, but not
\* every time they are tried.
Fairness ==
    /\ WF_vars(Collect) /\ SF_vars(SendTransfer) /\ WF_vars(Receipt \/ ReceiptLost)
    /\ WF_vars(ScanStart) /\ \A b \in 1..MaxSends : SF_vars(ScanBlock /\ watcher.next = b)

FairSpec == Spec /\ Fairness

-----------------------------------------------------------------------------
(* Properties *)

TypeOK ==
    /\ Len(requests) \in 0..(MaxRequests + MaxSends)
    /\ \A i \in DOMAIN requests :
          /\ requests[i].status \in {"pending", "completed", "rejected", "failed"}
          /\ requests[i].polls \in 0..Until
          /\ requests[i].executing => requests[i].kind = "mint"
    /\ \A a \in DOMAIN attempts :
          attempts[a].told \in {"applied", "not_applied", "unknown", "recovered"}
    /\ jobs \subseteq DOMAIN requests
    /\ transfer # NoTransfer => transfer.request \in jobs
    /\ tokens \in Nat /\ owed \in Nat /\ lost \in Nat /\ skewed \in BOOLEAN

\* A mint the gateway answered not_applied, a definitive rejection included,
\* has no request and will have none however late POSTs arrive.
NothingMintedUnlessTold ==
    \A a \in DOMAIN attempts : attempts[a].told = "not_applied" =>
        /\ \A i \in DOMAIN requests : requests[i].by # a
        /\ \A post \in stray : post.by # a

\* However often a mint is resent under its issuer request id, lost, late or
\* with another body, one request is made of it, so a reconciliation finds it.
OneRequestPerKey == \A k \in Keys : Cardinality(Mints(k)) <= 1

\* What a caller holds is its own: the request under its key, with its symbol
\* and quantity and on its network. A reconciliation matches the key only.
HeldIsOwn ==
    \A a \in DOMAIN attempts :
        LET r == requests[attempts[a].request] IN
        /\ attempts[a].told = "applied" =>
              r.key = attempts[a].key /\ Body(r) = attempts[a].body
        /\ attempts[a].told = "recovered" => r.key = attempts[a].key

\* Tokens on their way to a redemption that has not completed.
Redeeming ==
    SumFunction([b \in {b \in DOMAIN sends :
                    ~\E i \in DOMAIN requests :
                        requests[i].tx = b /\ requests[i].status = "completed"} |-> sends[b]])

\* The comment on the executor, "so totals are conserved": shares and tokens
\* move together in every interleaving of executor, watcher, polls and tests.
\* A transfer the executor does not know it made is made again; and nothing is
\* said once a position could not be adjusted, or a test completed a redemption
\* that was injected or completed before.
Moving ==
    IF transfer = NoTransfer \/ transfer.reverted THEN 0 ELSE requests[transfer.request].quantity

Supply == shares + owed + tokens + Redeeming

SupplyIsConstant == skewed \/ Supply = lost + Moving

\* Rescans after RPC failures record a redemption once, and once last_block
\* has passed its block it is recorded.
RedemptionRecordedOnce ==
    \A b \in DOMAIN sends :
        /\ Cardinality({i \in DOMAIN requests : requests[i].tx = b}) <= 1
        /\ b <= watcher.last => Recorded(b)

\* The bot's poll for a redemption finds it in the end.
RedemptionDetected == \A b \in 1..MaxSends : b \in DOMAIN sends ~> Recorded(b)

\* What a caller of a mint is told is true: of a mint not applied, and of the
\* request it holds.
NotAppliedMintsNothing == TypeOK /\ NothingMintedUnlessTold /\ HeldIsOwn

\* The mock's books: shares and tokens in step, every redemption in them once.
TotalsConserved == SupplyIsConstant /\ RedemptionRecordedOnce
=============================================================================
