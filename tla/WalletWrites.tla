---------------------------- MODULE WalletWrites ----------------------------
(***************************************************************************)
(* The crypto wallet: withdrawals and whitelist writes of the gateway       *)
(* (handlers/wallet.rs over src/wallet), journals, which share their        *)
(* handlers, and the wallet of the broker mock (src/broker/mock_api.rs) with *)
(* its deposit watcher. Calls run side by side; a write may be refused, held *)
(* back by the send gate, or lost and applied late. The polls that wait for  *)
(* a transfer are in DeadlinePoll.                                           *)
(***************************************************************************)
EXTENDS Integers, Sequences, FiniteSets, FiniteSetsExt, Functions

CONSTANTS
    Calls,          \* calls of the gateway
    Addresses,      \* withdrawal destinations
    Pinned,         \* bot_withdrawal_destinations
    HasTravelRule,  \* whether travel_rule_beneficiary is configured
    Counterparties, \* configured journal counterparties
    NoOne,          \* a counterparty that is not
    Amounts,        \* amounts withdrawn and deposited
    Start,          \* wallet balance at the start
    MaxEntries,     \* bound: whitelist entries
    MaxSends,       \* bound: deposits sent on chain
    UntilComplete   \* polls_until_complete of an outgoing transfer

ASSUME WalletAssumption ==
    /\ Pinned \subseteq Addresses /\ HasTravelRule \in BOOLEAN
    /\ NoOne \notin Counterparties
    /\ Amounts \subseteq Nat \ {0}
    /\ {Start, MaxEntries, MaxSends} \subseteq Nat /\ UntilComplete \in Nat \ {0}

VARIABLES
    whitelist,  \* entries ever made, with whether they still exist
    calls,      \* the calls and what each was told
    stray,      \* writes whose answer was lost and which may still land
    changed,    \* the writes Alpaca applied, as <<call, entry>>
    balance,    \* the wallet balance
    transfers,  \* the wallet transfers, oldest first
    sends,      \* deposits on chain, one transaction a block: its log amounts
    watcher     \* the deposit watcher: last_block and the range being scanned

vars == <<whitelist, calls, stray, changed, balance, transfers, sends, watcher>>
mock == <<sends, watcher>>

NoHash == 0
OutHash == -1   \* the one hash every outgoing transfer completes with
Posted == 0     \* the entry of a write that is a POST

Idle == [op |-> "none", tier |-> "write", address |-> CHOOSE a \in Addresses : TRUE,
         amount |-> 0, pc |-> "idle", entries |-> <<>>, done |-> 0, told |-> "none",
         named |-> {}]

Entry(address, status) ==
    [address |-> address, status |-> status, rule |-> FALSE, exists |-> TRUE]

Init ==
    /\ whitelist \in {<<>>} \cup {<<Entry(a, "Approved"), Entry(b, "Approved")>> :
                                     a, b \in Addresses}
    /\ calls = [c \in Calls |-> Idle]
    /\ stray = {} /\ changed = {}
    /\ balance = Start
    /\ transfers = <<>> /\ sends = <<>>
    /\ watcher = [last |-> 0, next |-> 0, to |-> 0]

Listed == {i \in DOMAIN whitelist : whitelist[i].exists}

-----------------------------------------------------------------------------
(* The gateway's handlers *)

\* Mutant: only the bot is held to its lane.
checkBotOnly(tier, address) ==
    IF tier = "bot" /\ address \notin Pinned THEN "destination_not_allowed" ELSE "ok"

\* The bot withdraws to pinned destinations only, a human never to one.
check_withdrawal_destination(tier, address) ==
    IF tier = "bot" /\ Pinned = {} THEN "capability_disabled"
    ELSE IF tier = "bot" /\ address \notin Pinned THEN "destination_not_allowed"
    ELSE IF tier = "write" /\ address \in Pinned THEN "destination_not_allowed"
    ELSE "ok"

travel_rule == IF HasTravelRule THEN "ok" ELSE "capability_disabled"

counterparty_account(name) ==
    IF Counterparties = {} THEN "capability_disabled"
    ELSE IF name \notin Counterparties THEN "destination_not_allowed"
    ELSE "ok"

\* What a call is held to before its first request.
first_check(op, tier, address, name) ==
    CASE op = "withdraw" -> check_withdrawal_destination(tier, address)
      [] op \in {"create", "patch"} -> travel_rule
      [] op = "journal" -> counterparty_account(name)
      [] OTHER -> "ok"

Reads(op) == op \in {"withdraw", "remove", "patch"}

\* The call after its check: ended if that refused it.
begun(op, tier, address, amount, check) ==
    [Idle EXCEPT !.op = op, !.tier = tier, !.address = address, !.amount = amount,
                 !.entries = IF Reads(op) THEN <<>> ELSE <<Posted>>,
                 !.pc = IF check # "ok" THEN "ended"
                        ELSE IF Reads(op) THEN "read" ELSE "write",
                 !.told = IF check = "ok" THEN "none" ELSE "not_applied"]

\* Admitted work up to its first request: a refusal here sent nothing.
Begin(c) ==
    /\ calls[c].pc = "idle"
    /\ \E op \in {"withdraw", "create", "remove", "patch", "journal"},
          tier \in {"bot", "write"}, address \in Addresses, amount \in Amounts,
          name \in Counterparties \cup {NoOne} :
          /\ tier = "bot" => op = "withdraw"
          /\ op # "withdraw" => amount = Min(Amounts)
          /\ op # "journal" => name = NoOne
          /\ op \in {"patch", "journal"} => address = Idle.address
          /\ calls' = [calls EXCEPT ![c] =
                          begun(op, tier, address, amount,
                                first_check(op, tier, address, name))]
    /\ UNCHANGED <<whitelist, stray, changed, balance, transfers, mock>>

is_address_whitelisted_and_approved(address) ==
    \E i \in Listed : whitelist[i].address = address /\ whitelist[i].status = "Approved"

\* A finite set of indices as the sequence that visits them in order.
InOrder(S) ==
    CHOOSE s \in [1..Cardinality(S) -> S] :
        \A i, j \in 1..Cardinality(S) : i < j => s[i] < s[j]

\* The entries a whitelist write goes to, in the order listed.
Matching(op, address) ==
    InOrder({i \in Listed : op = "patch" \/ whitelist[i].address = address})

End(c, told) == calls' = [calls EXCEPT ![c].pc = "ended", ![c].told = told]

\* The whitelist is read. Without an approved entry, or an entry to remove,
\* the call ends unsent; a patch of an empty list is done.
ReadOk(c) ==
    /\ calls[c].pc = "read"
    /\ LET call == calls[c]
           to == IF call.op = "withdraw" THEN <<Posted>> ELSE Matching(call.op, call.address)
       IN  IF \/ call.op = "withdraw" /\ ~is_address_whitelisted_and_approved(call.address)
              \/ call.op = "remove" /\ to = <<>>
           THEN End(c, "not_applied")
           ELSE IF to = <<>> THEN End(c, "done")
           ELSE calls' = [calls EXCEPT ![c].pc = "write", ![c].entries = to]
    /\ UNCHANGED <<whitelist, stray, changed, balance, transfers, mock>>

\* read_before: the read fails or the deadline cuts it.
ReadFails(c) ==
    /\ calls[c].pc = "read"
    /\ End(c, "not_applied")
    /\ UNCHANGED <<whitelist, stray, changed, balance, transfers, mock>>

-----------------------------------------------------------------------------
(* Alpaca's side of a write *)

Target(c) == calls[c].entries[calls[c].done + 1]

subtract_wallet_balance(amount) == balance - amount >= 0

\* Whether a write is taken: a withdrawal needs its balance, an entry must
\* still exist.
Accepts(w) ==
    IF w.entry # Posted THEN whitelist[w.entry].exists
    ELSE w.op = "withdraw" => subtract_wallet_balance(w.amount)

\* A withdrawal is a transfer, and its amount leaves the balance; a new entry
\* waits for its approval (the mock approves it at once); the others change an
\* entry.
Apply(w) ==
    /\ changed' = changed \cup {<<w.call, w.entry>>}
    /\ CASE w.op = "withdraw" ->
              /\ transfers' = Append(transfers,
                    [direction |-> "Outgoing", amount |-> w.amount, to |-> w.address,
                     status |-> "Pending", hash |-> NoHash, polls |-> 0, by |-> {w.call}])
              /\ balance' = balance - w.amount
              /\ UNCHANGED whitelist
         [] w.op = "create" ->
              /\ \E status \in {"Pending", "Approved"} :
                    whitelist' = Append(whitelist, Entry(w.address, status))
              /\ UNCHANGED <<balance, transfers>>
         [] w.op = "remove" ->
              /\ whitelist' = [whitelist EXCEPT ![w.entry].exists = FALSE]
              /\ UNCHANGED <<balance, transfers>>
         [] w.op = "patch" ->
              /\ whitelist' = [whitelist EXCEPT ![w.entry].rule = TRUE]
              /\ UNCHANGED <<balance, transfers>>
         [] w.op = "journal" -> UNCHANGED <<whitelist, balance, transfers>>

Write(c) == [call |-> c, entry |-> Target(c), op |-> calls[c].op,
             address |-> calls[c].address, amount |-> calls[c].amount]

Fits(w) == w.op = "create" => Len(whitelist) < MaxEntries

-----------------------------------------------------------------------------
(* write_entries, and the single POST of the others *)

IsLast(c) == calls[c].done + 1 = Len(calls[c].entries)

WriteOk(c) ==
    /\ calls[c].pc = "write"
    /\ Accepts(Write(c)) /\ Fits(Write(c))
    /\ Apply(Write(c))
    /\ calls' = [calls EXCEPT ![c].done = @ + 1,
                              ![c].pc = IF IsLast(c) THEN "ended" ELSE @,
                              ![c].told = IF IsLast(c) THEN "done" ELSE @]
    /\ UNCHANGED <<stray, mock>>

\* Mutant: the entry the loop stopped at is named with those already changed.
stoppedNamesLast(c, failure) ==
    [calls EXCEPT ![c].pc = "ended",
                  ![c].told = IF calls[c].done = 0 THEN failure ELSE "unknown",
                  ![c].named = {calls[c].entries[i] : i \in 1..(calls[c].done + 1)}]

\* Until the first write went through its own failure stands; any later stop
\* is outcome_unknown and names the entries already changed.
stopped(c, failure) ==
    [calls EXCEPT ![c].pc = "ended",
                  ![c].told = IF calls[c].done = 0 THEN failure ELSE "unknown",
                  ![c].named = {calls[c].entries[i] : i \in 1..calls[c].done}]

\* wallet, broker: a definite status, a 429, a closed gate, no credential or
\* no connection left nothing written; a 408, a 5xx, a timeout or an answer
\* that does not parse may have.
failure_of(kind) == IF kind = "lost" THEN "unknown" ELSE "not_applied"

WriteRefused(c) ==
    /\ calls[c].pc = "write"
    /\ calls' = stopped(c, failure_of("refused"))
    /\ UNCHANGED <<whitelist, stray, changed, balance, transfers, mock>>

WriteLost(c) ==
    /\ calls[c].pc = "write"
    /\ stray' \in {stray, stray \cup {Write(c)}}
    /\ calls' = stopped(c, failure_of("lost"))
    /\ UNCHANGED <<whitelist, changed, balance, transfers, mock>>

\* A write whose answer was lost arrives, or is dropped.
Land ==
    /\ \E w \in stray :
          /\ stray' = stray \ {w}
          /\ IF Accepts(w) /\ Fits(w) THEN Apply(w)
             ELSE UNCHANGED <<whitelist, changed, balance, transfers>>
    /\ UNCHANGED <<calls, mock>>

\* Alpaca approves or rejects a new entry.
Review ==
    /\ \E i \in Listed, status \in {"Approved", "Rejected"} :
          /\ whitelist[i].status = "Pending"
          /\ whitelist' = [whitelist EXCEPT ![i].status = status]
    /\ UNCHANGED <<calls, stray, changed, balance, transfers, mock>>

-----------------------------------------------------------------------------
(* The mock's transfers and its deposit watcher *)

advance_wallet_transfer_status(t) ==
    IF t.status = "Complete" THEN t
    ELSE IF t.polls + 1 >= UntilComplete
    THEN [t EXCEPT !.polls = @ + 1, !.status = "Complete",
                   !.hash = IF t.hash = NoHash THEN OutHash ELSE @]
    ELSE [t EXCEPT !.polls = @ + 1, !.status = "Processing"]

\* A list advances every transfer, a read by id the one it reads.
ReadTransfers ==
    /\ transfers # <<>>
    /\ \E read \in {DOMAIN transfers} \cup {{i} : i \in DOMAIN transfers} :
          transfers' = [i \in DOMAIN transfers |->
                           IF i \in read THEN advance_wallet_transfer_status(transfers[i])
                           ELSE transfers[i]]
    /\ UNCHANGED <<whitelist, calls, stray, changed, balance, mock>>

\* find_deposit_by_tx_hash: the first incoming transfer with the hash.
find_deposit_by_tx_hash(hash) ==
    LET found == {i \in DOMAIN transfers :
                     transfers[i].direction = "Incoming" /\ transfers[i].hash = hash}
    IN  IF found = {} THEN {} ELSE {Min(found)}

\* The bot sends a deposit, in a block of its own; a transaction may carry
\* two transfers to the address. register_wallet_endpoints has drawn the address
\* by then: the blocks scanned before it did are skipped, and hold no deposit.
Deposit ==
    /\ Len(sends) < MaxSends
    /\ \E logs \in {<<a>> : a \in Amounts} \cup {<<a, b>> : a, b \in Amounts} :
          sends' = Append(sends, logs)
    /\ UNCHANGED <<whitelist, calls, stray, changed, balance, transfers, watcher>>

\* Mutant: the range stops short of the newest block.
scanStartShort ==
    /\ watcher.next = 0 /\ watcher.last + 1 < Len(sends)
    /\ watcher' = [watcher EXCEPT !.next = watcher.last + 1, !.to = Len(sends) - 1]
    /\ UNCHANGED <<whitelist, calls, stray, changed, balance, transfers, sends>>

ScanStart ==
    /\ watcher.next = 0 /\ watcher.last < Len(sends)
    /\ watcher' = [watcher EXCEPT !.next = watcher.last + 1, !.to = Len(sends)]
    /\ UNCHANGED <<whitelist, calls, stray, changed, balance, transfers, sends>>

Seen(hash) == \E i \in DOMAIN transfers : transfers[i].hash = hash

\* The first log of a transaction not seen before is credited: the ones after
\* it carry a hash that now exists.
scan_block_for_deposits(b) ==
    IF Seen(b) THEN UNCHANGED <<balance, transfers>>
    ELSE /\ balance' = balance + Head(sends[b])
         /\ transfers' = Append(transfers,
               [direction |-> "Incoming", amount |-> Head(sends[b]), to |-> Idle.address,
                status |-> "Complete", hash |-> b, polls |-> 0, by |-> {}])

\* last_block moves at the end of the whole range.
ScanBlock ==
    /\ watcher.next # 0
    /\ scan_block_for_deposits(watcher.next)
    /\ watcher' = IF watcher.next = watcher.to
                  THEN [last |-> watcher.to, next |-> 0, to |-> 0]
                  ELSE [watcher EXCEPT !.next = @ + 1]
    /\ UNCHANGED <<whitelist, calls, stray, changed, sends>>

\* An RPC fails, before or after the transaction was credited: the range is
\* scanned again from its start.
ScanFails ==
    /\ watcher.next # 0
    /\ \/ UNCHANGED <<balance, transfers>>
       \/ scan_block_for_deposits(watcher.next)
    /\ watcher' = [watcher EXCEPT !.next = 0, !.to = 0]
    /\ UNCHANGED <<whitelist, calls, stray, changed, sends>>

-----------------------------------------------------------------------------

Call(c) ==
    \/ Begin(c) \/ ReadOk(c) \/ ReadFails(c)
    \/ WriteOk(c) \/ WriteRefused(c) \/ WriteLost(c)

Next ==
    \/ \E c \in Calls : Call(c)
    \/ Land \/ Review \/ ReadTransfers
    \/ Deposit \/ ScanStart \/ ScanBlock \/ ScanFails

Spec == Init /\ [][Next]_vars

\* The watcher's task runs for ever, and the RPCs for a block do not fail every
\* time they are tried.
FairSpec ==
    Spec /\ WF_vars(ScanStart) /\ \A b \in 1..MaxSends : SF_vars(ScanBlock /\ watcher.next = b)

-----------------------------------------------------------------------------
(* Properties *)

TypeOK ==
    /\ balance \in Nat
    /\ \A i \in DOMAIN transfers :
          /\ transfers[i].status \in {"Pending", "Processing", "Complete"}
          /\ transfers[i].polls \in 0..UntilComplete
          /\ transfers[i].status = "Complete" <=> transfers[i].hash # NoHash
    /\ \A c \in Calls :
          /\ calls[c].told \in {"none", "not_applied", "unknown", "done"}
          /\ calls[c].pc = "ended" <=> calls[c].told # "none"
          /\ calls[c].done \in 0..Len(calls[c].entries)
    /\ \A w \in stray : calls[w.call].told = "unknown"

\* A call answered not_applied changed nothing and never will, however it
\* stopped: a refusal by the gateway, a cut read, a first write that failed.
NotAppliedChangedNothing ==
    \A c \in Calls : calls[c].told = "not_applied" =>
        /\ \A x \in changed : x[1] # c
        /\ \A w \in stray : w.call # c

\* A whitelist write that stopped half way names exactly the entries it
\* changed, but for the one it stopped at, which may be changed too; one that
\* is done changed every entry it read.
NamedEntriesAreChanged ==
    \A c \in Calls :
        LET mine == {x[2] : x \in {x \in changed : x[1] = c}} IN
        /\ calls[c].told = "unknown" /\ calls[c].entries # <<>> =>
              /\ calls[c].named \subseteq mine
              /\ mine \subseteq calls[c].named \cup {Target(c)}
        /\ calls[c].told = "done" => mine = Range(calls[c].entries)

\* No human withdrawal can pass for one of the bot: a transfer to a pinned
\* destination was asked by the bot, and one the bot asked goes to one.
LanesApart ==
    \A i \in DOMAIN transfers : \A c \in transfers[i].by :
        calls[c].tier = "bot" <=> transfers[i].to \in Pinned

\* The balance is what came in less what went out, in every interleaving of
\* withdrawals, late ones included, and rescans.
Signed(i) == IF transfers[i].direction = "Incoming" THEN transfers[i].amount
             ELSE -transfers[i].amount

BalanceIsTheTransfers ==
    balance = Start + SumFunction([i \in DOMAIN transfers |-> Signed(i)])

\* A deposit is credited once, and found by its hash as the incoming transfer
\* it is, once the watcher has passed its block.
DepositFoundOnce ==
    \A b \in DOMAIN sends :
        /\ Cardinality({i \in DOMAIN transfers : transfers[i].hash = b}) <= 1
        /\ b <= watcher.last => \E i \in find_deposit_by_tx_hash(b) :
                                    transfers[i].amount = Head(sends[b])

\* A deposit the bot sent is found by its poll in the end.
DepositFound ==
    \A b \in 1..MaxSends : b \in DOMAIN sends ~> find_deposit_by_tx_hash(b) # {}

\* What a caller of a wallet write is told is what happened, and the wallet's
\* balance and deposits are what its transfers say.
AnswersAreTrue ==
    /\ TypeOK /\ NotAppliedChangedNothing /\ NamedEntriesAreChanged
    /\ BalanceIsTheTransfers /\ DepositFoundOnce
=============================================================================
