---------------------------- MODULE WalletProofs ----------------------------
(***************************************************************************)
(* Proofs about the crypto wallet. First WalletWrites, for any calls,       *)
(* addresses, pinned destinations, amounts and bounds: what the caller of a *)
(* write is told is what happened, and the bot's withdrawals stay apart     *)
(* from the others. Then DeadlinePoll, the polls that wait for a transfer   *)
(* or a tokenization, for any deadline, interval, backoff and hints: no     *)
(* poll runs past its deadline, and what it answers is true.                *)
(***************************************************************************)
EXTENDS WalletWrites, DeadlinePoll, Sums, SequenceTheorems

\* Operations, destinations and transfers, as the handlers and the mock make them.
Ops == {"none", "withdraw", "create", "remove", "patch", "journal"}

Destinations == Addresses \cup {Idle.address}

Entries == [address : Destinations, status : {"Pending", "Approved", "Rejected"},
            rule : BOOLEAN, exists : BOOLEAN]

CallRecords ==
    [op : Ops, tier : {"bot", "write"}, address : Destinations, amount : Nat,
     pc : {"idle", "read", "write", "ended"}, entries : Seq(Nat), done : Nat,
     told : {"none", "not_applied", "unknown", "done"}, named : SUBSET Nat]

Writes == [call : Calls, entry : Nat, op : Ops \ {"none"}, address : Destinations, amount : Nat]

TransferRecords ==
    [direction : {"Incoming", "Outgoing"}, amount : Nat, to : Destinations,
     status : {"Pending", "Processing", "Complete"}, hash : Int, polls : Nat,
     by : SUBSET Calls]

BooksTypes ==
    /\ balance \in Nat
    /\ transfers \in Seq(TransferRecords)
    /\ sends \in Seq(Seq(Amounts) \ {<<>>})
    /\ watcher \in [last : Nat, next : Nat, to : Nat]

CallTypes ==
    /\ whitelist \in Seq(Entries)
    /\ calls \in [Calls -> CallRecords]
    /\ stray \in SUBSET Writes
    /\ changed \in SUBSET (Calls \X Nat)

\* An outgoing transfer has no block's hash, an incoming one its block's, with
\* the amount of the block's first log; and no two incoming ones one hash.
TransfersAreReal ==
    \A i \in DOMAIN transfers :
        /\ transfers[i].polls <= UntilComplete
        /\ transfers[i].status # "Complete" => transfers[i].polls < UntilComplete
        /\ transfers[i].status = "Complete" <=> transfers[i].hash # NoHash
        /\ transfers[i].direction = "Outgoing" => transfers[i].hash \in {NoHash, OutHash}
        /\ transfers[i].direction = "Incoming" =>
              /\ transfers[i].hash \in DOMAIN sends
              /\ transfers[i].amount = Head(sends[transfers[i].hash])

OneTransferPerHash ==
    \A i, j \in DOMAIN transfers :
        transfers[i].hash = transfers[j].hash /\ transfers[i].hash \in DOMAIN sends
            => i = j

\* The watcher's range lies in the chain, and every block behind it is credited.
WatcherInv ==
    /\ watcher.last <= Len(sends)
    /\ watcher.next # 0 => /\ watcher.last < watcher.next
                           /\ watcher.next <= watcher.to
                           /\ watcher.to <= Len(sends)
    /\ \A b \in DOMAIN sends : b <= watcher.last \/ b < watcher.next => Seen(b)

BooksInv ==
    BooksTypes /\ TransfersAreReal /\ OneTransferPerHash /\ WatcherInv
        /\ BalanceIsTheTransfers

\* The entries the writes of a call that are through went to.
Written(call) == {call.entries[i] : i \in 1..call.done}

Mine(c, done) == {e \in Nat : <<c, e>> \in done}

Lane(tier, address) == tier = "bot" <=> address \in Pinned

CallInv(call, mine) ==
    /\ call.pc = "ended" <=> call.told # "none"
    /\ call.pc # "idle" => call.op # "none"
    /\ call.done <= Len(call.entries)
    /\ call.pc \in {"idle", "read"} => call.entries = <<>>
    /\ call.pc = "write" => call.done < Len(call.entries)
    /\ call.op = "withdraw" /\ call.entries # <<>> => call.entries = <<Posted>>
    /\ call.op = "withdraw" /\ call.pc \in {"read", "write"} => Lane(call.tier, call.address)
    /\ call.told = "none" => mine = Written(call)
    /\ call.told = "not_applied" => mine = {}
    /\ call.told = "done" => mine = Range(call.entries)
    /\ call.told = "unknown" =>
          /\ call.done < Len(call.entries)
          /\ call.named = Written(call)
          /\ call.named \subseteq mine
          /\ mine \subseteq call.named \cup {call.entries[call.done + 1]}

\* A write still under way is the one its call stopped at.
StrayOk(w, call) ==
    /\ call.told = "unknown"
    /\ w.entry = call.entries[call.done + 1]
    /\ w.op = "withdraw" => w.entry = Posted /\ Lane(call.tier, w.address)

CallsInv ==
    /\ CallTypes
    /\ \A c \in Calls : CallInv(calls[c], Mine(c, changed))
    /\ \A w \in stray : StrayOk(w, calls[w.call])

LaneInv ==
    \A i \in DOMAIN transfers : \A c \in transfers[i].by :
        /\ calls[c].pc # "idle"
        /\ Lane(calls[c].tier, transfers[i].to)

WalletInv == BooksInv /\ CallsInv /\ LaneInv

-----------------------------------------------------------------------------
(* Sums and orders *)

(* A finite set of indices can be visited in order, and InOrder does. *)
LEMMA InOrderType ==
    ASSUME NEW S, \A x \in S : x \in Nat, IsFiniteSet(S)
    PROVE  /\ InOrder(S) \in [1..Cardinality(S) -> S]
           /\ InOrder(S) \in Seq(S)
<1> DEFINE Sorted(T, s) == \A i, j \in 1..Cardinality(T) : i < j => s[i] < s[j]
           Ok(T) == \E s \in [1..Cardinality(T) -> T] : Sorted(T, s)
           Bad == {T \in SUBSET S : ~Ok(T)}
<1>1. SUFFICES Ok(S)
    <2>1. PICK s \in [1..Cardinality(S) -> S] : Sorted(S, s)
        BY <1>1
    <2>2. InOrder(S) \in [1..Cardinality(S) -> S]
        BY <2>1 DEF InOrder
    <2>3. Cardinality(S) \in Nat
        BY FS_CardinalityType
    <2> QED BY <2>2, <2>3, SeqDef
<1>2. SUFFICES ASSUME Bad # {} PROVE FALSE
    OBVIOUS
<1>3. PICK T \in Bad : \A U \in Bad : U \subseteq T => U = T
    <2>1. Bad \in SUBSET SUBSET S
        OBVIOUS
    <2> HIDE DEF Bad
    <2> QED BY <2>1, <1>2, MinimalSubset
<1>4. IsFiniteSet(T) /\ \A x \in T : x \in Nat
    BY <1>3, FS_Subset
<1>5. T # {}
    <2>1. SUFFICES ASSUME T = {} PROVE Ok({})
        BY <1>3
    <2>2. Cardinality({}) = 0
        BY FS_EmptySet
    <2>3. [i \in 1..0 |-> 0] \in [1..0 -> {}]
        OBVIOUS
    <2> QED BY <2>2, <2>3
<1>6. PICK m \in T : \A x \in T : x <= m
    BY <1>4, <1>5, HasLargest
<1>7. /\ IsFiniteSet(T \ {m}) /\ Cardinality(T \ {m}) = Cardinality(T) - 1
      /\ Cardinality(T) \in Nat /\ Cardinality(T) # 0
    BY <1>4, <1>5, <1>6, FS_RemoveElement, FS_CardinalityType, FS_EmptySet
<1>8. Ok(T \ {m})
    <2>1. T \ {m} \in SUBSET S /\ T \ {m} \subseteq T /\ T \ {m} # T
        BY <1>3, <1>6
    <2>2. T \ {m} \notin Bad
        BY <2>1, <1>3
    <2> HIDE DEF Ok
    <2> QED BY <2>1, <2>2
<1>9. PICK n \in Nat : n = Cardinality(T) /\ n # 0 /\ Cardinality(T \ {m}) = n - 1
    BY <1>7
<1>10. PICK s \in [1..(n - 1) -> T \ {m}] :
            \A i, j \in 1..(n - 1) : i < j => s[i] < s[j]
    BY <1>8, <1>9
<1> DEFINE t == [i \in 1..n |-> IF i = n THEN m ELSE s[i]]
<1>11. \A i \in 1..n : i # n => i \in 1..(n - 1)
    BY <1>9
<1>12. t \in [1..n -> T]
    BY <1>10, <1>11, <1>6
<1>13. ASSUME NEW i \in 1..n, NEW j \in 1..n, i < j PROVE t[i] < t[j]
    <2>1. i # n /\ i \in 1..(n - 1) /\ s[i] \in T \ {m}
        BY <1>13, <1>10, <1>11, <1>9
    <2>2. CASE j = n
        <3>1. s[i] <= m /\ s[i] # m /\ s[i] \in Nat /\ m \in Nat
            BY <2>1, <1>6, <1>4
        <3> QED BY <3>1, <2>1, <2>2
    <2>3. CASE j # n
        BY <2>3, <2>1, <1>11, <1>10, <1>13
    <2> QED BY <2>2, <2>3
<1>14. Ok(T)
    BY <1>12, <1>13, <1>9
<1> QED BY <1>14, <1>3

(* One more addend at the end of a list. *)
LEMMA SumAppend ==
    ASSUME NEW n \in Nat, NEW f \in [1..n -> Int], NEW g \in [1..(n + 1) -> Int],
           \A i \in 1..n : g[i] = f[i]
    PROVE  SumFunction(f) \in Int /\ SumFunction(g) = SumFunction(f) + g[n + 1]
<1>1. IsFiniteSet(1..n) /\ IsFiniteSet(1..(n + 1))
    BY FS_Interval
<1>2. SumFunction(f) = SumFunctionOnSet(f, 1..n)
      /\ SumFunction(g) = SumFunctionOnSet(g, 1..(n + 1))
    BY DEF SumFunction
<1>3. SumFunctionOnSet(f, 1..n) \in Int
    BY <1>1, SumType
<1>4. SumFunctionOnSet(g, 1..(n + 1))
          = g[n + 1] + SumFunctionOnSet(g, (1..(n + 1)) \ {n + 1})
    BY <1>1, SumRemove
<1>5. (1..(n + 1)) \ {n + 1} = 1..n
    OBVIOUS
<1>6. SumFunctionOnSet(g, 1..n) = SumFunctionOnSet(f, 1..n)
    BY <1>1, SumAgree
<1>7. g[n + 1] \in Int
    OBVIOUS
<1>8. PICK a \in Int, b \in Int : a = SumFunctionOnSet(f, 1..n) /\ b = g[n + 1]
    BY <1>3, <1>7
<1>9. SumFunction(g) = b + a
    BY <1>2, <1>4, <1>5, <1>6, <1>8
<1>10. b + a = a + b
    OBVIOUS
<1> QED BY <1>2, <1>8, <1>9, <1>10

-----------------------------------------------------------------------------
(* The transfers and the balance *)

SignedOf(t) == IF t.direction = "Incoming" THEN t.amount ELSE -t.amount

Total(ts) == SumFunction([i \in DOMAIN ts |-> SignedOf(ts[i])])

LEMMA BalanceIsTotal ==
    BalanceIsTheTransfers <=> balance = Start + Total(transfers)
BY DEF BalanceIsTheTransfers, Total, SignedOf, Signed

LEMMA SignedType ==
    ASSUME NEW t \in TransferRecords PROVE SignedOf(t) \in Int
BY DEF SignedOf, TransferRecords

(* What a transfer added to the list does to the total. *)
LEMMA TotalAppend ==
    ASSUME NEW ts \in Seq(TransferRecords), NEW t \in TransferRecords
    PROVE  Total(ts) \in Int /\ Total(Append(ts, t)) = Total(ts) + SignedOf(t)
<1> DEFINE n == Len(ts)
           us == Append(ts, t)
           f == [i \in DOMAIN ts |-> SignedOf(ts[i])]
           g == [i \in DOMAIN us |-> SignedOf(us[i])]
<1>1. /\ n \in Nat /\ DOMAIN ts = 1..n /\ DOMAIN us = 1..(n + 1)
      /\ \A i \in 1..n : us[i] = ts[i] /\ ts[i] \in TransferRecords
      /\ us[n + 1] = t
    OBVIOUS
<1>2. f \in [1..n -> Int]
    BY <1>1, SignedType
<1>3. \A i \in 1..(n + 1) : i \in 1..n \/ i = n + 1
    BY <1>1
<1>4. g \in [1..(n + 1) -> Int]
    BY <1>1, <1>3, SignedType
<1>5. (\A i \in 1..n : g[i] = f[i]) /\ g[n + 1] = SignedOf(t)
    BY <1>1
<1>6. Total(ts) = SumFunction(f) /\ Total(us) = SumFunction(g)
    BY DEF Total
<1>7. SumFunction(f) \in Int /\ SumFunction(g) = SumFunction(f) + g[n + 1]
    <2> HIDE DEF n, us, f, g
    <2> QED BY <1>1, <1>2, <1>4, <1>5, SumAppend
<1> QED BY <1>5, <1>6, <1>7

(* The total does not depend on the transfers' status. *)
LEMMA TotalSame ==
    ASSUME NEW ts, NEW us, DOMAIN us = DOMAIN ts,
           \A i \in DOMAIN ts : us[i].direction = ts[i].direction
                                   /\ us[i].amount = ts[i].amount
    PROVE  Total(us) = Total(ts)
<1>1. [i \in DOMAIN us |-> SignedOf(us[i])] = [i \in DOMAIN ts |-> SignedOf(ts[i])]
    BY DEF SignedOf
<1> QED BY <1>1 DEF Total

-----------------------------------------------------------------------------
(* The books: every action that touches them *)

LEMMA BooksInit == Init => BooksInv
<1> SUFFICES ASSUME Init PROVE BooksInv
    OBVIOUS
<1>1. balance = Start /\ transfers = <<>> /\ sends = <<>>
      /\ watcher = [last |-> 0, next |-> 0, to |-> 0]
    BY DEF Init
<1>2. BooksTypes
    BY <1>1, WalletAssumption DEF BooksTypes
<1>3. TransfersAreReal /\ OneTransferPerHash /\ WatcherInv
    BY <1>1 DEF TransfersAreReal, OneTransferPerHash, WatcherInv
<1>4. BalanceIsTheTransfers
    <2>1. DOMAIN transfers = {}
        BY <1>1
    <2>2. SumFunction([i \in DOMAIN transfers |-> Signed(i)])
              = SumFunctionOnSet([i \in DOMAIN transfers |-> Signed(i)], {})
        BY <2>1 DEF SumFunction
    <2>3. SumFunction([i \in DOMAIN transfers |-> Signed(i)]) = 0
        BY <2>2, SumUnfolds
    <2> QED BY <2>3, <1>1, WalletAssumption DEF BalanceIsTheTransfers
<1> QED BY <1>2, <1>3, <1>4 DEF BooksInv

LEMMA BooksKept ==
    ASSUME BooksInv, UNCHANGED <<balance, transfers, sends, watcher>>
    PROVE  BooksInv'
<1>1. BooksTypes' /\ TransfersAreReal' /\ OneTransferPerHash' /\ WatcherInv'
    BY DEF BooksInv, BooksTypes, TransfersAreReal, OneTransferPerHash, WatcherInv, Seen
<1>2. BalanceIsTheTransfers'
    BY BalanceIsTotal DEF BooksInv, BalanceIsTheTransfers, Signed
<1> QED BY <1>1, <1>2 DEF BooksInv

(* A transfer that is added: what the new list is. *)
LEMMA Appended ==
    ASSUME NEW t \in TransferRecords, transfers \in Seq(TransferRecords),
           transfers' = Append(transfers, t)
    PROVE  /\ transfers' \in Seq(TransferRecords)
           /\ Len(transfers) \in Nat
           /\ DOMAIN transfers = 1..Len(transfers)
           /\ DOMAIN transfers' = 1..(Len(transfers) + 1)
           /\ \A i \in DOMAIN transfers : transfers'[i] = transfers[i]
           /\ transfers'[Len(transfers) + 1] = t
           /\ \A i \in DOMAIN transfers' :
                 i \in DOMAIN transfers \/ i = Len(transfers) + 1
           /\ \A h : Seen(h) => Seen(h)'
<1>1. /\ transfers' \in Seq(TransferRecords)
      /\ Len(transfers) \in Nat
      /\ DOMAIN transfers = 1..Len(transfers)
      /\ DOMAIN transfers' = 1..(Len(transfers) + 1)
      /\ \A i \in DOMAIN transfers : transfers'[i] = transfers[i]
      /\ transfers'[Len(transfers) + 1] = t
    OBVIOUS
<1>2. \A i \in DOMAIN transfers' : i \in DOMAIN transfers \/ i = Len(transfers) + 1
    BY <1>1
<1>3. \A i \in DOMAIN transfers : i \in DOMAIN transfers'
    BY <1>1
<1>4. \A h : Seen(h) => Seen(h)'
    BY <1>1, <1>3 DEF Seen
<1> QED BY <1>1, <1>2, <1>4

(* A withdrawal that is taken keeps the books. *)
LEMMA BooksWithdraw ==
    ASSUME BooksInv, NEW w \in Writes, balance - w.amount >= 0,
           transfers' = Append(transfers,
               [direction |-> "Outgoing", amount |-> w.amount, to |-> w.address,
                status |-> "Pending", hash |-> NoHash, polls |-> 0, by |-> {w.call}]),
           balance' = balance - w.amount, UNCHANGED <<sends, watcher>>
    PROVE  BooksInv'
<1> DEFINE t == [direction |-> "Outgoing", amount |-> w.amount, to |-> w.address,
                 status |-> "Pending", hash |-> NoHash, polls |-> 0, by |-> {w.call}]
<1>1. t \in TransferRecords /\ w.amount \in Nat
    BY DEF TransferRecords, Writes, NoHash
<1>2. /\ t.direction = "Outgoing" /\ t.hash = 0 /\ t.polls = 0
      /\ t.status = "Pending" /\ t.amount = w.amount
    BY DEF NoHash
<1>3. /\ transfers \in Seq(TransferRecords) /\ balance \in Nat
      /\ sends \in Seq(Seq(Amounts) \ {<<>>})
    BY DEF BooksInv, BooksTypes
<1>4. transfers' = Append(transfers, t)
    OBVIOUS
<1> HIDE DEF t
<1>5. /\ transfers' \in Seq(TransferRecords)
      /\ Len(transfers) \in Nat
      /\ \A i \in DOMAIN transfers : transfers'[i] = transfers[i]
      /\ transfers'[Len(transfers) + 1] = t
      /\ \A i \in DOMAIN transfers' :
                 i \in DOMAIN transfers \/ i = Len(transfers) + 1
      /\ \A h : Seen(h) => Seen(h)'
    BY <1>1, <1>3, <1>4, Appended
<1>6. BooksTypes'
    BY <1>1, <1>3, <1>5 DEF BooksInv, BooksTypes
<1>7. sends' = sends /\ watcher' = watcher
    OBVIOUS
<1>8. TransfersAreReal'
    BY <1>2, <1>5, <1>7, WalletAssumption DEF BooksInv, TransfersAreReal, NoHash
<1>9. 0 \notin DOMAIN sends
    BY <1>3
<1>10. OneTransferPerHash'
    BY <1>2, <1>5, <1>7, <1>9 DEF BooksInv, OneTransferPerHash
<1>11. WatcherInv'
    BY <1>5, <1>7 DEF BooksInv, WatcherInv
<1>12. BalanceIsTheTransfers'
    <2>1. Total(transfers) \in Int /\ Total(transfers') = Total(transfers) + SignedOf(t)
        BY <1>1, <1>3, <1>4, TotalAppend
    <2>2. SignedOf(t) = -w.amount
        BY <1>2 DEF SignedOf
    <2>3. balance = Start + Total(transfers)
        BY BalanceIsTotal DEF BooksInv
    <2>4. balance' = Start + Total(transfers')
        BY <2>1, <2>2, <2>3, <1>1, <1>3, WalletAssumption
    <2> QED BY <2>4, BalanceIsTotal DEF Total, BalanceIsTheTransfers, Signed, SignedOf
<1> QED BY <1>6, <1>8, <1>10, <1>11, <1>12 DEF BooksInv

(* A block that is scanned is credited once, and keeps everything but the
   watcher's place. *)
LEMMA Credited ==
    ASSUME BooksInv, NEW b \in DOMAIN sends, scan_block_for_deposits(b), sends' = sends
    PROVE  /\ balance' \in Nat /\ transfers' \in Seq(TransferRecords)
           /\ TransfersAreReal' /\ OneTransferPerHash' /\ BalanceIsTheTransfers'
           /\ Seen(b)' /\ \A h : Seen(h) => Seen(h)'
<1>1. CASE Seen(b)
    <2>1. balance' = balance /\ transfers' = transfers
        BY <1>1 DEF scan_block_for_deposits
    <2>2. balance' \in Nat /\ transfers' \in Seq(TransferRecords)
        BY <2>1 DEF BooksInv, BooksTypes
    <2>3. TransfersAreReal' /\ OneTransferPerHash' /\ Seen(b)' /\ \A h : Seen(h) => Seen(h)'
        BY <2>1, <1>1 DEF BooksInv, TransfersAreReal, OneTransferPerHash, Seen
    <2>4. BalanceIsTheTransfers'
        BY <2>1 DEF BooksInv, BalanceIsTheTransfers, Signed
    <2> QED BY <2>2, <2>3, <2>4
<1>2. CASE ~Seen(b)
    <2> DEFINE t == [direction |-> "Incoming", amount |-> Head(sends[b]),
                     to |-> Idle.address, status |-> "Complete", hash |-> b,
                     polls |-> 0, by |-> {}]
    <2>1. balance' = balance + Head(sends[b]) /\ transfers' = Append(transfers, t)
        BY <1>2 DEF scan_block_for_deposits
    <2>2. /\ transfers \in Seq(TransferRecords) /\ balance \in Nat
          /\ sends \in Seq(Seq(Amounts) \ {<<>>})
        BY DEF BooksInv, BooksTypes
    <2>3. b \in Nat /\ b # 0 /\ sends[b] \in Seq(Amounts) /\ sends[b] # <<>>
        BY <2>2
    <2>4. Head(sends[b]) \in Amounts
        BY <2>3
    <2>5. Head(sends[b]) \in Nat
        BY <2>4, WalletAssumption
    <2>6. t \in TransferRecords
        BY <2>3, <2>5 DEF TransferRecords, Destinations
    <2>7. /\ t.direction = "Incoming" /\ t.amount = Head(sends[b])
          /\ t.status = "Complete" /\ t.hash = b /\ t.polls = 0
        OBVIOUS
    <2> HIDE DEF t
    <2>8. /\ transfers' \in Seq(TransferRecords)
          /\ Len(transfers) \in Nat
          /\ DOMAIN transfers' = 1..(Len(transfers) + 1)
          /\ \A i \in DOMAIN transfers : transfers'[i] = transfers[i]
          /\ transfers'[Len(transfers) + 1] = t
          /\ \A i \in DOMAIN transfers' :
                 i \in DOMAIN transfers \/ i = Len(transfers) + 1
          /\ \A h : Seen(h) => Seen(h)'
        BY <2>1, <2>2, <2>6, Appended
    <2>9. balance' \in Nat
        BY <2>1, <2>2, <2>5
    <2>10. Len(transfers) + 1 \in DOMAIN transfers'
        BY <2>8
    <2>11. Seen(b)'
        BY <2>7, <2>8, <2>10 DEF Seen
    <2>12. TransfersAreReal'
        BY <2>3, <2>7, <2>8, WalletAssumption DEF BooksInv, TransfersAreReal, NoHash
    <2>13. \A i \in DOMAIN transfers : transfers[i].hash # b
        BY <1>2 DEF Seen
    <2>14. OneTransferPerHash'
        BY <2>7, <2>8, <2>13 DEF BooksInv, OneTransferPerHash
    <2>15. BalanceIsTheTransfers'
        <3>1. Total(transfers) \in Int /\ Total(transfers') = Total(transfers) + SignedOf(t)
            BY <2>1, <2>2, <2>6, TotalAppend
        <3>2. SignedOf(t) = Head(sends[b])
            BY <2>7 DEF SignedOf
        <3>3. balance = Start + Total(transfers)
            BY BalanceIsTotal DEF BooksInv
        <3>4. PICK h \in Nat, a \in Int : h = Head(sends[b]) /\ a = Total(transfers)
            BY <2>5, <3>1
        <3>5. (Start + a) + h = Start + (a + h)
            BY WalletAssumption
        <3>6. balance' = Start + Total(transfers')
            BY <3>1, <3>2, <3>3, <3>4, <3>5, <2>1
        <3> QED BY <3>6, BalanceIsTotal DEF Total, BalanceIsTheTransfers, Signed, SignedOf
    <2> QED BY <2>8, <2>9, <2>11, <2>12, <2>14, <2>15
<1> QED BY <1>1, <1>2

LEMMA BooksScanStart == ASSUME BooksInv, ScanStart PROVE BooksInv'
<1>1. /\ UNCHANGED <<balance, transfers, sends>>
      /\ watcher.next = 0 /\ watcher.last < Len(sends)
      /\ watcher' = [watcher EXCEPT !.next = watcher.last + 1, !.to = Len(sends)]
    BY DEF ScanStart
<1>2. watcher \in [last : Nat, next : Nat, to : Nat]
      /\ sends \in Seq(Seq(Amounts) \ {<<>>})
    BY DEF BooksInv, BooksTypes
<1>3. /\ watcher' \in [last : Nat, next : Nat, to : Nat]
      /\ watcher'.last = watcher.last /\ watcher'.next = watcher.last + 1
      /\ watcher'.to = Len(sends)
    <2>1. PICK n \in Nat, m \in Nat : n = Len(sends) /\ m = watcher.last + 1
        BY <1>2
    <2>2. watcher' = [watcher EXCEPT !.next = m, !.to = n]
        BY <1>1, <2>1
    <2>3. watcher \in [last : Nat, next : Nat, to : Nat]
        BY <1>2
    <2>4. watcher' \in [last : Nat, next : Nat, to : Nat]
        BY <2>2, <2>3
    <2>5. watcher'.last = watcher.last /\ watcher'.next = m /\ watcher'.to = n
        BY <2>2, <2>3
    <2> QED BY <2>1, <2>4, <2>5
<1>4. BooksTypes'
    BY <1>1, <1>3 DEF BooksInv, BooksTypes
<1>5. TransfersAreReal' /\ OneTransferPerHash'
    BY <1>1 DEF BooksInv, TransfersAreReal, OneTransferPerHash
<1>6. BalanceIsTheTransfers'
    BY <1>1 DEF BooksInv, BalanceIsTheTransfers, Signed
<1>7. WatcherInv'
    <2>1. \A b \in DOMAIN sends : b \in Nat
        BY <1>2
    <2>2. \A b \in DOMAIN sends : b <= watcher.last \/ b < watcher.last + 1 => Seen(b)
        BY <2>1, <1>2 DEF BooksInv, WatcherInv
    <2> QED BY <1>1, <1>2, <1>3, <2>2 DEF WatcherInv, Seen
<1> QED BY <1>4, <1>5, <1>6, <1>7 DEF BooksInv

LEMMA BooksScanBlock == ASSUME BooksInv, ScanBlock PROVE BooksInv'
<1>1. /\ sends' = sends /\ watcher.next # 0 /\ scan_block_for_deposits(watcher.next)
      /\ watcher' = IF watcher.next = watcher.to
                    THEN [last |-> watcher.to, next |-> 0, to |-> 0]
                    ELSE [watcher EXCEPT !.next = @ + 1]
    BY DEF ScanBlock
<1>2. watcher \in [last : Nat, next : Nat, to : Nat]
      /\ sends \in Seq(Seq(Amounts) \ {<<>>})
    BY DEF BooksInv, BooksTypes
<1>3. /\ watcher.last < watcher.next /\ watcher.next <= watcher.to
      /\ watcher.to <= Len(sends)
      /\ \A b \in DOMAIN sends : b < watcher.next => Seen(b)
    BY <1>1 DEF BooksInv, WatcherInv
<1>4. watcher.next \in DOMAIN sends
    BY <1>1, <1>2, <1>3
<1>5. /\ balance' \in Nat /\ transfers' \in Seq(TransferRecords)
      /\ TransfersAreReal' /\ OneTransferPerHash' /\ BalanceIsTheTransfers'
      /\ \A h : h = watcher.next => Seen(h)'
      /\ \A h : Seen(h) => Seen(h)'
    <2>1. PICK b \in DOMAIN sends : b = watcher.next
        BY <1>4
    <2>2. scan_block_for_deposits(b)
        BY <1>1, <2>1
    <2> QED BY <2>1, <2>2, <1>1, Credited
<1>6. \A b \in DOMAIN sends : b \in Nat /\ (b <= watcher.next => Seen(b)')
    BY <1>2, <1>3, <1>5
<1>7. watcher' \in [last : Nat, next : Nat, to : Nat]
    BY <1>1, <1>2
<1>8. BooksTypes'
    BY <1>1, <1>2, <1>5, <1>7 DEF BooksTypes
<1>9. WatcherInv'
    <2>1. CASE watcher.next = watcher.to
        <3>1. watcher'.last = watcher.next /\ watcher'.next = 0
            BY <1>1, <2>1
        <3>2. \A b \in DOMAIN sends : b <= watcher.next \/ b < 0 => Seen(b)'
            BY <1>6
        <3> QED BY <3>1, <3>2, <2>1, <1>1, <1>3 DEF WatcherInv
    <2>2. CASE watcher.next # watcher.to
        <3>1. /\ watcher'.last = watcher.last /\ watcher'.next = watcher.next + 1
              /\ watcher'.to = watcher.to
            BY <1>1, <1>2, <2>2
        <3>2. \A b \in DOMAIN sends :
                 b <= watcher.last \/ b < watcher.next + 1 => Seen(b)'
            BY <1>6, <1>2, <1>3
        <3>3. /\ watcher.last <= Len(sends)
              /\ watcher.last < watcher.next + 1 /\ watcher.next + 1 <= watcher.to
            BY <1>2, <1>3, <2>2
        <3> QED BY <3>1, <3>2, <3>3, <1>1, <1>3 DEF WatcherInv
    <2> QED BY <2>1, <2>2
<1> QED BY <1>5, <1>8, <1>9 DEF BooksInv

LEMMA BooksScanFails == ASSUME BooksInv, ScanFails PROVE BooksInv'
<1>1. /\ sends' = sends /\ watcher.next # 0
      /\ watcher' = [watcher EXCEPT !.next = 0, !.to = 0]
    BY DEF ScanFails
<1>2. watcher \in [last : Nat, next : Nat, to : Nat]
      /\ sends \in Seq(Seq(Amounts) \ {<<>>})
    BY DEF BooksInv, BooksTypes
<1>3. watcher.next \in DOMAIN sends
    BY <1>1, <1>2 DEF BooksInv, WatcherInv
<1>4. /\ balance' \in Nat /\ transfers' \in Seq(TransferRecords)
      /\ TransfersAreReal' /\ OneTransferPerHash' /\ BalanceIsTheTransfers'
      /\ \A h : Seen(h) => Seen(h)'
    <2>1. CASE UNCHANGED <<balance, transfers>>
        <3>1. BalanceIsTheTransfers'
            BY <2>1 DEF BooksInv, BalanceIsTheTransfers, Signed
        <3>2. TransfersAreReal' /\ OneTransferPerHash' /\ \A h : Seen(h) => Seen(h)'
            BY <2>1, <1>1 DEF BooksInv, TransfersAreReal, OneTransferPerHash, Seen
        <3> QED BY <2>1, <3>1, <3>2 DEF BooksInv, BooksTypes
    <2>2. CASE scan_block_for_deposits(watcher.next)
        <3>1. PICK b \in DOMAIN sends : b = watcher.next
            BY <1>3
        <3>2. scan_block_for_deposits(b)
            BY <2>2, <3>1
        <3> QED BY <3>2, <1>1, Credited
    <2> QED BY <2>1, <2>2 DEF ScanFails
<1>5. /\ watcher' \in [last : Nat, next : Nat, to : Nat]
      /\ watcher'.last = watcher.last /\ watcher'.next = 0
    BY <1>1, <1>2
<1>6. BooksTypes'
    BY <1>1, <1>2, <1>4, <1>5 DEF BooksTypes
<1>7. WatcherInv'
    <2>1. \A b \in DOMAIN sends : b \in Nat /\ (b <= watcher.last => Seen(b)')
        BY <1>2, <1>4 DEF BooksInv, WatcherInv
    <2>2. watcher.last <= Len(sends)
        BY DEF BooksInv, WatcherInv
    <2> QED BY <2>1, <2>2, <1>1, <1>5 DEF WatcherInv
<1> QED BY <1>4, <1>6, <1>7 DEF BooksInv

LEMMA BooksDeposit == ASSUME BooksInv, Deposit PROVE BooksInv'
<1>1. PICK logs \in {<<a>> : a \in Amounts} \cup {<<a, b>> : a, b \in Amounts} :
         sends' = Append(sends, logs)
    BY DEF Deposit
<1>2. UNCHANGED <<balance, transfers, watcher>>
    BY DEF Deposit
<1>3. logs \in Seq(Amounts) \ {<<>>}
    <2>1. CASE \E a \in Amounts : logs = <<a>>
        BY <2>1
    <2>2. CASE \E a, b \in Amounts : logs = <<a, b>>
        BY <2>2
    <2> QED BY <2>1, <2>2, <1>1
<1>4. sends \in Seq(Seq(Amounts) \ {<<>>}) /\ watcher \in [last : Nat, next : Nat, to : Nat]
    BY DEF BooksInv, BooksTypes
<1>5. /\ sends' \in Seq(Seq(Amounts) \ {<<>>})
      /\ Len(sends) \in Nat /\ Len(sends') = Len(sends) + 1
      /\ DOMAIN sends = 1..Len(sends) /\ DOMAIN sends' = 1..(Len(sends) + 1)
      /\ \A b \in DOMAIN sends : sends'[b] = sends[b]
    BY <1>1, <1>3, <1>4
<1>6. \A b \in DOMAIN sends : b \in DOMAIN sends'
    BY <1>5
<1>7. BooksTypes'
    BY <1>2, <1>5 DEF BooksInv, BooksTypes
<1>8. TransfersAreReal'
    BY <1>2, <1>5, <1>6 DEF BooksInv, TransfersAreReal
<1>9. OneTransferPerHash'
    <2> SUFFICES ASSUME NEW i \in DOMAIN transfers, NEW j \in DOMAIN transfers,
                        transfers[i].hash = transfers[j].hash,
                        transfers[i].hash \in DOMAIN sends'
                 PROVE  i = j
        BY <1>2 DEF OneTransferPerHash
    <2>1. transfers[i].hash # 0 /\ transfers[i].hash # -1
        BY <1>5
    <2>2. transfers[i].direction \in {"Incoming", "Outgoing"}
        <3>1. transfers \in Seq(TransferRecords)
            BY DEF BooksInv, BooksTypes
        <3>2. transfers[i] \in TransferRecords
            BY <3>1
        <3> QED BY <3>2 DEF TransferRecords
    <2>3. transfers[i].hash \in DOMAIN sends
        BY <2>1, <2>2 DEF BooksInv, TransfersAreReal, NoHash, OutHash
    <2> QED BY <2>3 DEF BooksInv, OneTransferPerHash
<1>10. BalanceIsTheTransfers'
    BY <1>2 DEF BooksInv, BalanceIsTheTransfers, Signed
<1>11. WatcherInv'
    <2>1. /\ watcher.last <= Len(sends)
          /\ watcher.next # 0 => /\ watcher.last < watcher.next
                                 /\ watcher.next <= watcher.to
                                 /\ watcher.to <= Len(sends)
          /\ \A b \in DOMAIN sends : b <= watcher.last \/ b < watcher.next => Seen(b)
        BY DEF BooksInv, WatcherInv
    <2>2. \A b \in DOMAIN sends' : b <= watcher.last \/ b < watcher.next
                                       => b \in DOMAIN sends
        BY <2>1, <1>4, <1>5
    <2>3. \A b : Seen(b) => Seen(b)'
        BY <1>2 DEF Seen
    <2>4. watcher.last <= Len(sends') /\ (watcher.to <= Len(sends) => watcher.to <= Len(sends'))
        BY <2>1, <1>4, <1>5
    <2> QED BY <1>2, <2>1, <2>2, <2>3, <2>4 DEF WatcherInv
<1> QED BY <1>7, <1>8, <1>9, <1>10, <1>11 DEF BooksInv

(* A read moves a transfer on, and never changes what it moves. *)
LEMMA Advanced ==
    ASSUME NEW t \in TransferRecords, NEW u, u = advance_wallet_transfer_status(t),
           t.polls <= UntilComplete,
           t.status # "Complete" => t.polls < UntilComplete,
           t.status = "Complete" <=> t.hash # NoHash
    PROVE  /\ u \in TransferRecords
           /\ u.direction = t.direction /\ u.amount = t.amount /\ u.to = t.to
           /\ u.by = t.by
           /\ u.hash \in {t.hash, OutHash} /\ (t.hash # NoHash => u.hash = t.hash)
           /\ u.polls <= UntilComplete
           /\ u.status # "Complete" => u.polls < UntilComplete
           /\ u.status = "Complete" <=> u.hash # NoHash
<1>1. UntilComplete \in Nat /\ t.polls \in Nat /\ t.hash \in Int
    BY WalletAssumption DEF TransferRecords
<1>2. CASE t.status = "Complete"
    BY <1>2 DEF advance_wallet_transfer_status
<1>3. CASE t.status # "Complete" /\ t.polls + 1 >= UntilComplete
    <2>1. u = [t EXCEPT !.polls = @ + 1, !.status = "Complete", !.hash = OutHash]
        BY <1>3 DEF advance_wallet_transfer_status
    <2>2. u \in TransferRecords
        <3>1. PICK p \in Nat, h \in Int : p = t.polls + 1 /\ h = OutHash
            BY <1>1 DEF OutHash
        <3>2. u = [t EXCEPT !.polls = p, !.status = "Complete", !.hash = h]
            BY <2>1, <3>1
        <3> QED BY <3>1, <3>2 DEF TransferRecords
    <2>3. /\ u.direction = t.direction /\ u.amount = t.amount /\ u.to = t.to
          /\ u.by = t.by
          /\ u.hash = OutHash /\ u.polls = t.polls + 1 /\ u.status = "Complete"
        BY <2>1 DEF TransferRecords
    <2> QED BY <2>2, <2>3, <1>1, <1>3 DEF NoHash, OutHash
<1>4. CASE t.status # "Complete" /\ ~(t.polls + 1 >= UntilComplete)
    <2>1. u = [t EXCEPT !.polls = @ + 1, !.status = "Processing"]
        BY <1>4 DEF advance_wallet_transfer_status
    <2>2. u \in TransferRecords
        <3>1. PICK p \in Nat : p = t.polls + 1
            BY <1>1
        <3>2. u = [t EXCEPT !.polls = p, !.status = "Processing"]
            BY <2>1, <3>1
        <3> QED BY <3>1, <3>2 DEF TransferRecords
    <2>3. /\ u.direction = t.direction /\ u.amount = t.amount /\ u.to = t.to
          /\ u.by = t.by
          /\ u.hash = t.hash /\ u.polls = t.polls + 1 /\ u.status = "Processing"
        BY <2>1 DEF TransferRecords
    <2> QED BY <2>2, <2>3, <1>1, <1>4
<1> QED BY <1>2, <1>3, <1>4

LEMMA AllAdvanced ==
    ASSUME BooksInv, ReadTransfers
    PROVE  /\ transfers' \in Seq(TransferRecords) /\ DOMAIN transfers' = DOMAIN transfers
           /\ \A i \in DOMAIN transfers :
                 LET t == transfers[i]
                     u == transfers'[i]
                 IN  /\ u \in TransferRecords
                     /\ u.direction = t.direction /\ u.amount = t.amount /\ u.to = t.to
                     /\ u.by = t.by
                     /\ u.hash \in {t.hash, OutHash} /\ (t.hash # NoHash => u.hash = t.hash)
                     /\ u.polls <= UntilComplete
                     /\ u.status # "Complete" => u.polls < UntilComplete
                     /\ u.status = "Complete" <=> u.hash # NoHash
<1>1. PICK read \in {DOMAIN transfers} \cup {{i} : i \in DOMAIN transfers} :
          transfers' = [i \in DOMAIN transfers |->
                           IF i \in read THEN advance_wallet_transfer_status(transfers[i])
                           ELSE transfers[i]]
    BY DEF ReadTransfers
<1>2. transfers \in Seq(TransferRecords)
    BY DEF BooksInv, BooksTypes
<1>3. ASSUME NEW i \in DOMAIN transfers
      PROVE  LET t == transfers[i]
                 u == transfers'[i]
             IN  /\ u \in TransferRecords
                 /\ u.direction = t.direction /\ u.amount = t.amount /\ u.to = t.to
                 /\ u.by = t.by
                 /\ u.hash \in {t.hash, OutHash} /\ (t.hash # NoHash => u.hash = t.hash)
                 /\ u.polls <= UntilComplete
                 /\ u.status # "Complete" => u.polls < UntilComplete
                 /\ u.status = "Complete" <=> u.hash # NoHash
    <2>1. PICK t \in TransferRecords : t = transfers[i]
        BY <1>2, <1>3
    <2>2. /\ t.polls <= UntilComplete
          /\ t.status # "Complete" => t.polls < UntilComplete
          /\ t.status = "Complete" <=> t.hash # NoHash
        BY <1>3, <2>1 DEF BooksInv, TransfersAreReal
    <2>3. CASE i \in read
        <3>1. transfers'[i] = advance_wallet_transfer_status(t)
            BY <1>1, <1>3, <2>1, <2>3
        <3> QED BY <2>1, <2>2, <3>1, Advanced
    <2>4. CASE i \notin read
        <3>1. transfers'[i] = t
            BY <1>1, <1>3, <2>1, <2>4
        <3> QED BY <2>1, <2>2, <3>1
    <2> QED BY <2>3, <2>4
<1>4. DOMAIN transfers' = 1..Len(transfers) /\ Len(transfers) \in Nat
      /\ DOMAIN transfers = 1..Len(transfers)
    BY <1>1, <1>2
<1>5. transfers' \in [1..Len(transfers) -> TransferRecords]
    BY <1>1, <1>3, <1>4
<1>6. transfers' \in Seq(TransferRecords)
    BY <1>4, <1>5, SeqDef
<1> QED BY <1>3, <1>4, <1>6

LEMMA BooksReadTransfers == ASSUME BooksInv, ReadTransfers PROVE BooksInv'
<1>1. UNCHANGED <<balance, sends, watcher>>
    BY DEF ReadTransfers, mock
<1>2. sends \in Seq(Seq(Amounts) \ {<<>>}) /\ transfers \in Seq(TransferRecords)
    BY DEF BooksInv, BooksTypes
<1>3. transfers' \in Seq(TransferRecords) /\ DOMAIN transfers' = DOMAIN transfers
    BY AllAdvanced
<1>4. \A i \in DOMAIN transfers :
         /\ transfers'[i].direction = transfers[i].direction
         /\ transfers'[i].amount = transfers[i].amount
         /\ transfers'[i].hash \in {transfers[i].hash, OutHash}
         /\ transfers[i].hash # NoHash => transfers'[i].hash = transfers[i].hash
         /\ transfers'[i].polls <= UntilComplete
         /\ transfers'[i].status # "Complete" => transfers'[i].polls < UntilComplete
         /\ transfers'[i].status = "Complete" <=> transfers'[i].hash # NoHash
    BY AllAdvanced
<1>5. \A b \in DOMAIN sends : b # NoHash /\ b # OutHash
    BY <1>2 DEF NoHash, OutHash
<1>6. BooksTypes'
    BY <1>1, <1>3 DEF BooksInv, BooksTypes
<1>7. TransfersAreReal'
    <2> SUFFICES ASSUME NEW i \in DOMAIN transfers
                 PROVE  /\ transfers[i].direction = "Outgoing"
                              => transfers'[i].hash \in {NoHash, OutHash}
                        /\ transfers[i].direction = "Incoming" =>
                              /\ transfers'[i].hash \in DOMAIN sends
                              /\ transfers[i].amount = Head(sends[transfers'[i].hash])
        BY <1>1, <1>3, <1>4 DEF TransfersAreReal
    <2>1. transfers[i].direction = "Outgoing" => transfers[i].hash \in {NoHash, OutHash}
        BY DEF BooksInv, TransfersAreReal
    <2>2. transfers[i].direction = "Incoming" =>
             /\ transfers[i].hash \in DOMAIN sends
             /\ transfers[i].amount = Head(sends[transfers[i].hash])
        BY DEF BooksInv, TransfersAreReal
    <2> QED BY <2>1, <2>2, <1>4, <1>5
<1>8. OneTransferPerHash'
    <2>1. \A i \in DOMAIN transfers : transfers'[i].hash \in DOMAIN sends
              => transfers'[i].hash = transfers[i].hash
        BY <1>4, <1>5
    <2> QED BY <2>1, <1>1, <1>3 DEF BooksInv, OneTransferPerHash
<1>9. BalanceIsTheTransfers'
    <2>1. Total(transfers') = Total(transfers)
        BY <1>3, <1>4, TotalSame
    <2>2. balance' = Start + Total(transfers')
        BY <2>1, <1>1, BalanceIsTotal DEF BooksInv
    <2> QED BY <2>2 DEF Total, BalanceIsTheTransfers, Signed, SignedOf
<1>10. WatcherInv'
    <2>1. \A b \in DOMAIN sends : Seen(b) => Seen(b)'
        BY <1>3, <1>4, <1>5 DEF Seen
    <2> QED BY <2>1, <1>1 DEF BooksInv, WatcherInv
<1> QED BY <1>6, <1>7, <1>8, <1>9, <1>10 DEF BooksInv

-----------------------------------------------------------------------------
(* The calls *)

\* What a step may never do to a call under way: start over, or change lanes.
Steady ==
    \A d \in Calls : calls[d].pc # "idle"
        => calls'[d].pc # "idle" /\ calls'[d].tier = calls[d].tier

(* A step of one call, which was not ended, leaves the others' invariants. *)
LEMMA OneCall ==
    ASSUME CallsInv, NEW c \in Calls, calls[c].told = "none",
           NEW r \in CallRecords, calls' = [calls EXCEPT ![c] = r],
           r.pc # "idle", calls[c].pc # "idle" => r.tier = calls[c].tier,
           whitelist' \in Seq(Entries), changed' \in SUBSET (Calls \X Nat),
           \A d \in Calls \ {c} : Mine(d, changed') = Mine(d, changed),
           CallInv(r, Mine(c, changed')),
           stray' \in SUBSET Writes,
           \A w \in stray' : w \in stray \/ (w.call = c /\ StrayOk(w, r))
    PROVE  CallsInv' /\ Steady
<1>1. calls \in [Calls -> CallRecords] /\ stray \in SUBSET Writes
    BY DEF CallsInv, CallTypes
<1>2. /\ calls' \in [Calls -> CallRecords] /\ calls'[c] = r
      /\ \A d \in Calls : d # c => calls'[d] = calls[d]
    BY <1>1
<1>3. CallTypes'
    BY <1>2 DEF CallTypes
<1>4. \A d \in Calls : CallInv(calls'[d], Mine(d, changed'))
    BY <1>2 DEF CallsInv
<1>5. \A w \in stray' : StrayOk(w, calls'[w.call])
    <2> SUFFICES ASSUME NEW w \in stray' PROVE StrayOk(w, calls'[w.call])
        OBVIOUS
    <2>1. CASE w \in stray
        <3>1. StrayOk(w, calls[w.call]) /\ w.call \in Calls
            BY <2>1, <1>1 DEF CallsInv, Writes
        <3>2. w.call # c
            BY <3>1 DEF StrayOk
        <3> QED BY <3>1, <3>2, <1>2
    <2>2. CASE w.call = c /\ StrayOk(w, r)
        BY <2>2, <1>2
    <2> QED BY <2>1, <2>2
<1>6. Steady
    BY <1>2 DEF Steady
<1> QED BY <1>3, <1>4, <1>5, <1>6 DEF CallsInv

LEMMA CallsKept ==
    ASSUME CallsInv, UNCHANGED <<calls, stray, changed>>, whitelist' \in Seq(Entries)
    PROVE  CallsInv' /\ Steady
<1>1. CallTypes'
    BY DEF CallsInv, CallTypes
<1>2. \A c \in Calls : CallInv(calls'[c], Mine(c, changed'))
    BY DEF CallsInv
<1>3. \A w \in stray' : StrayOk(w, calls'[w.call])
    BY DEF CallsInv
<1> QED BY <1>1, <1>2, <1>3 DEF CallsInv, Steady

LEMMA LanesKept ==
    ASSUME LaneInv, Steady, transfers \in Seq(TransferRecords),
           transfers' \in Seq(TransferRecords),
           \A i \in DOMAIN transfers' :
               \/ /\ i \in DOMAIN transfers /\ transfers'[i].by = transfers[i].by
                  /\ transfers'[i].to = transfers[i].to
               \/ \A c \in transfers'[i].by : /\ calls'[c].pc # "idle"
                                              /\ Lane(calls'[c].tier, transfers'[i].to)
    PROVE  LaneInv'
<1> SUFFICES ASSUME NEW i \in DOMAIN transfers', NEW c \in transfers'[i].by
             PROVE  calls'[c].pc # "idle" /\ Lane(calls'[c].tier, transfers'[i].to)
    BY DEF LaneInv, Lane
<1>1. c \in Calls
    <2>1. transfers'[i] \in TransferRecords
        OBVIOUS
    <2> QED BY <2>1 DEF TransferRecords
<1> QED BY <1>1 DEF LaneInv, Steady

(* The check a withdrawal passes keeps it in its lane. *)
LEMMA CheckKeepsLanes ==
    ASSUME NEW tier \in {"bot", "write"}, NEW address,
           check_withdrawal_destination(tier, address) = "ok"
    PROVE  Lane(tier, address)
BY DEF check_withdrawal_destination, Lane

LEMMA IdleType ==
    /\ Idle \in CallRecords /\ Idle.pc = "idle" /\ Idle.told = "none" /\ Idle.op = "none"
    /\ Idle.entries = <<>> /\ Idle.done = 0 /\ Idle.named = {} /\ Written(Idle) = {}
<1>1. Idle \in CallRecords
    BY DEF Idle, CallRecords, Destinations, Ops
<1> QED BY <1>1 DEF Idle, Written

LEMMA CallsInit == Init => CallsInv /\ LaneInv
<1> SUFFICES ASSUME Init PROVE CallsInv /\ LaneInv
    OBVIOUS
<1>1. /\ calls = [c \in Calls |-> Idle] /\ stray = {} /\ changed = {} /\ transfers = <<>>
    BY DEF Init
<1>2. \A a \in Addresses : Entry(a, "Approved") \in Entries
    BY DEF Entry, Entries, Destinations
<1>3. whitelist \in Seq(Entries)
    <2>1. CASE whitelist = <<>>
        BY <2>1
    <2>2. CASE \E a, b \in Addresses :
                  whitelist = <<Entry(a, "Approved"), Entry(b, "Approved")>>
        BY <2>2, <1>2
    <2> QED BY <2>1, <2>2 DEF Init
<1>4. CallTypes
    BY <1>1, <1>3, IdleType DEF CallTypes
<1>5. \A c \in Calls : Mine(c, changed) = {}
    BY <1>1 DEF Mine
<1>6. CallInv(Idle, {})
    BY IdleType DEF CallInv
<1>7. \A c \in Calls : CallInv(calls[c], Mine(c, changed))
    BY <1>1, <1>5, <1>6
<1>8. LaneInv
    BY <1>1 DEF LaneInv
<1> QED BY <1>1, <1>4, <1>7, <1>8 DEF CallsInv

LEMMA CallsBegin ==
    ASSUME CallsInv, NEW c \in Calls, Begin(c) PROVE CallsInv' /\ Steady
<1>1. calls \in [Calls -> CallRecords] /\ CallTypes
    BY DEF CallsInv, CallTypes
<1>2. calls[c].pc = "idle" /\ UNCHANGED <<whitelist, stray, changed>>
    BY DEF Begin
<1>3. CallInv(calls[c], Mine(c, changed))
    BY DEF CallsInv
<1>4. /\ calls[c] \in CallRecords /\ calls[c].told = "none" /\ calls[c].done = 0
      /\ calls[c].entries = <<>>
    BY <1>1, <1>2, <1>3 DEF CallInv, CallRecords
<1>5. Mine(c, changed) = {}
    BY <1>2, <1>3, <1>4 DEF CallInv, Written
<1>6. PICK op \in {"withdraw", "create", "remove", "patch", "journal"},
           tier \in {"bot", "write"}, address \in Addresses, amount \in Amounts,
           name \in Counterparties \cup {NoOne} :
          /\ tier = "bot" => op = "withdraw"
          /\ op # "withdraw" => amount = Min(Amounts)
          /\ op # "journal" => name = NoOne
          /\ op \in {"patch", "journal"} => address = Idle.address
          /\ calls' = [calls EXCEPT ![c] =
                          begun(op, tier, address, amount,
                                first_check(op, tier, address, name))]
    BY Zenon DEF Begin
<1>7. PICK check : check = first_check(op, tier, address, name)
    OBVIOUS
<1> DEFINE r == begun(op, tier, address, amount, check)
<1>8. /\ r \in CallRecords
      /\ r.op = op /\ r.tier = tier /\ r.address = address
      /\ r.entries = (IF Reads(op) THEN <<>> ELSE <<Posted>>)
      /\ r.pc = (IF check # "ok" THEN "ended" ELSE IF Reads(op) THEN "read" ELSE "write")
      /\ r.told = (IF check = "ok" THEN "none" ELSE "not_applied")
      /\ r.done = 0 /\ r.named = {}
    <2>1. op \in Ops \ {"none"} /\ address \in Destinations /\ amount \in Nat
        BY WalletAssumption DEF Ops, Destinations
    <2>2. PICK entries \in Seq(Nat) : entries = IF Reads(op) THEN <<>> ELSE <<Posted>>
        <3>1. <<>> \in Seq(Nat) /\ <<Posted>> \in Seq(Nat)
            BY DEF Posted
        <3> QED BY <3>1
    <2>3. PICK place \in {"ended", "read", "write"} :
               place = IF check # "ok" THEN "ended" ELSE IF Reads(op) THEN "read" ELSE "write"
        OBVIOUS
    <2>4. PICK told \in {"none", "not_applied"} :
               told = IF check = "ok" THEN "none" ELSE "not_applied"
        OBVIOUS
    <2>5. r = [Idle EXCEPT !.op = op, !.tier = tier, !.address = address,
                           !.amount = amount, !.entries = entries, !.pc = place,
                           !.told = told]
        BY <2>2, <2>3, <2>4 DEF begun
    <2> HIDE DEF r
    <2>6. Idle \in CallRecords /\ Idle.done = 0 /\ Idle.named = {}
        BY IdleType
    <2>7. r \in CallRecords
        BY <2>1, <2>5, <2>6 DEF CallRecords
    <2>8. /\ r.op = op /\ r.tier = tier /\ r.address = address /\ r.entries = entries
          /\ r.pc = place /\ r.told = told /\ r.done = 0 /\ r.named = {}
        BY <2>5, <2>6 DEF CallRecords
    <2> QED BY <2>2, <2>3, <2>4, <2>7, <2>8
<1>9. calls' = [calls EXCEPT ![c] = r]
    BY <1>6, <1>7
<1> HIDE DEF r
<1>10. Written(r) = {}
    BY <1>8 DEF Written
<1>11. /\ op = "withdraw" /\ check = "ok" => Lane(tier, address)
       /\ op = "withdraw" => Reads(op)
       /\ op # "none" /\ Len(<<>>) = 0 /\ Len(<<Posted>>) = 1
    BY <1>7, CheckKeepsLanes DEF first_check, Reads
<1>12. CallInv(r, {})
    <2>1. CASE check # "ok"
        <3>1. r.pc = "ended" /\ r.told = "not_applied" /\ r.op = op /\ r.done = 0
            BY <1>8, <2>1
        <3>2. Len(r.entries) >= 0
            BY <1>8, <1>11
        <3>3. op = "withdraw" => r.entries = <<>>
            BY <1>8, <1>11
        <3> QED BY <3>1, <3>2, <3>3, <1>11 DEF CallInv
    <2>2. CASE check = "ok" /\ Reads(op)
        <3>1. /\ r.pc = "read" /\ r.told = "none" /\ r.op = op /\ r.done = 0
              /\ r.entries = <<>> /\ r.tier = tier /\ r.address = address
            BY <1>8, <2>2
        <3> QED BY <3>1, <2>2, <1>10, <1>11 DEF CallInv
    <2>3. CASE check = "ok" /\ ~Reads(op)
        <3>1. /\ r.pc = "write" /\ r.told = "none" /\ r.op = op /\ r.done = 0
              /\ r.entries = <<Posted>> /\ r.tier = tier /\ r.address = address
            BY <1>8, <2>3
        <3> QED BY <3>1, <2>3, <1>10, <1>11 DEF CallInv
    <2> QED BY <2>1, <2>2, <2>3
<1>13. r.pc # "idle"
    BY <1>8
<1>14. /\ whitelist' \in Seq(Entries) /\ changed' \in SUBSET (Calls \X Nat)
       /\ stray' \in SUBSET Writes /\ changed' = changed /\ stray' = stray
    BY <1>1, <1>2 DEF CallTypes
<1>15. CallInv(r, Mine(c, changed'))
    BY <1>12, <1>14, <1>5
<1> QED BY <1>2, <1>4, <1>8, <1>9, <1>13, <1>14, <1>15, OneCall

(* A call that ends: its record. *)
LEMMA EndForm ==
    ASSUME CallsInv, NEW c \in Calls, NEW told \in {"not_applied", "done"}, End(c, told)
    PROVE  \E r \in CallRecords :
              /\ calls' = [calls EXCEPT ![c] = r]
              /\ r.pc = "ended" /\ r.told = told /\ r.op = calls[c].op
              /\ r.entries = calls[c].entries /\ r.done = calls[c].done
              /\ r.tier = calls[c].tier
<1> DEFINE r == [calls[c] EXCEPT !.pc = "ended", !.told = told]
<1>1. calls \in [Calls -> CallRecords] /\ calls[c] \in CallRecords
    BY DEF CallsInv, CallTypes
<1>2. calls' = [calls EXCEPT ![c] = r]
    BY <1>1 DEF End
<1>3. /\ r \in CallRecords /\ r.pc = "ended" /\ r.told = told /\ r.op = calls[c].op
      /\ r.entries = calls[c].entries /\ r.done = calls[c].done
      /\ r.tier = calls[c].tier
    BY <1>1 DEF CallRecords
<1> QED BY <1>2, <1>3

(* A call under way that ends with nothing written. *)
LEMMA CallsEnd ==
    ASSUME CallsInv, NEW c \in Calls, calls[c].pc = "read",
           NEW told \in {"not_applied", "done"}, End(c, told),
           UNCHANGED <<whitelist, stray, changed>>
    PROVE  CallsInv' /\ Steady
<1>1. /\ calls[c] \in CallRecords /\ CallInv(calls[c], Mine(c, changed))
      /\ CallTypes
    BY DEF CallsInv, CallTypes
<1>2. /\ calls[c].told = "none" /\ calls[c].op # "none" /\ calls[c].entries = <<>>
      /\ calls[c].done \in Nat /\ calls[c].done <= Len(<<>>)
      /\ Mine(c, changed) = Written(calls[c])
    BY <1>1 DEF CallInv, CallRecords
<1>3. calls[c].done = 0 /\ Mine(c, changed) = {}
    BY <1>2 DEF Written
<1>4. PICK r \in CallRecords :
              /\ calls' = [calls EXCEPT ![c] = r]
              /\ r.pc = "ended" /\ r.told = told /\ r.op = calls[c].op
              /\ r.entries = calls[c].entries /\ r.done = calls[c].done
              /\ r.tier = calls[c].tier
    BY EndForm
<1>5. Range(<<>>) = {}
    BY DEF Range
<1>6. CallInv(r, {})
    BY <1>2, <1>3, <1>4, <1>5 DEF CallInv
<1>7. /\ whitelist' \in Seq(Entries) /\ changed' \in SUBSET (Calls \X Nat)
      /\ stray' \in SUBSET Writes /\ changed' = changed /\ stray' = stray
    BY <1>1 DEF CallTypes
<1>8. CallInv(r, Mine(c, changed'))
    BY <1>3, <1>6, <1>7
<1> QED BY <1>2, <1>4, <1>7, <1>8, OneCall

LEMMA MatchingType ==
    ASSUME whitelist \in Seq(Entries), NEW op, NEW address
    PROVE  Matching(op, address) \in Seq(Nat)
<1> DEFINE S == {i \in Listed : op = "patch" \/ whitelist[i].address = address}
<1>1. DOMAIN whitelist = 1..Len(whitelist) /\ Len(whitelist) \in Nat
    OBVIOUS
<1>2. IsFiniteSet(1..Len(whitelist))
    BY <1>1, FS_Interval
<1>3. S \subseteq 1..Len(whitelist)
    BY <1>1 DEF Listed
<1>4. IsFiniteSet(S) /\ \A x \in S : x \in Nat
    BY <1>1, <1>2, <1>3, FS_Subset
<1>5. Matching(op, address) = InOrder(S)
    BY DEF Matching
<1> HIDE DEF S
<1>6. Cardinality(S) \in Nat /\ InOrder(S) \in [1..Cardinality(S) -> S]
    BY <1>4, InOrderType, FS_CardinalityType
<1>7. InOrder(S) \in [1..Cardinality(S) -> Nat]
    BY <1>4, <1>6
<1> QED BY <1>5, <1>6, <1>7, SeqDef

LEMMA CallsReadOk ==
    ASSUME CallsInv, NEW c \in Calls, ReadOk(c) PROVE CallsInv' /\ Steady
<1>1. calls[c].pc = "read" /\ UNCHANGED <<whitelist, stray, changed>>
    BY DEF ReadOk
<1>2. /\ calls \in [Calls -> CallRecords] /\ calls[c] \in CallRecords
      /\ CallInv(calls[c], Mine(c, changed)) /\ CallTypes
    BY DEF CallsInv, CallTypes
<1>3. PICK to : to = IF calls[c].op = "withdraw" THEN <<Posted>>
                     ELSE Matching(calls[c].op, calls[c].address)
    OBVIOUS
<1>4. to \in Seq(Nat)
    <2>1. <<Posted>> \in Seq(Nat)
        BY DEF Posted
    <2> QED BY <2>1, <1>2, <1>3, MatchingType DEF CallTypes
<1>5. \/ End(c, "not_applied") \/ End(c, "done")
      \/ /\ to # <<>>
         /\ calls' = [calls EXCEPT ![c].pc = "write", ![c].entries = to]
    BY <1>3 DEF ReadOk
<1>6. CASE End(c, "not_applied")
    BY <1>1, <1>6, CallsEnd
<1>7. CASE End(c, "done")
    BY <1>1, <1>7, CallsEnd
<1>8. CASE /\ to # <<>>
           /\ calls' = [calls EXCEPT ![c].pc = "write", ![c].entries = to]
    <2> DEFINE r == [calls[c] EXCEPT !.pc = "write", !.entries = to]
    <2>1. calls' = [calls EXCEPT ![c] = r]
        BY <1>2, <1>8
    <2>2. /\ r \in CallRecords /\ r.pc = "write" /\ r.entries = to
          /\ r.op = calls[c].op /\ r.tier = calls[c].tier /\ r.address = calls[c].address
          /\ r.done = calls[c].done /\ r.told = calls[c].told
        BY <1>2, <1>4 DEF CallRecords
    <2> HIDE DEF r
    <2>3. /\ calls[c].told = "none" /\ calls[c].op # "none" /\ calls[c].entries = <<>>
          /\ calls[c].done \in Nat /\ calls[c].done <= Len(<<>>)
          /\ calls[c].op = "withdraw" => Lane(calls[c].tier, calls[c].address)
          /\ Mine(c, changed) = Written(calls[c])
        BY <1>1, <1>2 DEF CallInv, CallRecords
    <2>4. calls[c].done = 0 /\ Mine(c, changed) = {}
        BY <2>3 DEF Written
    <2>5. Written(r) = {}
        BY <2>2, <2>4 DEF Written
    <2>6. Len(to) \in Nat /\ Len(to) > 0
        BY <1>4, <1>8
    <2>7. CallInv(r, {})
        BY <1>3, <2>2, <2>3, <2>4, <2>5, <2>6 DEF CallInv
    <2>8. /\ whitelist' \in Seq(Entries) /\ changed' \in SUBSET (Calls \X Nat)
          /\ stray' \in SUBSET Writes /\ changed' = changed /\ stray' = stray
        BY <1>1, <1>2 DEF CallTypes
    <2>9. CallInv(r, Mine(c, changed'))
        BY <2>4, <2>7, <2>8
    <2> QED BY <2>1, <2>2, <2>3, <2>8, <2>9, OneCall
<1> QED BY <1>5, <1>6, <1>7, <1>8

(* The write of a call that is writing. *)
LEMMA WriteType ==
    ASSUME CallsInv, NEW c \in Calls, calls[c].pc = "write"
    PROVE  /\ calls[c] \in CallRecords /\ calls[c].told = "none"
           /\ calls[c].op # "none"
           /\ calls[c].entries \in Seq(Nat) /\ Len(calls[c].entries) \in Nat
           /\ calls[c].done \in Nat /\ calls[c].done < Len(calls[c].entries)
           /\ Target(c) \in Nat
           /\ Mine(c, changed) = Written(calls[c])
           /\ calls[c].op = "withdraw" =>
                 /\ calls[c].done = 0 /\ calls[c].entries = <<Posted>>
                 /\ Target(c) = Posted /\ Lane(calls[c].tier, calls[c].address)
           /\ Write(c) \in Writes
           /\ Write(c).call = c /\ Write(c).entry = Target(c)
           /\ Write(c).op = calls[c].op /\ Write(c).address = calls[c].address
           /\ Write(c).amount = calls[c].amount
<1>1. calls[c] \in CallRecords /\ CallInv(calls[c], Mine(c, changed))
    BY DEF CallsInv, CallTypes
<1>2. /\ calls[c].entries \in Seq(Nat) /\ calls[c].done \in Nat
      /\ calls[c].op \in Ops /\ calls[c].address \in Destinations
      /\ calls[c].amount \in Nat
    BY <1>1 DEF CallRecords
<1>3. /\ calls[c].told = "none" /\ calls[c].op # "none"
      /\ calls[c].done < Len(calls[c].entries)
      /\ Mine(c, changed) = Written(calls[c])
      /\ calls[c].op = "withdraw" /\ calls[c].entries # <<>> => calls[c].entries = <<Posted>>
      /\ calls[c].op = "withdraw" => Lane(calls[c].tier, calls[c].address)
    BY <1>1 DEF CallInv
<1>4. Target(c) \in Nat /\ Len(calls[c].entries) \in Nat
    <2>1. PICK s \in Seq(Nat), n \in Nat : s = calls[c].entries /\ n = calls[c].done
        BY <1>2
    <2>2. n < Len(s)
        BY <2>1, <1>3
    <2>3. s[n + 1] \in Nat
        BY <2>2
    <2> QED BY <2>1, <2>3 DEF Target
<1>5. calls[c].op = "withdraw" => /\ calls[c].entries = <<Posted>> /\ calls[c].done = 0
                                  /\ Target(c) = Posted
    <2> SUFFICES ASSUME calls[c].op = "withdraw"
                 PROVE  /\ calls[c].entries = <<Posted>> /\ calls[c].done = 0
                        /\ Target(c) = Posted
        OBVIOUS
    <2>1. calls[c].entries # <<>>
        BY <1>2, <1>3
    <2>2. calls[c].entries = <<Posted>>
        BY <2>1, <1>3
    <2>3. calls[c].done = 0
        BY <2>2, <1>2, <1>3
    <2> QED BY <2>2, <2>3 DEF Target
<1>6. Write(c) \in Writes
    BY <1>2, <1>3, <1>4 DEF Write, Writes
<1> QED BY <1>1, <1>2, <1>3, <1>4, <1>5, <1>6 DEF Write

(* A list of which one member is replaced. *)
LEMMA SeqUpdate ==
    ASSUME NEW S, NEW s \in Seq(S), NEW k, NEW v, k \in DOMAIN s => v \in S
    PROVE  [s EXCEPT ![k] = v] \in Seq(S)
<1>1. Len(s) \in Nat /\ s \in [1..Len(s) -> S]
    OBVIOUS
<1>2. [s EXCEPT ![k] = v] \in [1..Len(s) -> S]
    BY <1>1
<1> QED BY <1>1, <1>2, SeqDef

(* What a write that is applied changes. *)
LEMMA Applied ==
    ASSUME whitelist \in Seq(Entries), NEW w \in Writes, Apply(w)
    PROVE  /\ whitelist' \in Seq(Entries)
           /\ changed' = changed \cup {<<w.call, w.entry>>}
           /\ w.op # "withdraw" => UNCHANGED <<balance, transfers>>
           /\ w.op = "withdraw" =>
                 /\ transfers' = Append(transfers,
                      [direction |-> "Outgoing", amount |-> w.amount, to |-> w.address,
                       status |-> "Pending", hash |-> NoHash, polls |-> 0, by |-> {w.call}])
                 /\ balance' = balance - w.amount
<1>1. w.op \in Ops /\ w.op # "none" /\ w.address \in Destinations
    BY DEF Writes
<1>2. changed' = changed \cup {<<w.call, w.entry>>}
    BY DEF Apply
<1>3. CASE w.op = "withdraw"
    <2>1. /\ transfers' = Append(transfers,
               [direction |-> "Outgoing", amount |-> w.amount, to |-> w.address,
                status |-> "Pending", hash |-> NoHash, polls |-> 0, by |-> {w.call}])
          /\ balance' = balance - w.amount /\ whitelist' = whitelist
        BY <1>3 DEF Apply
    <2> QED BY <2>1, <1>2, <1>3
<1>4. CASE w.op = "create"
    <2>1. /\ \E s \in {"Pending", "Approved"} :
                whitelist' = Append(whitelist, Entry(w.address, s))
          /\ UNCHANGED <<balance, transfers>>
        BY <1>4 DEF Apply
    <2>2. \A s \in {"Pending", "Approved"} : Entry(w.address, s) \in Entries
        BY <1>1 DEF Entry, Entries
    <2>3. whitelist' \in Seq(Entries)
        BY <2>1, <2>2
    <2> QED BY <2>1, <2>3, <1>2, <1>4
<1>5. CASE w.op = "remove"
    <2>1. /\ whitelist' = [whitelist EXCEPT ![w.entry].exists = FALSE]
          /\ UNCHANGED <<balance, transfers>>
        BY <1>5 DEF Apply
    <2>2. \A e \in Entries : [e EXCEPT !.exists = FALSE] \in Entries
        BY DEF Entries
    <2>3. w.entry \in DOMAIN whitelist
              => [whitelist[w.entry] EXCEPT !.exists = FALSE] \in Entries
        BY <2>2
    <2>4. whitelist' = [whitelist EXCEPT ![w.entry] =
                           [whitelist[w.entry] EXCEPT !.exists = FALSE]]
        BY <2>1
    <2>5. whitelist' \in Seq(Entries)
        BY <2>3, <2>4, SeqUpdate
    <2> QED BY <2>1, <2>5, <1>2, <1>5
<1>6. CASE w.op = "patch"
    <2>1. /\ whitelist' = [whitelist EXCEPT ![w.entry].rule = TRUE]
          /\ UNCHANGED <<balance, transfers>>
        BY <1>6 DEF Apply
    <2>2. \A e \in Entries : [e EXCEPT !.rule = TRUE] \in Entries
        BY DEF Entries
    <2>3. w.entry \in DOMAIN whitelist
              => [whitelist[w.entry] EXCEPT !.rule = TRUE] \in Entries
        BY <2>2
    <2>4. whitelist' = [whitelist EXCEPT ![w.entry] =
                           [whitelist[w.entry] EXCEPT !.rule = TRUE]]
        BY <2>1
    <2>5. whitelist' \in Seq(Entries)
        BY <2>3, <2>4, SeqUpdate
    <2> QED BY <2>1, <2>5, <1>2, <1>6
<1>7. CASE w.op = "journal"
    <2>1. UNCHANGED <<whitelist, balance, transfers>>
        BY <1>7 DEF Apply
    <2> QED BY <2>1, <1>2, <1>7
<1> QED BY <1>1, <1>3, <1>4, <1>5, <1>6, <1>7 DEF Ops

(* A write that is applied: the changes of its call, and of no other. *)
LEMMA AppliedMine ==
    ASSUME CallsInv, NEW w \in Writes, Apply(w)
    PROVE  /\ whitelist' \in Seq(Entries) /\ changed' \in SUBSET (Calls \X Nat)
           /\ Mine(w.call, changed') = Mine(w.call, changed) \cup {w.entry}
           /\ \A d \in Calls \ {w.call} : Mine(d, changed') = Mine(d, changed)
<1>1. whitelist \in Seq(Entries) /\ changed \in SUBSET (Calls \X Nat)
    BY DEF CallsInv, CallTypes
<1>2. PICK c \in Calls, e \in Nat : c = w.call /\ e = w.entry
    BY DEF Writes
<1>3. whitelist' \in Seq(Entries) /\ changed' = changed \cup {<<c, e>>}
    BY <1>1, <1>2, Applied
<1>4. /\ changed \cup {<<c, e>>} \in SUBSET (Calls \X Nat)
      /\ Mine(c, changed \cup {<<c, e>>}) = Mine(c, changed) \cup {e}
      /\ \A d \in Calls \ {c} : Mine(d, changed \cup {<<c, e>>}) = Mine(d, changed)
    BY <1>1, <1>2 DEF Mine
<1> QED BY <1>2, <1>3, <1>4

LEMMA WrittenNext ==
    ASSUME NEW r \in CallRecords, NEW q \in CallRecords, q.entries = r.entries,
           q.done = r.done + 1
    PROVE  Written(q) = Written(r) \cup {r.entries[r.done + 1]}
<1>1. PICK n \in Nat : n = r.done
    BY DEF CallRecords
<1>2. 1..(n + 1) = (1..n) \cup {n + 1}
    BY <1>1
<1>3. Written(q) = {r.entries[i] : i \in 1..(n + 1)}
    BY <1>1 DEF Written
<1>4. Written(r) = {r.entries[i] : i \in 1..n}
    BY <1>1 DEF Written
<1> QED BY <1>1, <1>2, <1>3, <1>4

LEMMA WrittenAll ==
    ASSUME NEW r \in CallRecords, r.done = Len(r.entries)
    PROVE  Written(r) = Range(r.entries)
<1>1. PICK s \in Seq(Nat) : s = r.entries
    BY DEF CallRecords
<1>2. DOMAIN s = 1..Len(s)
    BY <1>1
<1> QED BY <1>1, <1>2 DEF Written, Range

LEMMA CallsWriteOk ==
    ASSUME CallsInv, NEW c \in Calls, WriteOk(c) PROVE CallsInv' /\ Steady
<1>1. /\ calls[c].pc = "write" /\ Apply(Write(c)) /\ stray' = stray
      /\ calls' = [calls EXCEPT ![c].done = @ + 1,
                                ![c].pc = IF IsLast(c) THEN "ended" ELSE @,
                                ![c].told = IF IsLast(c) THEN "done" ELSE @]
    BY DEF WriteOk
<1>2. /\ calls[c] \in CallRecords /\ calls[c].told = "none"
      /\ calls[c].op # "none"
      /\ calls[c].entries \in Seq(Nat) /\ Len(calls[c].entries) \in Nat
      /\ calls[c].done \in Nat /\ calls[c].done < Len(calls[c].entries)
      /\ Mine(c, changed) = Written(calls[c])
      /\ calls[c].op = "withdraw" =>
            /\ calls[c].done = 0 /\ calls[c].entries = <<Posted>>
            /\ Lane(calls[c].tier, calls[c].address)
      /\ Write(c) \in Writes
      /\ Write(c).call = c /\ Write(c).entry = Target(c)
    BY <1>1, WriteType
<1>3. calls \in [Calls -> CallRecords] /\ stray \in SUBSET Writes
    BY DEF CallsInv, CallTypes
<1>4. /\ whitelist' \in Seq(Entries) /\ changed' \in SUBSET (Calls \X Nat)
      /\ Mine(c, changed') = Mine(c, changed) \cup {Target(c)}
      /\ \A d \in Calls \ {c} : Mine(d, changed') = Mine(d, changed)
    <2>1. PICK w \in Writes : w = Write(c) /\ Apply(w) /\ w.call = c /\ w.entry = Target(c)
        BY <1>1, <1>2
    <2> QED BY <2>1, AppliedMine
<1> DEFINE q == [calls[c] EXCEPT !.done = @ + 1,
                                 !.pc = IF IsLast(c) THEN "ended" ELSE @,
                                 !.told = IF IsLast(c) THEN "done" ELSE @]
<1>5. calls' = [calls EXCEPT ![c] = q]
    BY <1>1, <1>3
<1>6. PICK n \in Nat : n = calls[c].done + 1
    BY <1>2
<1>7. IsLast(c) <=> n = Len(calls[c].entries)
    BY <1>6 DEF IsLast
<1>8. CASE IsLast(c)
    <2>1. q = [calls[c] EXCEPT !.done = n, !.pc = "ended", !.told = "done"]
        BY <1>6, <1>8
    <2> HIDE DEF q
    <2>2. /\ q \in CallRecords /\ q.pc = "ended" /\ q.told = "done" /\ q.done = n
          /\ q.entries = calls[c].entries /\ q.op = calls[c].op /\ q.tier = calls[c].tier
        BY <2>1, <1>2 DEF CallRecords
    <2>3. Written(q) = Written(calls[c]) \cup {Target(c)}
        BY <1>2, <1>6, <2>2, WrittenNext DEF Target
    <2>4. Mine(c, changed') = Range(q.entries)
        BY <2>2, <2>3, <1>2, <1>4, <1>7, <1>8, WrittenAll
    <2>5. CallInv(q, Mine(c, changed'))
        BY <1>2, <1>7, <1>8, <2>2, <2>4 DEF CallInv
    <2> QED BY <1>1, <1>2, <1>3, <1>4, <1>5, <2>2, <2>5, OneCall
<1>9. CASE ~IsLast(c)
    <2>1. q = [calls[c] EXCEPT !.done = n]
        BY <1>6, <1>9, <1>2 DEF CallRecords
    <2> HIDE DEF q
    <2>2. /\ q \in CallRecords /\ q.pc = "write" /\ q.told = "none" /\ q.done = n
          /\ q.entries = calls[c].entries /\ q.op = calls[c].op /\ q.tier = calls[c].tier
          /\ q.address = calls[c].address
        BY <2>1, <1>1, <1>2 DEF CallRecords
    <2>3. Written(q) = Written(calls[c]) \cup {Target(c)}
        BY <1>2, <1>6, <2>2, WrittenNext DEF Target
    <2>4. Mine(c, changed') = Written(q)
        BY <2>3, <1>2, <1>4
    <2>5. n < Len(calls[c].entries)
        BY <1>2, <1>6, <1>7, <1>9
    <2>6. calls[c].op # "withdraw"
        <3> SUFFICES ASSUME calls[c].op = "withdraw" PROVE FALSE
            OBVIOUS
        <3>1. calls[c].entries = <<Posted>> /\ calls[c].done = 0
            BY <1>2
        <3>2. Len(calls[c].entries) = 1 /\ n = 1
            BY <3>1, <1>6
        <3> QED BY <3>2, <2>5
    <2>7. CallInv(q, Mine(c, changed'))
        BY <1>2, <2>2, <2>4, <2>5, <2>6 DEF CallInv
    <2> QED BY <1>1, <1>2, <1>3, <1>4, <1>5, <2>2, <2>7, OneCall
<1> QED BY <1>8, <1>9

(* A call that stops at a write, with nothing applied. *)
LEMMA CallsStopped ==
    ASSUME CallsInv, NEW c \in Calls, NEW failure \in {"not_applied", "unknown"},
           calls[c].pc = "write", calls' = stopped(c, failure),
           UNCHANGED <<whitelist, changed>>,
           stray' = stray \/ (failure = "unknown" /\ stray' = stray \cup {Write(c)})
    PROVE  CallsInv' /\ Steady
<1>1. /\ calls[c] \in CallRecords /\ calls[c].told = "none"
      /\ calls[c].op # "none"
      /\ calls[c].entries \in Seq(Nat) /\ Len(calls[c].entries) \in Nat
      /\ calls[c].done \in Nat /\ calls[c].done < Len(calls[c].entries)
      /\ Mine(c, changed) = Written(calls[c])
      /\ calls[c].op = "withdraw" =>
            /\ calls[c].done = 0 /\ calls[c].entries = <<Posted>>
            /\ Target(c) = Posted /\ Lane(calls[c].tier, calls[c].address)
      /\ Write(c) \in Writes
      /\ Write(c).call = c /\ Write(c).entry = Target(c)
      /\ Write(c).op = calls[c].op /\ Write(c).address = calls[c].address
    BY WriteType
<1>2. calls \in [Calls -> CallRecords] /\ CallTypes
    BY DEF CallsInv, CallTypes
<1>3. PICK told \in {"not_applied", "unknown"} :
           told = IF calls[c].done = 0 THEN failure ELSE "unknown"
    OBVIOUS
<1>4. Written(calls[c]) \in SUBSET Nat
    <2>1. PICK s \in Seq(Nat), n \in Nat : s = calls[c].entries /\ n = calls[c].done
        BY <1>1
    <2>2. n < Len(s)
        BY <1>1, <2>1
    <2>3. \A i \in 1..n : s[i] \in Nat
        BY <2>2
    <2> QED BY <2>1, <2>3 DEF Written
<1> DEFINE q == [calls[c] EXCEPT !.pc = "ended", !.told = told, !.named = Written(calls[c])]
<1>5. calls' = [calls EXCEPT ![c] = q]
    BY <1>2, <1>3 DEF stopped, Written
<1>6. /\ q \in CallRecords /\ q.pc = "ended" /\ q.told = told
      /\ q.named = Written(calls[c]) /\ q.done = calls[c].done
      /\ q.entries = calls[c].entries /\ q.op = calls[c].op /\ q.tier = calls[c].tier
    BY <1>1, <1>3, <1>4 DEF CallRecords
<1> HIDE DEF q
<1>7. Written(q) = Written(calls[c])
    BY <1>6 DEF Written
<1>8. told = "not_applied" => Written(calls[c]) = {}
    <2>1. told = "not_applied" => calls[c].done = 0
        BY <1>3
    <2> QED BY <2>1 DEF Written
<1>9. CallInv(q, Mine(c, changed))
    BY <1>1, <1>3, <1>6, <1>7, <1>8 DEF CallInv
<1>10. failure = "unknown" => StrayOk(Write(c), q)
    <2>1. failure = "unknown" => told = "unknown"
        BY <1>3
    <2> QED BY <2>1, <1>1, <1>6 DEF StrayOk, Target
<1>11. /\ whitelist' \in Seq(Entries) /\ changed' \in SUBSET (Calls \X Nat)
       /\ stray' \in SUBSET Writes /\ changed' = changed
    BY <1>1, <1>2 DEF CallTypes
<1>12. \A w \in stray' : w \in stray \/ (w.call = c /\ StrayOk(w, q))
    BY <1>1, <1>10
<1>13. CallInv(q, Mine(c, changed'))
    BY <1>9, <1>11
<1> QED BY <1>1, <1>5, <1>6, <1>11, <1>12, <1>13, OneCall

LEMMA CallsLand ==
    ASSUME CallsInv, Land PROVE CallsInv' /\ Steady
<1>1. PICK w \in stray :
          /\ stray' = stray \ {w}
          /\ IF Accepts(w) /\ Fits(w) THEN Apply(w)
             ELSE UNCHANGED <<whitelist, changed, balance, transfers>>
    BY DEF Land
<1>2. calls' = calls
    BY DEF Land
<1>3. CallTypes /\ w \in Writes /\ w.call \in Calls /\ StrayOk(w, calls[w.call])
    BY <1>1 DEF CallsInv, CallTypes, Writes
<1>4. stray' \in SUBSET Writes /\ stray' \subseteq stray
    BY <1>1, <1>3 DEF CallTypes
<1>5. /\ whitelist' \in Seq(Entries) /\ changed' \in SUBSET (Calls \X Nat)
      /\ \/ Mine(w.call, changed') = Mine(w.call, changed) \cup {w.entry}
         \/ Mine(w.call, changed') = Mine(w.call, changed)
      /\ \A d \in Calls \ {w.call} : Mine(d, changed') = Mine(d, changed)
    <2>1. CASE Apply(w)
        BY <2>1, <1>3, AppliedMine
    <2>2. CASE UNCHANGED <<whitelist, changed>>
        BY <2>2, <1>3 DEF CallTypes
    <2> QED BY <2>1, <2>2, <1>1
<1>6. CallTypes'
    BY <1>2, <1>3, <1>4, <1>5 DEF CallTypes
<1>7. CallInv(calls[w.call], Mine(w.call, changed'))
    <2>1. CallInv(calls[w.call], Mine(w.call, changed)) /\ calls[w.call].told = "unknown"
          /\ w.entry = calls[w.call].entries[calls[w.call].done + 1]
        BY <1>3 DEF CallsInv, StrayOk
    <2> QED BY <2>1, <1>5 DEF CallInv
<1>8. \A d \in Calls : CallInv(calls'[d], Mine(d, changed'))
    BY <1>2, <1>5, <1>7 DEF CallsInv
<1>9. \A v \in stray' : StrayOk(v, calls'[v.call])
    BY <1>2, <1>4 DEF CallsInv
<1> QED BY <1>2, <1>6, <1>8, <1>9 DEF CallsInv, Steady

LEMMA CallsReview ==
    ASSUME CallsInv, Review PROVE CallsInv' /\ Steady
<1>1. UNCHANGED <<calls, stray, changed>> /\ whitelist \in Seq(Entries)
    BY DEF Review, CallsInv, CallTypes
<1>2. PICK i \in Listed, new \in {"Approved", "Rejected"} :
          whitelist' = [whitelist EXCEPT ![i].status = new]
    BY DEF Review
<1>3. i \in DOMAIN whitelist
    BY DEF Listed
<1>4. whitelist[i] \in Entries
    BY <1>1, <1>3
<1>5. [whitelist[i] EXCEPT !.status = new] \in Entries
    BY <1>4 DEF Entries
<1>6. whitelist' = [whitelist EXCEPT ![i] = [whitelist[i] EXCEPT !.status = new]]
    BY <1>2
<1>7. whitelist' \in Seq(Entries)
    BY <1>1, <1>5, <1>6, SeqUpdate
<1> QED BY <1>1, <1>7, CallsKept

-----------------------------------------------------------------------------
(* A write that is taken, in the books and in the lanes *)

LEMMA BooksApplied ==
    ASSUME BooksInv, CallsInv, NEW w \in Writes, Accepts(w), Apply(w),
           w.op = "withdraw" => w.entry = Posted, UNCHANGED <<sends, watcher>>
    PROVE  BooksInv'
<1>1. whitelist \in Seq(Entries)
    BY DEF CallsInv, CallTypes
<1>2. CASE w.op = "withdraw"
    <2>1. balance - w.amount >= 0
        BY <1>2 DEF Accepts, subtract_wallet_balance
    <2>2. /\ transfers' = Append(transfers,
                 [direction |-> "Outgoing", amount |-> w.amount, to |-> w.address,
                  status |-> "Pending", hash |-> NoHash, polls |-> 0, by |-> {w.call}])
          /\ balance' = balance - w.amount
        BY <1>1, <1>2, Applied
    <2> QED BY <2>1, <2>2, BooksWithdraw
<1>3. CASE w.op # "withdraw"
    <2>1. UNCHANGED <<balance, transfers>>
        BY <1>1, <1>3, Applied
    <2> QED BY <2>1, BooksKept
<1> QED BY <1>2, <1>3

LEMMA LanesApplied ==
    ASSUME WalletInv, Steady, NEW w \in Writes, Apply(w),
           transfers' \in Seq(TransferRecords), calls'[w.call].pc # "idle",
           w.op = "withdraw" => Lane(calls'[w.call].tier, w.address)
    PROVE  LaneInv'
<1>1. whitelist \in Seq(Entries) /\ transfers \in Seq(TransferRecords) /\ LaneInv
    BY DEF WalletInv, CallsInv, CallTypes, BooksInv, BooksTypes
<1>2. CASE w.op = "withdraw"
    <2> DEFINE t == [direction |-> "Outgoing", amount |-> w.amount, to |-> w.address,
                     status |-> "Pending", hash |-> NoHash, polls |-> 0, by |-> {w.call}]
    <2>1. transfers' = Append(transfers, t)
        BY <1>1, <1>2, Applied
    <2>2. t \in TransferRecords /\ t.to = w.address /\ t.by = {w.call}
        BY DEF TransferRecords, Writes, NoHash
    <2> HIDE DEF t
    <2>3. /\ \A i \in DOMAIN transfers : transfers'[i] = transfers[i]
          /\ transfers'[Len(transfers) + 1] = t
          /\ \A i \in DOMAIN transfers' :
                 i \in DOMAIN transfers \/ i = Len(transfers) + 1
        BY <1>1, <2>1, <2>2, Appended
    <2>4. \A i \in DOMAIN transfers' :
               \/ /\ i \in DOMAIN transfers /\ transfers'[i].by = transfers[i].by
                  /\ transfers'[i].to = transfers[i].to
               \/ \A c \in transfers'[i].by : /\ calls'[c].pc # "idle"
                                              /\ Lane(calls'[c].tier, transfers'[i].to)
        BY <2>2, <2>3, <1>2
    <2> QED BY <1>1, <2>4, LanesKept
<1>3. CASE w.op # "withdraw"
    <2>1. transfers' = transfers
        BY <1>1, <1>3, Applied
    <2> QED BY <1>1, <2>1, LanesKept
<1> QED BY <1>2, <1>3

(* A step that leaves the transfers leaves the lanes. *)
LEMMA LanesSame ==
    ASSUME WalletInv, Steady, transfers' = transfers PROVE LaneInv'
<1>1. transfers \in Seq(TransferRecords) /\ LaneInv
    BY DEF WalletInv, BooksInv, BooksTypes
<1> QED BY <1>1, LanesKept

(* A scan adds transfers no call asked for. *)
LEMMA LanesScan ==
    ASSUME WalletInv, Steady, transfers' \in Seq(TransferRecords), NEW b,
           UNCHANGED <<balance, transfers>> \/ scan_block_for_deposits(b)
    PROVE  LaneInv'
<1>1. transfers \in Seq(TransferRecords) /\ LaneInv
    BY DEF WalletInv, BooksInv, BooksTypes
<1>2. CASE transfers' = transfers
    BY <1>2, LanesSame
<1>3. CASE transfers' # transfers
    <2> DEFINE t == [direction |-> "Incoming", amount |-> Head(sends[b]),
                     to |-> Idle.address, status |-> "Complete", hash |-> b,
                     polls |-> 0, by |-> {}]
    <2>1. transfers' = Append(transfers, t)
        BY <1>3 DEF scan_block_for_deposits
    <2>2. t.by = {}
        OBVIOUS
    <2> HIDE DEF t
    <2>3. /\ \A i \in DOMAIN transfers : transfers'[i] = transfers[i]
          /\ transfers'[Len(transfers) + 1] = t
          /\ \A i \in DOMAIN transfers' :
                 i \in DOMAIN transfers \/ i = Len(transfers) + 1
        BY <1>1, <2>1
    <2>4. \A i \in DOMAIN transfers' :
               \/ /\ i \in DOMAIN transfers /\ transfers'[i].by = transfers[i].by
                  /\ transfers'[i].to = transfers[i].to
               \/ \A c \in transfers'[i].by : /\ calls'[c].pc # "idle"
                                              /\ Lane(calls'[c].tier, transfers'[i].to)
        BY <2>2, <2>3
    <2> QED BY <1>1, <2>4, LanesKept
<1> QED BY <1>2, <1>3

-----------------------------------------------------------------------------
(* The invariant *)

LEMMA WalletStepCall ==
    ASSUME WalletInv, NEW c \in Calls, Call(c) PROVE WalletInv'
<1>1. BooksInv /\ CallsInv /\ LaneInv
    BY DEF WalletInv
<1>2. CASE Begin(c)
    <2>1. UNCHANGED <<balance, transfers, sends, watcher>>
        BY <1>2 DEF Begin, mock
    <2> QED BY <2>1, <1>1, <1>2, BooksKept, CallsBegin, LanesSame DEF WalletInv
<1>3. CASE ReadOk(c)
    <2>1. UNCHANGED <<balance, transfers, sends, watcher>>
        BY <1>3 DEF ReadOk, mock
    <2> QED BY <2>1, <1>1, <1>3, BooksKept, CallsReadOk, LanesSame DEF WalletInv
<1>4. CASE ReadFails(c)
    <2>1. UNCHANGED <<balance, transfers, sends, watcher>>
        BY <1>4 DEF ReadFails, mock
    <2>2. CallsInv' /\ Steady
        BY <1>1, <1>4, CallsEnd DEF ReadFails
    <2> QED BY <2>1, <2>2, <1>1, BooksKept, LanesSame DEF WalletInv
<1>5. CASE WriteOk(c)
    <2>1. /\ calls[c].pc = "write" /\ Accepts(Write(c)) /\ Apply(Write(c))
          /\ UNCHANGED <<sends, watcher>>
        BY <1>5 DEF WriteOk, mock
    <2>2. /\ Write(c) \in Writes /\ Write(c).call = c /\ Write(c).entry = Target(c)
          /\ Write(c).op = calls[c].op /\ Write(c).address = calls[c].address
          /\ calls[c].op = "withdraw" => Target(c) = Posted
                                         /\ Lane(calls[c].tier, calls[c].address)
        BY <1>1, <2>1, WriteType
    <2>3. PICK w \in Writes : /\ w = Write(c) /\ Accepts(w) /\ Apply(w) /\ w.call = c
                              /\ w.op = "withdraw" => w.entry = Posted
                                     /\ Lane(calls[c].tier, w.address)
        BY <2>1, <2>2
    <2>4. CallsInv' /\ Steady
        BY <1>1, <1>5, CallsWriteOk
    <2>5. calls'[c].pc # "idle" /\ calls'[c].tier = calls[c].tier
        BY <2>1, <2>4 DEF Steady
    <2>6. BooksInv'
        BY <1>1, <2>1, <2>3, BooksApplied
    <2>7. transfers' \in Seq(TransferRecords)
        BY <2>6 DEF BooksInv, BooksTypes
    <2>8. LaneInv'
        BY <2>3, <2>4, <2>5, <2>7, LanesApplied
    <2> QED BY <2>4, <2>6, <2>8 DEF WalletInv
<1>6. CASE WriteRefused(c)
    <2>1. UNCHANGED <<balance, transfers, sends, watcher>>
        BY <1>6 DEF WriteRefused, mock
    <2>2. calls[c].pc = "write" /\ calls' = stopped(c, "not_applied")
          /\ UNCHANGED <<whitelist, changed>> /\ stray' = stray
        BY <1>6 DEF WriteRefused, failure_of
    <2>3. CallsInv' /\ Steady
        BY <1>1, <2>2, CallsStopped
    <2> QED BY <2>1, <2>3, <1>1, BooksKept, LanesSame DEF WalletInv
<1>7. CASE WriteLost(c)
    <2>1. UNCHANGED <<balance, transfers, sends, watcher>>
        BY <1>7 DEF WriteLost, mock
    <2>2. calls[c].pc = "write" /\ calls' = stopped(c, "unknown")
          /\ UNCHANGED <<whitelist, changed>>
          /\ (stray' = stray \/ stray' = stray \cup {Write(c)})
        BY <1>7 DEF WriteLost, failure_of
    <2>3. CallsInv' /\ Steady
        BY <1>1, <2>2, CallsStopped
    <2> QED BY <2>1, <2>3, <1>1, BooksKept, LanesSame DEF WalletInv
<1> QED BY <1>2, <1>3, <1>4, <1>5, <1>6, <1>7 DEF Call

LEMMA WalletStepLand ==
    ASSUME WalletInv, Land PROVE WalletInv'
<1>1. BooksInv /\ CallsInv /\ LaneInv
    BY DEF WalletInv
<1>2. PICK w \in stray :
          /\ stray' = stray \ {w}
          /\ IF Accepts(w) /\ Fits(w) THEN Apply(w)
             ELSE UNCHANGED <<whitelist, changed, balance, transfers>>
    BY DEF Land
<1>3. UNCHANGED <<calls, sends, watcher>>
    BY DEF Land, mock
<1>4. w \in Writes /\ w.call \in Calls /\ StrayOk(w, calls[w.call])
    BY <1>1, <1>2 DEF CallsInv, CallTypes, Writes
<1>5. CallsInv' /\ Steady
    BY <1>1, CallsLand
<1>6. CASE Accepts(w) /\ Fits(w)
    <2>1. Apply(w) /\ Accepts(w)
        BY <1>2, <1>6
    <2>2. /\ calls[w.call].told = "unknown"
          /\ w.op = "withdraw" => w.entry = Posted /\ Lane(calls[w.call].tier, w.address)
        BY <1>4 DEF StrayOk
    <2>3. BooksInv'
        BY <1>1, <1>3, <1>4, <2>1, <2>2, BooksApplied
    <2>4. transfers' \in Seq(TransferRecords)
        BY <2>3 DEF BooksInv, BooksTypes
    <2>5. calls'[w.call].pc # "idle"
        BY <1>1, <1>3, <1>4, <2>2 DEF CallsInv, CallInv
    <2>6. w.op = "withdraw" => Lane(calls'[w.call].tier, w.address)
        BY <1>3, <2>2
    <2>7. LaneInv'
        BY <1>4, <1>5, <2>1, <2>4, <2>5, <2>6, LanesApplied
    <2> QED BY <1>5, <2>3, <2>7 DEF WalletInv
<1>7. CASE ~(Accepts(w) /\ Fits(w))
    <2>1. UNCHANGED <<balance, transfers>>
        BY <1>2, <1>7
    <2> QED BY <2>1, <1>1, <1>3, <1>5, BooksKept, LanesSame DEF WalletInv
<1> QED BY <1>6, <1>7

LEMMA WalletStep ==
    ASSUME WalletInv, [Next]_vars PROVE WalletInv'
<1>1. BooksInv /\ CallsInv /\ LaneInv /\ whitelist \in Seq(Entries)
    BY DEF WalletInv, CallsInv, CallTypes
<1>2. CASE \E c \in Calls : Call(c)
    BY <1>2, WalletStepCall
<1>3. CASE Land
    BY <1>3, WalletStepLand
<1>4. CASE Review
    <2>1. UNCHANGED <<balance, transfers, sends, watcher>>
        BY <1>4 DEF Review, mock
    <2> QED BY <2>1, <1>1, <1>4, BooksKept, CallsReview, LanesSame DEF WalletInv
<1>5. CASE ReadTransfers
    <2>1. UNCHANGED <<whitelist, calls, stray, changed>>
        BY <1>5 DEF ReadTransfers
    <2>2. CallsInv' /\ Steady
        BY <1>1, <2>1, CallsKept
    <2>3. transfers \in Seq(TransferRecords)
        BY <1>1 DEF BooksInv, BooksTypes
    <2>4. /\ transfers' \in Seq(TransferRecords) /\ DOMAIN transfers' = DOMAIN transfers
          /\ \A i \in DOMAIN transfers : transfers'[i].by = transfers[i].by
                                            /\ transfers'[i].to = transfers[i].to
        BY <1>1, <1>5, AllAdvanced
    <2>5. LaneInv'
        BY <1>1, <2>2, <2>3, <2>4, LanesKept
    <2> QED BY <1>1, <1>5, <2>2, <2>5, BooksReadTransfers DEF WalletInv
<1>6. CASE Deposit
    <2>1. UNCHANGED <<whitelist, calls, stray, changed, transfers>>
        BY <1>6 DEF Deposit
    <2>2. CallsInv' /\ Steady
        BY <1>1, <2>1, CallsKept
    <2> QED BY <1>1, <1>6, <2>1, <2>2, BooksDeposit, LanesSame DEF WalletInv
<1>7. CASE ScanStart
    <2>1. UNCHANGED <<whitelist, calls, stray, changed, transfers>>
        BY <1>7 DEF ScanStart
    <2>2. CallsInv' /\ Steady
        BY <1>1, <2>1, CallsKept
    <2> QED BY <1>1, <1>7, <2>1, <2>2, BooksScanStart, LanesSame DEF WalletInv
<1>8. CASE ScanBlock
    <2>1. UNCHANGED <<whitelist, calls, stray, changed>>
          /\ \E b : scan_block_for_deposits(b)
        BY <1>8 DEF ScanBlock
    <2>2. CallsInv' /\ Steady
        BY <1>1, <2>1, CallsKept
    <2>3. BooksInv'
        BY <1>1, <1>8, BooksScanBlock
    <2>4. transfers' \in Seq(TransferRecords)
        BY <2>3 DEF BooksInv, BooksTypes
    <2> QED BY <2>1, <2>2, <2>3, <2>4, LanesScan DEF WalletInv
<1>9. CASE ScanFails
    <2>1. UNCHANGED <<whitelist, calls, stray, changed>>
          /\ \E b : UNCHANGED <<balance, transfers>> \/ scan_block_for_deposits(b)
        BY <1>9 DEF ScanFails
    <2>2. CallsInv' /\ Steady
        BY <1>1, <2>1, CallsKept
    <2>3. BooksInv'
        BY <1>1, <1>9, BooksScanFails
    <2>4. transfers' \in Seq(TransferRecords)
        BY <2>3 DEF BooksInv, BooksTypes
    <2> QED BY <2>1, <2>2, <2>3, <2>4, LanesScan DEF WalletInv
<1>10. CASE UNCHANGED vars
    <2>1. UNCHANGED <<whitelist, calls, stray, changed, balance, transfers, sends, watcher>>
        BY <1>10 DEF vars
    <2>2. CallsInv' /\ Steady
        BY <1>1, <2>1, CallsKept
    <2> QED BY <1>1, <2>1, <2>2, BooksKept, LanesSame DEF WalletInv
<1> QED BY <1>2, <1>3, <1>4, <1>5, <1>6, <1>7, <1>8, <1>9, <1>10 DEF Next

LEMMA MineIsMine ==
    ASSUME CallTypes, NEW c \in Calls
    PROVE  {x[2] : x \in {x \in changed : x[1] = c}} = Mine(c, changed)
<1>1. \A x \in changed : x = <<x[1], x[2]>> /\ x[1] \in Calls /\ x[2] \in Nat
    BY DEF CallTypes
<1> QED BY <1>1 DEF Mine

LEMMA InvImpliesTypes == WalletInv => TypeOK
<1> SUFFICES ASSUME WalletInv PROVE TypeOK
    OBVIOUS
<1>1. BooksTypes /\ TransfersAreReal /\ CallsInv /\ CallTypes
    BY DEF WalletInv, BooksInv, CallsInv
<1>2. ASSUME NEW i \in DOMAIN transfers
      PROVE  /\ transfers[i].status \in {"Pending", "Processing", "Complete"}
             /\ transfers[i].polls \in 0..UntilComplete
             /\ transfers[i].status = "Complete" <=> transfers[i].hash # NoHash
    <2>1. transfers[i] \in TransferRecords
        BY <1>1 DEF BooksTypes
    <2>2. /\ transfers[i].status \in {"Pending", "Processing", "Complete"}
          /\ transfers[i].polls \in Nat
        BY <2>1 DEF TransferRecords
    <2> QED BY <2>2, <1>1, WalletAssumption DEF TransfersAreReal
<1>3. ASSUME NEW c \in Calls
      PROVE  /\ calls[c].told \in {"none", "not_applied", "unknown", "done"}
             /\ calls[c].pc = "ended" <=> calls[c].told # "none"
             /\ calls[c].done \in 0..Len(calls[c].entries)
    <2>1. calls[c] \in CallRecords /\ CallInv(calls[c], Mine(c, changed))
        BY <1>1 DEF CallsInv, CallTypes
    <2>2. /\ calls[c].told \in {"none", "not_applied", "unknown", "done"}
          /\ calls[c].done \in Nat /\ calls[c].entries \in Seq(Nat)
        BY <2>1 DEF CallRecords
    <2> QED BY <2>1, <2>2 DEF CallInv
<1>4. \A w \in stray : calls[w.call].told = "unknown"
    BY <1>1 DEF CallsInv, StrayOk
<1> QED BY <1>1, <1>2, <1>3, <1>4 DEF TypeOK, BooksTypes

LEMMA InvImpliesAnswers == WalletInv => NotAppliedChangedNothing /\ NamedEntriesAreChanged
<1> SUFFICES ASSUME WalletInv PROVE NotAppliedChangedNothing /\ NamedEntriesAreChanged
    OBVIOUS
<1>1. CallsInv /\ CallTypes
    BY DEF WalletInv, CallsInv
<1>2. NotAppliedChangedNothing
    <2> SUFFICES ASSUME NEW c \in Calls, calls[c].told = "not_applied"
                 PROVE  /\ \A x \in changed : x[1] # c
                        /\ \A w \in stray : w.call # c
        BY DEF NotAppliedChangedNothing
    <2>1. Mine(c, changed) = {}
        BY <1>1 DEF CallsInv, CallInv
    <2>2. \A x \in changed : x = <<x[1], x[2]>> /\ x[2] \in Nat
        BY <1>1 DEF CallTypes
    <2>3. \A x \in changed : x[1] # c
        BY <2>1, <2>2 DEF Mine
    <2>4. \A w \in stray : w.call # c
        BY <1>1 DEF CallsInv, StrayOk
    <2> QED BY <2>3, <2>4
<1>3. NamedEntriesAreChanged
    <2> SUFFICES ASSUME NEW c \in Calls
                 PROVE  LET mine == {x[2] : x \in {x \in changed : x[1] = c}} IN
                        /\ calls[c].told = "unknown" /\ calls[c].entries # <<>> =>
                              /\ calls[c].named \subseteq mine
                              /\ mine \subseteq calls[c].named \cup {Target(c)}
                        /\ calls[c].told = "done" => mine = Range(calls[c].entries)
        BY DEF NamedEntriesAreChanged
    <2>1. {x[2] : x \in {x \in changed : x[1] = c}} = Mine(c, changed)
        BY <1>1, MineIsMine
    <2>2. CallInv(calls[c], Mine(c, changed))
        BY <1>1 DEF CallsInv
    <2>3. /\ calls[c].told = "unknown" =>
                /\ calls[c].named \subseteq Mine(c, changed)
                /\ Mine(c, changed) \subseteq calls[c].named \cup {Target(c)}
          /\ calls[c].told = "done" => Mine(c, changed) = Range(calls[c].entries)
        BY <2>2 DEF CallInv, Target
    <2> QED BY <2>1, <2>3
<1> QED BY <1>2, <1>3

LEMMA InvImpliesDeposits == WalletInv => DepositFoundOnce
<1> SUFFICES ASSUME WalletInv, NEW b \in DOMAIN sends
             PROVE  /\ Cardinality({i \in DOMAIN transfers : transfers[i].hash = b}) <= 1
                    /\ b <= watcher.last => \E i \in find_deposit_by_tx_hash(b) :
                                                transfers[i].amount = Head(sends[b])
    BY DEF DepositFoundOnce
<1>1. BooksTypes /\ TransfersAreReal /\ OneTransferPerHash /\ WatcherInv
    BY DEF WalletInv, BooksInv
<1> DEFINE S == {i \in DOMAIN transfers : transfers[i].hash = b}
<1>2. \A i, j \in S : i = j
    BY <1>1 DEF OneTransferPerHash
<1>3. Cardinality(S) <= 1
    <2>1. CASE S = {}
        BY <2>1, FS_EmptySet
    <2>2. CASE S # {}
        <3>1. PICK i : S = {i}
            BY <2>2, <1>2
        <3>2. Cardinality(S) = 1
            BY <3>1, FS_Singleton
        <3> QED BY <3>2
    <2> QED BY <2>1, <2>2
<1>4. ASSUME b <= watcher.last
      PROVE  \E i \in find_deposit_by_tx_hash(b) : transfers[i].amount = Head(sends[b])
    <2>1. PICK i \in DOMAIN transfers : transfers[i].hash = b
        BY <1>1, <1>4 DEF WatcherInv, Seen
    <2>2. b # NoHash /\ b # OutHash /\ i \in Int
        BY <1>1 DEF BooksTypes, NoHash, OutHash
    <2>3. transfers[i].direction \in {"Incoming", "Outgoing"}
        <3>1. transfers[i] \in TransferRecords
            BY <1>1 DEF BooksTypes
        <3> QED BY <3>1 DEF TransferRecords
    <2>4. transfers[i].direction = "Incoming" /\ transfers[i].amount = Head(sends[b])
        BY <2>1, <2>2, <2>3, <1>1 DEF TransfersAreReal
    <2> DEFINE found == {j \in DOMAIN transfers :
                            transfers[j].direction = "Incoming" /\ transfers[j].hash = b}
    <2>5. found = {i}
        BY <2>1, <2>4, <1>2
    <2>6. Min({i}) = i
        BY <2>2 DEF Min
    <2>7. find_deposit_by_tx_hash(b) = {i}
        BY <2>5, <2>6 DEF find_deposit_by_tx_hash
    <2> QED BY <2>4, <2>7
<1> QED BY <1>3, <1>4

(* Every behaviour of the wallet keeps the invariant. *)
THEOREM WalletInvariance == Spec => []WalletInv
<1>1. Init => WalletInv
    BY BooksInit, CallsInit DEF WalletInv
<1>2. WalletInv /\ [Next]_vars => WalletInv'
    BY WalletStep
<1> QED BY <1>1, <1>2, PTL DEF Spec

(* What a caller of a wallet write is told is what happened: a call answered *)
(* not_applied changed nothing and never will, one that stopped half way      *)
(* names the entries it changed, the balance is what the transfers sum to,    *)
(* and every deposit behind the watcher is credited exactly once.             *)
THEOREM WalletAnswersAreTrue == Spec => []AnswersAreTrue
<1>1. WalletInv => AnswersAreTrue
    BY InvImpliesTypes, InvImpliesAnswers, InvImpliesDeposits
       DEF AnswersAreTrue, WalletInv, BooksInv
<1> QED BY <1>1, WalletInvariance, PTL

(* A withdrawal reaches a pinned destination exactly when the bot asked it. *)
THEOREM WalletLanesApart == Spec => []LanesApart
<1>1. WalletInv => LanesApart
    BY DEF WalletInv, LaneInv, LanesApart, Lane
<1> QED BY <1>1, WalletInvariance, PTL

-----------------------------------------------------------------------------
(* The polls that wait for a transfer or a tokenization, DeadlinePoll. *)

\* The throttle kept is the last read's, as long as the poll runs.
ThrottleInv == pc # "done" => (throttled <=> lastRead = "throttled")

\* Every sleep ends by the deadline.
SleepInv == pc = "sleep" => wakeAt <= Timeout

\* A result exists once the poll is done.
DoneInv == pc # "done" => result = "none"

PollInv == PollTypeOK /\ EndsByDeadline /\ SleepInv /\ ThrottleInv /\ DoneInv
           /\ ThrottleIsCurrent

-----------------------------------------------------------------------------

(* Bounds of the waits. *)
LEMMA MinMax ==
    ASSUME NEW a \in Int, NEW b \in Int
    PROVE  /\ Min2(a, b) \in {a, b} /\ Min2(a, b) <= a /\ Min2(a, b) <= b
           /\ Max2(a, b) \in {a, b} /\ a <= Max2(a, b) /\ b <= Max2(a, b)
BY DEF Min2, Max2

(* A tick's successor is a time. *)
LEMMA NextTickType ==
    ASSUME NEW t \in Nat, NEW n \in Nat, NEW i \in Nat \ {0}
    PROVE  n + i - ((n - t) % i) \in Nat
<1>1. (n - t) % i \in 0..(i - 1)
    OBVIOUS
<1> QED BY <1>1

(* A wait is a time, and one that is clamped ends by the deadline. *)
LEMMA WaitType ==
    ASSUME NEW hint \in Nat, NEW scheduled \in Nat, MaxHold \in Nat
    PROVE  capped_backpressure_wait(hint, scheduled) \in Nat
<1>1. Min2(hint, MaxHold) \in Nat BY MinMax
<1>2. Max2(Min2(hint, MaxHold), scheduled) \in Nat BY <1>1, MinMax
<1> QED BY <1>2 DEF capped_backpressure_wait

LEMMA SleepBound ==
    ASSUME NEW scheduled \in Nat, Timeout \in Nat, now \in Nat, now <= Timeout
    PROVE  /\ now + next_poll_delay(scheduled) \in Nat
           /\ now + next_poll_delay(scheduled) <= Timeout
<1>1. Timeout - now \in Nat OBVIOUS
<1>2. next_poll_delay(scheduled) \in Nat /\ next_poll_delay(scheduled) <= Timeout - now
    BY <1>1, MinMax DEF next_poll_delay
<1> QED BY <1>2

-----------------------------------------------------------------------------

(* The initial state satisfies the invariant. *)
LEMMA PollStart == PollInit => PollInv
<1> SUFFICES ASSUME PollInit PROVE PollInv
    OBVIOUS
<1>1. ~throttled /\ throttled \in BOOLEAN /\ tx \in BOOLEAN
    BY DEF PollInit
<1> QED BY <1>1, PollAssumption
    DEF PollInit, PollInv, PollTypeOK, EndsByDeadline, SleepInv, ThrottleInv, DoneInv,
        ThrottleIsCurrent, PollStatuses, Statuses, Final, Results, TokenPolls, Errors

(* A sleep keeps the times and the deadline. *)
LEMMA SleepStep ==
    ASSUME PollInv, NEW scheduled \in Nat, Sleep(scheduled)
    PROVE  /\ wakeAt' \in Nat /\ wakeAt' <= Timeout
           /\ pc' = "sleep" /\ nextTick' = nextTick /\ result' = result
BY SleepBound, PollAssumption DEF PollInv, PollTypeOK, EndsByDeadline, Sleep

\* How a failed read leaves the poll: done with the error, or waiting with
\* the throttle kept exactly when the error is one.
AfterFailed(error) ==
    /\ wakeAt' \in Nat /\ nextTick' = nextTick
    /\ retries' \in 0..MaxRetries /\ throttled' \in BOOLEAN
    /\ \/ pc' = "done" /\ result' = error
       \/ /\ pc' \in {"tick", "sleep"} /\ result' = result
          /\ throttled' = (error = "throttled")
          /\ pc' = "sleep" => wakeAt' <= Timeout
          /\ error # "timed_out"

(* Every poll's retry rule leaves it so. *)
LEMMA FailedStep ==
    ASSUME PollInv, NEW error \in Errors \cup {"timed_out"},
           NEW hint \in Hints, NEW delay \in Delays,
           Failed(error, hint, delay)
    PROVE  AfterFailed(error)
<1>1. hint \in Nat /\ delay \in Nat /\ Interval \in Nat /\ 0 \in Nat
    BY PollAssumption
<1>2. ASSUME NEW n \in Nat PROVE retry_wait(error, hint, n) \in Nat
    BY <1>1, <1>2, WaitType, PollAssumption DEF retry_wait
<1>3. CASE EndFailed(error)
    BY <1>3 DEF AfterFailed, EndFailed, EndPoll, PollInv, PollTypeOK, timerVars
<1>4. ASSUME NEW n \in Nat, throttled' = (error = "throttled"),
             retries' \in 0..MaxRetries, error # "timed_out",
             Sleep(retry_wait(error, hint, n)) \/ Again
      PROVE  AfterFailed(error)
    <2>1. CASE Sleep(retry_wait(error, hint, n))
        <3>1. /\ wakeAt' \in Nat /\ wakeAt' <= Timeout
              /\ pc' = "sleep" /\ nextTick' = nextTick /\ result' = result
            BY <1>2, <2>1, SleepStep
        <3> QED BY <3>1, <1>4 DEF AfterFailed
    <2>2. CASE Again
        BY <2>2, <1>4 DEF AfterFailed, Again, PollInv, PollTypeOK, timerVars
    <2> QED BY <1>4, <2>1, <2>2
<1>5. CASE poll \in BackoffPolls /\ retry_read_before(error, hint, delay)
    <2>1. CASE ~(Stops(error, hint, delay) \/ BudgetSpent)
        <3>1. retries' \in 0..MaxRetries
            BY <1>5, <2>1, PollAssumption
            DEF retry_read_before, BudgetSpent, PollInv, PollTypeOK
        <3> QED BY <1>1, <1>4, <1>5, <2>1, <3>1 DEF retry_read_before, Stops
    <2> QED BY <1>3, <1>5, <2>1 DEF retry_read_before
<1>6. CASE poll = "tx_hash" /\ hash_read_failed(error, hint)
    <2>1. retries \in 0..MaxRetries
        BY DEF PollInv, PollTypeOK
    <2> QED BY <1>1, <1>3, <1>4, <1>6, <2>1 DEF hash_read_failed, Stops
<1>7. CASE poll \in TokenPolls /\ retry_transient(error, hint)
    <2>1. retries \in 0..MaxRetries
        BY DEF PollInv, PollTypeOK
    <2> QED BY <1>1, <1>3, <1>4, <1>7, <2>1 DEF retry_transient, Stops
<1> QED BY <1>5, <1>6, <1>7 DEF Failed

-----------------------------------------------------------------------------

(* Every step keeps the invariant. *)
LEMMA PollStep ==
    PollInv /\ [PollNext]_pollVars => PollInv'
<1> SUFFICES ASSUME PollInv, [PollNext]_pollVars PROVE PollInv'
    OBVIOUS
<1> USE DEF PollInv, PollTypeOK, EndsByDeadline, SleepInv, ThrottleInv, DoneInv,
            ThrottleIsCurrent, PollStatuses
<1>1. CASE Move
    <2>1. tx' \in BOOLEAN
        BY <1>1 DEF Move
    <2>2. status' \in PollStatuses'
        BY <1>1 DEF Move, PollStatuses, Statuses, Final
    <2> QED BY <1>1, <2>1, <2>2 DEF Move, timerVars
<1>2. CASE Tick
    <2>1. now < Timeout
        BY <1>2, PollAssumption DEF Tick, Due
    <2> QED BY <1>2, <2>1, PollAssumption DEF Tick, alpacaVars, timerVars
<1>3. CASE TickFires
    <2>1. nextTick' \in Nat
        BY <1>3, NextTickType, PollAssumption DEF TickFires
    <2> QED BY <1>3, <2>1 DEF TickFires, alpacaVars
<1>4. CASE TickTooLate
    BY <1>4 DEF TickTooLate, EndPoll, alpacaVars, timerVars, Results
<1>5. CASE StartRead
    BY <1>5 DEF StartRead, alpacaVars, timerVars
<1>6. CASE DeadlinePassed
    <2> DEFINE error == IF throttled THEN "throttled" ELSE "timed_out"
    <2>1. PICK hint \in Hints, delay \in Delays : Failed(error, hint, delay)
        BY <1>6 DEF DeadlinePassed
    <2>2. error \in Errors \cup {"timed_out"}
        BY DEF Errors
    <2>3. AfterFailed(error)
        <3> HIDE DEF error
        <3> QED BY <2>1, <2>2, FailedStep
    <2> QED BY <1>6, <2>3 DEF AfterFailed, DeadlinePassed, alpacaVars, Results
<1>7. CASE ReadAnswers
    <2>1. PICK s \in Reported, t \in {FALSE, tx} :
              /\ IF Answer(s, t) # "none" THEN EndPoll(Answer(s, t))
                 ELSE IF poll \in TokenPolls THEN Again ELSE Sleep(Interval)
              /\ lastStatus' = IF s = "absent" THEN lastStatus ELSE s
        BY <1>7 DEF ReadAnswers
    <2>2. s \in PollStatuses /\ s \in Statuses
        BY DEF Reported, PollStatuses
    <2>3. Answer(s, t) \in Results \ {"timed_out", "throttled"}
        BY <2>2, PollAssumption
        DEF Answer, TransferAnswer, DepositAnswer, TxHashAnswer, RequestAnswer,
            get_request, find_redemption_by_tx, transfer_tx_hash_state,
            confirm_network, Results, PollStatuses, Statuses, Final,
            BackoffPolls, TokenPolls
    <2>4. /\ retries' = MaxRetries /\ throttled' = FALSE /\ lastRead' = "answered"
          /\ UNCHANGED <<poll, policy, alpacaVars, now>> /\ pc = "reading"
        BY <1>7 DEF ReadAnswers, throttleAfterAnswer
    <2>5. ~throttled' /\ throttled' \in BOOLEAN
        BY <2>4
    <2>6. CASE EndPoll(Answer(s, t))
        BY <2>1, <2>2, <2>3, <2>4, <2>5, <2>6, PollAssumption DEF EndPoll, alpacaVars, timerVars
    <2>7. CASE Again
        BY <2>1, <2>2, <2>4, <2>5, <2>7, PollAssumption DEF Again, alpacaVars, timerVars
    <2>8. CASE Sleep(Interval)
        <3>1. /\ wakeAt' \in Nat /\ wakeAt' <= Timeout
              /\ pc' = "sleep" /\ nextTick' = nextTick /\ result' = result
            BY <2>8, SleepStep, PollAssumption
        <3> QED BY <3>1, <2>1, <2>2, <2>4, <2>5, PollAssumption DEF alpacaVars
    <2> QED BY <2>1, <2>6, <2>7, <2>8
<1>8. CASE Wake
    BY <1>8 DEF Wake, alpacaVars, timerVars
<1>9. ASSUME NEW error \in Errors, NEW hint \in Hints, NEW delay \in Delays,
             PollReadFails(error, hint, delay)
      PROVE  PollInv'
    <2>1. Failed(error, hint, delay)
        BY <1>9 DEF PollReadFails
    <2>2. AfterFailed(error)
        BY <2>1, FailedStep
    <2> QED BY <1>9, <2>2 DEF AfterFailed, PollReadFails, alpacaVars, Errors, Results
<1>10. CASE UNCHANGED pollVars
    BY <1>10 DEF pollVars, alpacaVars, timerVars
<1> QED
    BY <1>1, <1>2, <1>3, <1>4, <1>5, <1>6, <1>7, <1>8, <1>9, <1>10 DEF PollNext

(* The invariant holds of every behaviour. *)
LEMMA PollInvariance == PollSpec => []PollInv
<1>1. PollInit => PollInv
    BY PollStart
<1>2. PollInv /\ [PollNext]_pollVars => PollInv'
    BY PollStep
<1> QED BY <1>1, <1>2, PTL DEF PollSpec

(* A final status reported is the one Alpaca holds. *)
LEMMA FinalIsNow ==
    ASSUME PollInv, NEW s \in Reported, s \in Final
    PROVE  s = status
BY DEF PollInv, PollTypeOK, Reported, Rank, PollStatuses, Statuses, Final

(* An answer a poll ends with holds at Alpaca when it is given. *)
LEMMA AnswerStep ==
    ASSUME PollInv, NEW s \in Reported, NEW t \in {FALSE, tx}
    PROVE  /\ Answer(s, t) = "hash" => status = "complete" /\ tx
           /\ Answer(s, t) \in Final => status = Answer(s, t)
           /\ poll \in TokenPolls /\ Answer(s, t) \in Final \cup {"detected"}
                 => network = "own"
<1>1. poll \in {"transfer", "deposit", "tx_hash", "request", "redemption"}
    BY PollAssumption DEF PollInv, PollTypeOK, BackoffPolls, TokenPolls
<1>2. t => tx
    BY DEF PollInv, PollTypeOK
<1>3. s \in Final => s = status
    BY FinalIsNow
<1> USE DEF Answer, Final, TokenPolls
<1>4. CASE poll = "transfer"
    BY <1>3, <1>4 DEF TransferAnswer
<1>5. CASE poll = "deposit"
    BY <1>3, <1>5 DEF DepositAnswer, TransferAnswer
<1>6. CASE poll = "tx_hash"
    <2>1. Answer(s, t) = TxHashAnswer(s, t)
        BY <1>6
    <2>2. TxHashAnswer(s, t) \in {"not_found", "failed", "hash", "none"}
        BY DEF TxHashAnswer, transfer_tx_hash_state
    <2>3. TxHashAnswer(s, t) = "failed" => s = "failed"
        BY DEF TxHashAnswer, transfer_tx_hash_state
    <2>4. TxHashAnswer(s, t) = "hash" => s = "complete" /\ t
        BY Zenon DEF TxHashAnswer, transfer_tx_hash_state
    <2>5. TxHashAnswer(s, t) = "hash" => status = "complete" /\ tx
        BY <1>2, <1>3, <2>4
    <2> QED BY <1>3, <1>6, <2>1, <2>2, <2>3, <2>5
<1>7. CASE poll = "request"
    <2>1. s # "hash"
        BY DEF PollInv, PollTypeOK, Reported, PollStatuses, Statuses
    <2> QED BY <1>3, <1>7, <2>1 DEF RequestAnswer, get_request, confirm_network
<1>8. CASE poll = "redemption"
    BY <1>3, <1>8 DEF find_redemption_by_tx, confirm_network
<1> QED BY <1>1, <1>4, <1>5, <1>6, <1>7, <1>8

(* Every step keeps it true of the answer given. *)
LEMMA NextAnswer ==
    PollInv /\ ResultHolds /\ [PollNext]_pollVars => ResultHolds'
<1> SUFFICES ASSUME PollInv, ResultHolds, [PollNext]_pollVars PROVE ResultHolds'
    OBVIOUS
<1> USE DEF ResultHolds
<1>1. CASE Move
    BY <1>1 DEF Move, Final
<1>2. CASE Tick \/ TickFires \/ StartRead \/ Wake
    BY <1>2 DEF Tick, TickFires, StartRead, Wake, alpacaVars
<1>3. CASE TickTooLate
    BY <1>3 DEF TickTooLate, EndPoll, alpacaVars, Final
<1>4. CASE DeadlinePassed
    <2> DEFINE error == IF throttled THEN "throttled" ELSE "timed_out"
    <2>1. PICK hint \in Hints, delay \in Delays : Failed(error, hint, delay)
        BY <1>4 DEF DeadlinePassed
    <2>2. error \in Errors \cup {"timed_out"}
        BY DEF Errors
    <2>3. AfterFailed(error)
        <3> HIDE DEF error
        <3> QED BY <2>1, <2>2, FailedStep
    <2> QED BY <1>4, <2>3 DEF AfterFailed, DeadlinePassed, alpacaVars, Final
<1>5. CASE ReadAnswers
    <2>1. PICK s \in Reported, t \in {FALSE, tx} :
              \/ EndPoll(Answer(s, t))
              \/ Again
              \/ Sleep(Interval)
        BY <1>5 DEF ReadAnswers
    <2>2. UNCHANGED <<poll, alpacaVars>>
        BY <1>5 DEF ReadAnswers
    <2>3. CASE EndPoll(Answer(s, t))
        <3>1. result' = Answer(s, t)
            BY <2>3 DEF EndPoll
        <3> QED BY <2>2, <3>1, AnswerStep DEF alpacaVars
    <2>4. CASE Again \/ Sleep(Interval)
        BY <2>2, <2>4 DEF Again, Sleep, alpacaVars
    <2> QED BY <2>1, <2>3, <2>4
<1>6. ASSUME NEW error \in Errors, NEW hint \in Hints, NEW delay \in Delays,
             PollReadFails(error, hint, delay)
      PROVE  ResultHolds'
    <2>1. AfterFailed(error)
        BY <1>6, FailedStep DEF PollReadFails
    <2> QED BY <1>6, <2>1 DEF AfterFailed, PollReadFails, alpacaVars, Errors, Final
<1>7. CASE UNCHANGED pollVars
    BY <1>7 DEF pollVars, alpacaVars
<1> QED
    BY <1>1, <1>2, <1>3, <1>4, <1>5, <1>6, <1>7 DEF PollNext

(* A poll of src/wallet/status.rs or src/tokenization/client.rs is over by *)
(* its deadline: no wait, Retry-After or read runs past it.                *)
THEOREM DeadlineHolds ==
    PollSpec => []EndsByDeadline
<1>1. PollInv => EndsByDeadline BY DEF PollInv
<1> QED BY <1>1, PollInvariance, PTL

(* A poll the deadline ends names its cause: the 429 exactly when the last  *)
(* read to end was throttled. What a poll hands on holds at Alpaca for good: *)
(* a hash is that of a completed transfer, a final status the one Alpaca     *)
(* holds, and a tokenization request one of this client's own network.       *)
THEOREM AnswerIsTrue ==
    PollSpec => []AnswerHolds
<1>1. PollInit => ResultHolds
    BY DEF PollInit, ResultHolds, Final
<1>2. PollInv /\ ResultHolds => AnswerHolds
    BY DEF PollInv, AnswerHolds
<1>3. PollInv /\ ResultHolds /\ [PollNext]_pollVars => ResultHolds'
    BY NextAnswer
<1> QED BY <1>1, <1>2, <1>3, PollInvariance, PTL DEF PollSpec
=============================================================================
