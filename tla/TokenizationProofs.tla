------------------------- MODULE TokenizationProofs -------------------------
(***************************************************************************)
(* Proofs about Tokenization for any keys, symbols, networks, quantities   *)
(* and bounds: one request per issuer request id, a mint answered          *)
(* not_applied leaves none, what a caller holds is its own, and shares and *)
(* tokens are conserved but for the exceptions SupplyIsConstant names.     *)
(***************************************************************************)
EXTENDS Tokenization, Sums

Statuses == {"pending", "completed", "rejected", "failed"}
AnySymbol == Symbols \cup {CHOOSE s \in Known : TRUE}

Requests == [kind : {"mint", "redeem"}, key : Keys \cup {NoKey}, symbol : AnySymbol,
             quantity : Quantities, network : Chains, status : Statuses, polls : Nat,
             until : {Until, Never}, tx : Nat, executing : BOOLEAN, by : Nat]

LatePosts == [key : Keys, symbol : Symbols, quantity : Quantities, network : Chains,
              by : Nat]

Bodies == (Symbols \X Quantities \X Chains) \cup {<<>>}

Attempts == [key : Keys, told : {"applied", "not_applied", "unknown", "recovered"},
             request : Nat, body : Bodies]

Types ==
    /\ requests \in Seq(Requests) /\ stray \in SUBSET LatePosts
    /\ attempts \in Seq(Attempts) /\ sends \in Seq(Quantities)
    /\ shares \in Int /\ tokens \in Nat /\ owed \in Nat /\ lost \in Nat
    /\ skewed \in BOOLEAN
    /\ watcher \in [last : Nat, next : Nat, to : Nat]
    /\ transfer \in [request : Nat, reverted : BOOLEAN]

\* What each request is: polled no more than its threshold, executed only as a
\* mint, made by a call there was, and a redemption of its own block or of none.
Sound(r) ==
    /\ r.polls <= Until
    /\ r.executing => r.kind = "mint"
    /\ r.by <= Len(attempts)
    /\ IF r.kind = "mint" THEN r.tx = NoTx
       ELSE /\ r.key = NoKey
            /\ r.tx # NoTx => r.tx \in DOMAIN sends /\ r.quantity = sends[r.tx]

AllSound == \A i \in DOMAIN requests : Sound(requests[i])

OncePerKey ==
    \A i, j \in DOMAIN requests :
        /\ requests[i].kind = "mint" /\ requests[j].kind = "mint"
        /\ requests[i].key = requests[j].key /\ requests[i].key \in Keys
        => i = j

OncePerBlock ==
    \A i, j \in DOMAIN requests :
        requests[i].kind = "redeem" /\ requests[j].kind = "redeem"
        /\ requests[i].tx = requests[j].tx /\ requests[i].tx # NoTx => i = j

\* What callers were told. An attempt is known to the requests and late POSTs
\* it made by its number.
Callers ==
    /\ \A post \in stray : post.by <= Len(attempts)
    /\ \A a \in DOMAIN attempts :
          /\ attempts[a].told = "not_applied" =>
                /\ \A i \in DOMAIN requests : requests[i].by # a
                /\ \A post \in stray : post.by # a
          /\ attempts[a].told \in {"applied", "recovered"} =>
                /\ attempts[a].request \in DOMAIN requests
                /\ requests[attempts[a].request].key = attempts[a].key
          /\ attempts[a].told = "applied" =>
                Body(requests[attempts[a].request]) = attempts[a].body

\* A mint the executor works on stays to be executed until it is done with it.
Executor ==
    /\ \A i \in jobs : i \in DOMAIN requests /\ requests[i].executing
    /\ transfer # NoTransfer => transfer.request \in jobs

\* The watcher has recorded every block it has passed.
Watching ==
    /\ watcher.last <= Len(sends)
    /\ watcher.next # 0 => watcher.last < watcher.next /\ watcher.next <= watcher.to
                           /\ watcher.to <= Len(sends)
    /\ \A b \in DOMAIN sends : b <= watcher.last \/ b < watcher.next => Recorded(b)

RecordedBlocks == {b \in DOMAIN sends : Recorded(b)}

Bounded ==
    /\ Len(requests) <= MaxRequests + Cardinality(RecordedBlocks)
    /\ Len(sends) <= MaxSends

Inv ==
    /\ Types /\ AllSound /\ OncePerKey /\ OncePerBlock /\ Callers /\ Executor
    /\ Watching /\ Bounded /\ SupplyIsConstant

\* What no step changes of a request.
Same(r, s) ==
    /\ s.kind = r.kind /\ s.key = r.key /\ s.symbol = r.symbol /\ s.quantity = r.quantity
    /\ s.network = r.network /\ s.tx = r.tx /\ s.by = r.by

\* A step that makes no request moves the ones there are.
Evolves ==
    /\ requests' \in Seq(Requests) /\ Len(requests') = Len(requests)
    /\ \A i \in DOMAIN requests :
          /\ Same(requests[i], requests'[i]) /\ requests'[i].polls <= Until
          /\ requests'[i].executing => requests'[i].kind = "mint"

\* A request as it is made: a mint under a new key or what a test injects, or the
\* redemption of the block the watcher is at.
Fresh(r) ==
    /\ r \in Requests /\ r.status = "pending" /\ ~r.executing /\ r.polls = 0
    /\ requests' = Append(requests, r)
    /\ \/ /\ r.tx = NoTx /\ Len(requests) < MaxRequests
          /\ r.key \in Keys => Mints(r.key) = {}
          /\ r.kind = "redeem" => r.key = NoKey
          /\ r.by <= Len(attempts') /\ UNCHANGED <<sends, watcher>>
       \/ /\ r.kind = "redeem" /\ r.key = NoKey /\ r.by = 0
          /\ watcher.next # 0 /\ r.tx = watcher.next /\ r.quantity = sends[r.tx]
          /\ ~Recorded(r.tx) /\ UNCHANGED <<sends, attempts, stray>>

-----------------------------------------------------------------------------

(* A request whose state changed is one, with the identity it had. *)
LEMMA Updated ==
    ASSUME NEW r \in Requests, NEW s \in Statuses, NEW e \in BOOLEAN, NEW n \in Nat
    PROVE  /\ [r EXCEPT !.status = s] \in Requests /\ Same(r, [r EXCEPT !.status = s])
           /\ [r EXCEPT !.executing = e] \in Requests /\ Same(r, [r EXCEPT !.executing = e])
           /\ [r EXCEPT !.polls = n] \in Requests /\ Same(r, [r EXCEPT !.polls = n])
           /\ \A u \in {Until, Never} : /\ [r EXCEPT !.until = u] \in Requests
                                        /\ Same(r, [r EXCEPT !.until = u])
           /\ [r EXCEPT !.status = s, !.executing = e] \in Requests
           /\ Same(r, [r EXCEPT !.status = s, !.executing = e])
           /\ [r EXCEPT !.executing = e, !.status = s]
                 = [r EXCEPT !.status = s, !.executing = e]
<1>1. /\ [r EXCEPT !.status = s] \in Requests /\ Same(r, [r EXCEPT !.status = s])
    BY DEF Requests, Same
<1>2. /\ [r EXCEPT !.executing = e] \in Requests /\ Same(r, [r EXCEPT !.executing = e])
    BY DEF Requests, Same
<1>3. /\ [r EXCEPT !.polls = n] \in Requests /\ Same(r, [r EXCEPT !.polls = n])
    BY DEF Requests, Same
<1>4. /\ [r EXCEPT !.status = s, !.executing = e] \in Requests
      /\ Same(r, [r EXCEPT !.status = s, !.executing = e])
    BY DEF Requests, Same
<1>5. [r EXCEPT !.executing = e, !.status = s] = [r EXCEPT !.status = s, !.executing = e]
    BY DEF Requests
<1>6. \A u \in {Until, Never} : /\ [r EXCEPT !.until = u] \in Requests
                                /\ Same(r, [r EXCEPT !.until = u])
    BY DEF Requests, Same
<1> QED BY <1>1, <1>2, <1>3, <1>4, <1>5, <1>6

LEMMA RequestTypes ==
    ASSUME Types, NEW i \in DOMAIN requests
    PROVE  /\ requests[i] \in Requests /\ requests[i].status \in Statuses
           /\ requests[i].polls \in Nat /\ requests[i].until \in {Until, Never}
           /\ requests[i].executing \in BOOLEAN /\ requests[i].quantity \in Quantities
           /\ requests[i].tx \in Nat /\ requests[i].by \in Nat
           /\ requests[i].kind \in {"mint", "redeem"} /\ i \in Nat /\ i # 0
           /\ i \in 1..Len(requests) /\ Len(requests) \in Nat
<1>1. requests[i] \in Requests /\ i \in 1..Len(requests) /\ Len(requests) \in Nat
    BY DEF Types
<1> QED BY <1>1 DEF Requests

LEMMA Numbers ==
    /\ Quantities \subseteq Nat /\ \A q \in Quantities : q > 0
    /\ Until \in Nat /\ Until > 0 /\ Until # Never
    /\ MaxRequests \in Nat /\ MaxSends \in Nat
BY TokenizationAssumption DEF Never

(* A poll moves a request no further than its threshold. *)
LEMMA PolledKeeps ==
    ASSUME NEW r \in Requests, Sound(r), NEW o \in {"completed", "rejected"}
    PROVE  /\ polled(r, o) \in Requests /\ Same(r, polled(r, o))
           /\ polled(r, o).polls <= Until
           /\ polled(r, o).executing => r.kind = "mint"
           /\ r.executing => polled(r, o).executing
           /\ polled(r, o).status # r.status =>
                 r.kind = "redeem" /\ r.status = "pending" /\ polled(r, o).status = o
<1>1. /\ r.polls \in Nat /\ r.polls + 1 \in Nat /\ r.status \in Statuses /\ o \in Statuses
      /\ r.until \in {Until, Never} /\ r.executing \in BOOLEAN
      /\ r.kind \in {"mint", "redeem"}
    BY DEF Requests, Statuses
<1>2. CASE ~Due(r) /\ ~(Advances(r) /\ r.polls + 1 < Until)
    <2>1. polled(r, o) = [r EXCEPT !.polls = r.polls]
        BY <1>2 DEF polled
    <2>2. [r EXCEPT !.polls = r.polls] = r
        BY DEF Requests
    <2> QED BY <2>1, <2>2 DEF Same, Sound
<1>3. CASE ~Due(r) /\ Advances(r) /\ r.polls + 1 < Until
    <2>1. polled(r, o) = [r EXCEPT !.polls = r.polls + 1]
        BY <1>3 DEF polled
    <2>2. r.polls + 1 <= Until
        BY <1>1, <1>3, Numbers DEF Due
    <2>3. /\ [r EXCEPT !.polls = r.polls + 1].polls = r.polls + 1
          /\ [r EXCEPT !.polls = r.polls + 1].executing = r.executing
          /\ [r EXCEPT !.polls = r.polls + 1].status = r.status
        BY DEF Requests
    <2>4. /\ [r EXCEPT !.polls = r.polls + 1] \in Requests
          /\ Same(r, [r EXCEPT !.polls = r.polls + 1])
        BY <1>1, Updated
    <2> QED BY <2>1, <2>2, <2>3, <2>4 DEF Sound
<1>4. CASE Due(r) /\ r.kind = "mint"
    <2>1. polled(r, o) = [r EXCEPT !.executing = TRUE]
        BY <1>4 DEF polled
    <2>2. /\ [r EXCEPT !.executing = TRUE].polls = r.polls
          /\ [r EXCEPT !.executing = TRUE].executing = TRUE
          /\ [r EXCEPT !.executing = TRUE].status = r.status
        BY DEF Requests
    <2> QED BY <1>1, <1>4, <2>1, <2>2, Updated DEF Sound, Due, Advances
<1>5. CASE Due(r) /\ r.kind # "mint"
    <2>1. polled(r, o) = [r EXCEPT !.status = o]
        BY <1>5 DEF polled
    <2>2. /\ [r EXCEPT !.status = o].polls = r.polls
          /\ [r EXCEPT !.status = o].executing = r.executing
          /\ [r EXCEPT !.status = o].status = o
        BY DEF Requests
    <2>3. [r EXCEPT !.status = o] \in Requests /\ Same(r, [r EXCEPT !.status = o])
        BY <1>1, Updated
    <2> QED BY <1>1, <1>5, <2>1, <2>2, <2>3 DEF Sound, Due, Advances
<1> QED BY <1>2, <1>3, <1>4, <1>5

(* What appending to a sequence does. *)
LEMMA Appended ==
    ASSUME NEW S, NEW s \in Seq(S), NEW x \in S
    PROVE  /\ Append(s, x) \in Seq(S) /\ Len(Append(s, x)) = Len(s) + 1
           /\ Len(s) \in Nat /\ DOMAIN s = 1..Len(s) /\ Len(s) + 1 \notin DOMAIN s
           /\ DOMAIN Append(s, x) = DOMAIN s \cup {Len(s) + 1}
           /\ \A i \in DOMAIN s : Append(s, x)[i] = s[i]
           /\ Append(s, x)[Len(s) + 1] = x
OBVIOUS

(* Requests moved one by one stay a sequence of as many requests. *)
LEMMA Moved ==
    ASSUME Types, DOMAIN requests' = DOMAIN requests,
           requests' = [i \in DOMAIN requests |-> requests'[i]],
           \A i \in DOMAIN requests : requests'[i] \in Requests
    PROVE  requests' \in Seq(Requests) /\ Len(requests') = Len(requests)
<1>1. DOMAIN requests = 1..Len(requests) /\ Len(requests) \in Nat
    BY DEF Types
<1> QED BY <1>1

(* One request changed and the others left alone. *)
LEMMA OneMoved ==
    ASSUME Types, AllSound, NEW j \in DOMAIN requests, NEW s \in Requests,
           requests' = [requests EXCEPT ![j] = s], Same(requests[j], s),
           s.polls <= Until, s.executing => s.kind = "mint"
    PROVE  /\ Evolves /\ requests'[j] = s
           /\ \A i \in DOMAIN requests \ {j} : requests'[i] = requests[i]
<1>1. \A i \in DOMAIN requests : requests'[i] = IF i = j THEN s ELSE requests[i]
    BY DEF Types
<1>2. \A i \in DOMAIN requests : requests'[i] \in Requests
    BY <1>1, RequestTypes
<1>3. requests' \in Seq(Requests) /\ Len(requests') = Len(requests)
    BY <1>2, Moved DEF Types
<1>4. \A i \in DOMAIN requests : Same(requests[i], requests[i])
    BY DEF Same
<1> QED BY <1>1, <1>3, <1>4 DEF Evolves, AllSound, Sound

(* The list endpoint moves the requests, and each by its poll. *)
LEMMA Listed ==
    ASSUME Types, AllSound, NEW o \in {"completed", "rejected"}, List(o)
    PROVE  Evolves /\ \A i \in DOMAIN requests : requests'[i] = polled(requests[i], o)
<1>1. requests' = [i \in DOMAIN requests |-> polled(requests[i], o)]
    BY DEF List
<1>2. \A i \in DOMAIN requests : requests[i] \in Requests /\ Sound(requests[i])
    BY RequestTypes DEF AllSound
<1>3. \A i \in DOMAIN requests :
        /\ requests'[i] = polled(requests[i], o)
        /\ requests'[i] \in Requests /\ Same(requests[i], requests'[i])
        /\ requests'[i].polls <= Until
        /\ requests'[i].executing => requests[i].kind = "mint"
    BY <1>1, <1>2, PolledKeeps
<1>4. requests' \in Seq(Requests) /\ Len(requests') = Len(requests)
    BY <1>1, <1>3, Moved
<1> QED BY <1>3, <1>4 DEF Evolves, Same

(* The executor's collection fails what it has no token for. *)
LEMMA Collected ==
    ASSUME Types, AllSound, Collect
    PROVE  /\ Evolves
           /\ \A i \in DOMAIN requests :
                 IF requests[i].executing /\ requests[i].symbol \notin Known
                 THEN requests'[i].status = "failed" /\ ~requests'[i].executing
                 ELSE requests'[i] = requests[i]
<1> DEFINE Failed(r) == [r EXCEPT !.executing = FALSE, !.status = "failed"]
<1>1. requests' = [i \in DOMAIN requests |->
                      IF requests[i].executing /\ requests[i].symbol \notin Known
                      THEN Failed(requests[i]) ELSE requests[i]]
    BY DEF Collect
<1>2. \A r \in Requests :
        /\ Failed(r) \in Requests /\ Same(r, Failed(r)) /\ Failed(r).status = "failed"
        /\ Failed(r).executing = FALSE /\ Failed(r).polls = r.polls
    <2> SUFFICES ASSUME NEW r \in Requests
                 PROVE  /\ Failed(r) \in Requests /\ Same(r, Failed(r))
                        /\ Failed(r).status = "failed" /\ Failed(r).executing = FALSE
                        /\ Failed(r).polls = r.polls
        OBVIOUS
    <2>1. "failed" \in Statuses
        BY DEF Statuses
    <2> QED BY <2>1 DEF Requests, Same
<1> HIDE DEF Failed
<1>3. \A i \in DOMAIN requests : requests[i] \in Requests /\ Sound(requests[i])
    BY RequestTypes DEF AllSound
<1>4. \A i \in DOMAIN requests :
        requests'[i] = IF requests[i].executing /\ requests[i].symbol \notin Known
                       THEN Failed(requests[i]) ELSE requests[i]
    BY <1>1
<1>5. \A i \in DOMAIN requests :
        requests'[i] \in Requests /\ Same(requests[i], requests'[i])
    BY <1>2, <1>3, <1>4 DEF Same
<1>6. requests' \in Seq(Requests) /\ Len(requests') = Len(requests)
    BY <1>1, <1>5, Moved
<1>7. \A i \in DOMAIN requests :
        /\ requests'[i].polls <= Until
        /\ requests'[i].executing => requests'[i].kind = "mint"
    BY <1>2, <1>3, <1>4, <1>5 DEF Sound, Same
<1> QED BY <1>2, <1>3, <1>4, <1>5, <1>6, <1>7 DEF Evolves

(* The receipt ends the mint it is of. *)
LEMMA Received ==
    ASSUME Types, AllSound, Executor, Receipt
    PROVE  /\ transfer.request \in DOMAIN requests /\ requests[transfer.request].executing
           /\ Evolves
           /\ requests'[transfer.request].status
                 = IF transfer.reverted THEN "failed" ELSE "completed"
           /\ \A i \in DOMAIN requests \ {transfer.request} : requests'[i] = requests[i]
<1> DEFINE j == transfer.request
           st == IF transfer.reverted THEN "failed" ELSE "completed"
           s == [requests[j] EXCEPT !.status = st, !.executing = FALSE]
<1>1. j \in DOMAIN requests /\ requests[j].executing
    BY DEF Receipt, Executor
<1>2. requests[j] \in Requests /\ st \in Statuses
    BY <1>1, RequestTypes DEF Statuses
<1>3. requests' = [requests EXCEPT ![j] = s]
    BY <1>1 DEF Receipt, Types
<1>4. s \in Requests /\ Same(requests[j], s)
    <2> HIDE DEF st
    <2> QED BY <1>2, Updated
<1>5. s.polls = requests[j].polls /\ s.executing = FALSE /\ s.status = st
    BY <1>2 DEF Requests
<1>6. s.polls <= Until
    BY <1>1, <1>5 DEF AllSound, Sound
<1> HIDE DEF s, st
<1>7. Evolves /\ requests'[j] = s /\ \A i \in DOMAIN requests \ {j} : requests'[i] = requests[i]
    BY <1>1, <1>3, <1>4, <1>5, <1>6, OneMoved
<1> QED BY <1>1, <1>5, <1>7 DEF st

(* A test sets the status or the threshold of one request. *)
LEMMA StatusSet ==
    ASSUME Types, AllSound, SetRequestStatus
    PROVE  /\ Evolves
           /\ \E j \in DOMAIN requests, s \in Statuses :
                 /\ requests'[j].status = s /\ requests'[j].executing = requests[j].executing
                 /\ owed' = IF s = "completed" /\ requests[j].kind = "redeem"
                            THEN owed + requests[j].quantity ELSE owed
                 /\ skewed' = (skewed \/ GivenTwice(requests[j], s))
                 /\ \A i \in DOMAIN requests \ {j} : requests'[i] = requests[i]
<1>1. PICK j \in DOMAIN requests, s \in Statuses :
        /\ requests' = [requests EXCEPT ![j].status = s]
        /\ owed' = IF s = "completed" /\ requests[j].kind = "redeem"
                   THEN owed + requests[j].quantity ELSE owed
        /\ skewed' = (skewed \/ GivenTwice(requests[j], s))
    BY Zenon DEF SetRequestStatus, Statuses
<1> DEFINE t == [requests[j] EXCEPT !.status = s]
<1>2. requests[j] \in Requests
    BY RequestTypes
<1>3. requests' = [requests EXCEPT ![j] = t]
    BY <1>1 DEF Types
<1>4. t \in Requests /\ Same(requests[j], t)
    BY <1>2, Updated
<1>5. t.polls = requests[j].polls /\ t.executing = requests[j].executing /\ t.status = s
      /\ t.kind = requests[j].kind
    BY <1>2 DEF Requests
<1>6. t.polls <= Until /\ (t.executing => t.kind = "mint")
    BY <1>5 DEF AllSound, Sound
<1> HIDE DEF t
<1>7. Evolves /\ requests'[j] = t /\ \A i \in DOMAIN requests \ {j} : requests'[i] = requests[i]
    BY <1>3, <1>4, <1>6, OneMoved
<1> QED BY <1>1, <1>5, <1>7

LEMMA PollsSet ==
    ASSUME Types, AllSound, SetRequestPolls
    PROVE  /\ Evolves
           /\ \A i \in DOMAIN requests :
                 /\ requests'[i].status = requests[i].status
                 /\ requests'[i].executing = requests[i].executing
<1>1. PICK j \in DOMAIN requests, u \in {Until, Never} :
        requests' = [requests EXCEPT ![j].until = u]
    BY DEF SetRequestPolls
<1> DEFINE t == [requests[j] EXCEPT !.until = u]
<1>2. requests[j] \in Requests
    BY RequestTypes
<1>3. requests' = [requests EXCEPT ![j] = t]
    BY <1>1 DEF Types
<1>4. t \in Requests /\ Same(requests[j], t)
    <2>1. "pending" \in Statuses /\ TRUE \in BOOLEAN /\ 0 \in Nat
        BY DEF Statuses
    <2> QED BY <1>2, <2>1, Updated
<1>5. t.polls = requests[j].polls /\ t.executing = requests[j].executing
      /\ t.kind = requests[j].kind /\ t.status = requests[j].status
    BY <1>2 DEF Requests
<1>6. t.polls <= Until /\ (t.executing => t.kind = "mint")
    BY <1>5 DEF AllSound, Sound
<1> HIDE DEF t
<1>7. Evolves /\ requests'[j] = t /\ \A i \in DOMAIN requests \ {j} : requests'[i] = requests[i]
    BY <1>3, <1>4, <1>6, OneMoved
<1> QED BY <1>5, <1>7

(* The mint endpoint makes a request under a new key and answers with the *)
(* one there is under a key it has seen.                                   *)
LEMMA Registered ==
    ASSUME Types, NEW post \in LatePosts
    PROVE  LET r == Request("mint", post.key, post.symbol, post.quantity, post.network,
                            Until, post.by)
           IN  \/ /\ Mints(post.key) = {} /\ r \in Requests
                  /\ register_mint(post).requests = Append(requests, r)
                  /\ register_mint(post).status = 200
                  /\ register_mint(post).request = Len(requests) + 1
               \/ /\ register_mint(post).requests = requests
                  /\ register_mint(post).request \in Mints(post.key)
                  /\ register_mint(post).status = 200 =>
                        LET i == register_mint(post).request
                        IN  /\ requests[i].symbol = post.symbol
                            /\ requests[i].quantity = post.quantity
<1> DEFINE r == Request("mint", post.key, post.symbol, post.quantity, post.network,
                        Until, post.by)
           i == CHOOSE i \in Mints(post.key) : TRUE
<1>1. CASE Mints(post.key) = {}
    <2>1. r \in Requests
        BY DEF Request, Requests, LatePosts, Statuses, AnySymbol, NoTx
    <2> QED BY <1>1, <2>1 DEF register_mint
<1>2. CASE Mints(post.key) # {}
    <2>1. i \in Mints(post.key)
        BY <1>2
    <2> HIDE DEF i
    <2>2. register_mint(post)
            = [requests |-> requests,
               status |-> IF requests[i].symbol = post.symbol
                             /\ requests[i].quantity = post.quantity THEN 200 ELSE 422,
               request |-> i]
        BY <1>2 DEF register_mint, i
    <2>3. /\ register_mint(post).requests = requests /\ register_mint(post).request = i
          /\ register_mint(post).status = IF requests[i].symbol = post.symbol
                             /\ requests[i].quantity = post.quantity THEN 200 ELSE 422
        BY <2>2
    <2> QED BY <2>1, <2>3
<1> QED BY <1>1, <1>2

(* A mint made of a POST is fresh. *)
LEMMA MintFresh ==
    ASSUME Types, NEW post \in LatePosts, requests' = register_mint(post).requests,
           Len(requests) < MaxRequests, post.by <= Len(attempts'),
           UNCHANGED <<sends, watcher>>
    PROVE  UNCHANGED requests \/ \E r \in Requests : Fresh(r)
<1> DEFINE r == Request("mint", post.key, post.symbol, post.quantity, post.network,
                        Until, post.by)
<1>1. /\ r.status = "pending" /\ ~r.executing /\ r.polls = 0 /\ r.kind = "mint"
      /\ r.tx = NoTx /\ r.key = post.key /\ r.by = post.by
    BY DEF Request
<1> HIDE DEF r
<1>2. CASE /\ Mints(post.key) = {} /\ r \in Requests
           /\ register_mint(post).requests = Append(requests, r)
    BY <1>1, <1>2 DEF Fresh
<1> QED BY <1>2, Registered DEF r

(* The redemption the watcher records is fresh. *)
LEMMA RedemptionFresh ==
    ASSUME Types, Watching, watcher.next # 0, requests' = recordRedemption(watcher.next),
           UNCHANGED <<sends, attempts, stray>>
    PROVE  /\ UNCHANGED requests \/ \E r \in Requests : Fresh(r)
           /\ watcher.next \in DOMAIN sends
           /\ \E i \in DOMAIN requests' :
                 requests'[i].kind = "redeem" /\ requests'[i].tx = watcher.next
<1> DEFINE b == watcher.next
           q == Request("redeem", NoKey, CHOOSE s \in Known : TRUE, sends[b], MockChain,
                        Until, 0)
           r == [q EXCEPT !.tx = b]
<1>1. b \in DOMAIN sends /\ b \in Nat
    <2>1. b \in Nat /\ b # 0 /\ b <= Len(sends) /\ watcher.to \in Nat /\ Len(sends) \in Nat
          /\ DOMAIN sends = 1..Len(sends)
        BY DEF Types, Watching
    <2> QED BY <2>1
<1>2. sends[b] \in Quantities
    BY <1>1 DEF Types
<1>3. q \in Requests /\ q.status = "pending" /\ ~q.executing /\ q.polls = 0
      /\ q.kind = "redeem" /\ q.key = NoKey /\ q.by = 0 /\ q.quantity = sends[b]
    BY <1>2, TokenizationAssumption
       DEF Request, Requests, Statuses, AnySymbol, NoTx
<1> HIDE DEF q
<1>4. r \in Requests /\ r.status = "pending" /\ ~r.executing /\ r.polls = 0
      /\ r.kind = "redeem" /\ r.key = NoKey /\ r.by = 0 /\ r.quantity = sends[b] /\ r.tx = b
    BY <1>1, <1>3 DEF Requests
<1>5. CASE Recorded(b)
    BY <1>1, <1>5 DEF recordRedemption, Recorded
<1>6. CASE ~Recorded(b)
    <2>1. requests' = Append(requests, r)
        BY <1>6 DEF recordRedemption, q
    <2> HIDE DEF r
    <2>2. Fresh(r)
        BY <1>4, <1>6, <2>1 DEF Fresh
    <2>3. Len(requests) + 1 \in DOMAIN requests' /\ requests'[Len(requests) + 1] = r
        BY <1>4, <2>1, Appended DEF Types
    <2> QED BY <1>1, <1>4, <2>2, <2>3
<1> QED BY <1>5, <1>6

(* A step that leaves the requests alone moves none of them. *)
LEMMA Unmoved == ASSUME Types, AllSound, UNCHANGED requests PROVE Evolves
<1>1. \A i \in DOMAIN requests : Same(requests[i], requests[i])
    BY DEF Same
<1> QED BY <1>1 DEF Evolves, Types, AllSound, Sound

LEMMA PostTypes == ASSUME Types, NEW post \in Posts
                   PROVE  post \in LatePosts /\ post.by = Len(attempts) + 1
BY DEF Types, Posts, LatePosts

(* What a caller is told is added to the attempts. *)
LEMMA ToldType ==
    ASSUME Types, NEW post \in Posts, NEW i \in Nat,
           NEW what \in {"applied", "not_applied", "unknown"}, Told(post, what, i)
    PROVE  /\ attempts' \in Seq(Attempts) /\ Len(attempts') = Len(attempts) + 1
           /\ Len(attempts) \in Nat /\ DOMAIN attempts = 1..Len(attempts)
           /\ DOMAIN attempts' = DOMAIN attempts \cup {Len(attempts) + 1}
           /\ \A a \in DOMAIN attempts : attempts'[a] = attempts[a]
           /\ attempts'[Len(attempts) + 1].told = what
           /\ attempts'[Len(attempts) + 1].request = i
           /\ attempts'[Len(attempts) + 1].key = post.key
           /\ what = "applied" => attempts'[Len(attempts) + 1].body = Body(post)
<1> DEFINE x == [key |-> post.key, told |-> what, request |-> i,
                 body |-> IF what = "applied" THEN Body(post) ELSE <<>>]
<1>1. Body(post) \in Bodies /\ <<>> \in Bodies
    BY DEF Body, Bodies, Posts
<1>2. x \in Attempts
    BY <1>1 DEF Attempts, Posts
<1>3. /\ x.told = what /\ x.request = i /\ x.key = post.key
      /\ what = "applied" => x.body = Body(post)
    OBVIOUS
<1>4. attempts' = Append(attempts, x) /\ attempts \in Seq(Attempts)
    BY DEF Told, Types
<1> HIDE DEF x
<1> QED BY <1>2, <1>3, <1>4, Appended

(* What a failed mint says: only a POST that never left, or was refused, can *)
(* be told not_applied.                                                       *)
LEMMA OutcomeType ==
    /\ \A error : outcome(error) \in {"not_applied", "unknown"}
    /\ outcome("Reqwest") = "unknown" /\ outcome("WrongNetwork") = "unknown"
    /\ outcome(map_mint_error(422, "other")) = "unknown"
<1>1. map_mint_error(422, "other") = "ApiError"
    BY DEF map_mint_error
<1> QED BY <1>1 DEF outcome, Unsent, is_definitive_mint_rejection

(* Every step leaves the requests alone, makes one or moves them, and only *)
(* the lists, the executor and the tests do that.                           *)
LEMMA RequestsMade ==
    ASSUME Types, AllSound, Executor, Watching, Callers, [Next]_vars
    PROVE  \/ UNCHANGED requests
           \/ \E r \in Requests : Fresh(r)
           \/ Evolves /\ (Read \/ Reconcile \/ Collect \/ Receipt \/ SetRequestStatus
                      \/ SetRequestPolls)
<1> USE DEF tokenizer, chain, executor, books, forcing
<1>1. CASE MintCall
    <2>1. PICK post \in Posts :
             MintUnsent(post) \/ MintAnswered(post) \/ MintRefused(post) \/ MintLost(post)
        BY <1>1 DEF MintCall
    <2>2. CASE MintUnsent(post) \/ MintRefused(post) \/ MintLost(post)
        BY <2>2 DEF MintUnsent, MintRefused, MintLost
    <2>3. CASE MintAnswered(post)
        <3>1. /\ requests' = register_mint(post).requests /\ Len(requests) < MaxRequests
              /\ UNCHANGED <<sends, watcher>>
            BY <2>3 DEF MintAnswered
        <3>2. Len(attempts') = Len(attempts) + 1
            <4>1. \E x : attempts' = Append(attempts, x)
                BY <2>3 DEF MintAnswered, Told
            <4> QED BY <4>1 DEF Types
        <3>3. post \in LatePosts /\ post.by <= Len(attempts')
            BY <3>2, PostTypes DEF Types
        <3> QED BY <3>1, <3>3, MintFresh
    <2> QED BY <2>1, <2>2, <2>3
<1>2. CASE Land
    <2>1. PICK post \in stray : requests' = register_mint(post).requests
        BY <1>2 DEF Land
    <2>2. post \in LatePosts /\ post.by <= Len(attempts') /\ Len(requests) < MaxRequests
          /\ UNCHANGED <<sends, watcher>>
        BY <1>2 DEF Land, Types, Callers
    <2> QED BY <2>1, <2>2, MintFresh
<1>3. CASE Read \/ Reconcile
    BY <1>3, Listed DEF Read, Reconcile
<1>4. CASE Collect
    BY <1>4, Collected
<1>5. CASE Receipt
    BY <1>5, Received
<1>6. CASE SetRequestStatus
    BY <1>6, StatusSet
<1>10. CASE SetRequestPolls
    BY <1>10, PollsSet
<1>7. CASE ScanBlock \/ ScanFails
    <2>1. requests' = requests \/ requests' = recordRedemption(watcher.next)
        BY <1>7 DEF ScanBlock, ScanFails
    <2>2. watcher.next # 0 /\ UNCHANGED <<sends, attempts, stray>>
        BY <1>7 DEF ScanBlock, ScanFails
    <2> QED BY <2>1, <2>2, RedemptionFresh
<1>8. CASE Inject
    <2>1. PICK kind \in {"mint", "redeem"}, s \in Known, q \in Quantities :
             requests' = Append(requests, Request(kind, NoKey, s, q, MockChain, Never, 0))
        BY <1>8 DEF Inject
    <2> DEFINE r == Request(kind, NoKey, s, q, MockChain, Never, 0)
    <2>2. r \in Requests /\ r.status = "pending" /\ ~r.executing /\ r.polls = 0
          /\ r.tx = NoTx /\ r.key = NoKey /\ r.by = 0
        BY TokenizationAssumption DEF Request, Requests, Statuses, AnySymbol, NoTx
    <2> HIDE DEF r
    <2>3. NoKey \notin Keys
        BY TokenizationAssumption
    <2>4. Len(requests) < MaxRequests /\ UNCHANGED <<sends, watcher, attempts>>
        BY <1>8 DEF Inject
    <2>5. Fresh(r)
        BY <2>1, <2>2, <2>3, <2>4 DEF Fresh, Types, r
    <2> QED BY <2>2, <2>5
<1>9. CASE SendTransfer \/ SendFails \/ ReceiptLost \/ Redeem \/ ScanStart \/ GiveBack
           \/ UNCHANGED vars
    <2>1. UNCHANGED requests
        BY <1>9 DEF SendTransfer, SendFails, ReceiptLost, Redeem, ScanStart, GiveBack, vars
    <2> QED BY <2>1
<1> QED BY <1>1, <1>2, <1>3, <1>4, <1>5, <1>6, <1>7, <1>8, <1>9, <1>10 DEF Next

LEMMA RequestsStep ==
    ASSUME Types, AllSound, Executor, Watching, Callers, [Next]_vars
    PROVE  Evolves \/ \E r \in Requests : Fresh(r)
BY RequestsMade, Unmoved

(* What a step keeps of the requests there are. *)
LEMMA Kept ==
    ASSUME Types, Evolves \/ \E r \in Requests : Fresh(r)
    PROVE  /\ requests' \in Seq(Requests) /\ Len(requests') >= Len(requests)
           /\ \A i \in DOMAIN requests :
                 i \in DOMAIN requests' /\ Same(requests[i], requests'[i])
<1>1. CASE Evolves
    BY <1>1 DEF Evolves, Types
<1>2. ASSUME NEW r \in Requests, Fresh(r)
      PROVE  /\ requests' \in Seq(Requests) /\ Len(requests') >= Len(requests)
             /\ \A i \in DOMAIN requests :
                   i \in DOMAIN requests' /\ Same(requests[i], requests'[i])
    <2>1. requests' = Append(requests, r) /\ requests \in Seq(Requests)
        BY <1>2 DEF Fresh, Types
    <2>2. /\ requests' \in Seq(Requests) /\ Len(requests') = Len(requests) + 1
          /\ Len(requests) \in Nat /\ DOMAIN requests' = DOMAIN requests \cup {Len(requests) + 1}
          /\ \A i \in DOMAIN requests : requests'[i] = requests[i]
        BY <2>1, Appended
    <2> QED BY <2>2 DEF Same
<1> QED BY <1>1, <1>2

(* One request per key, and one redemption per block. *)
LEMMA OnceStep ==
    ASSUME Types, AllSound, OncePerKey, OncePerBlock, Evolves \/ \E r \in Requests : Fresh(r)
    PROVE  OncePerKey' /\ OncePerBlock'
<1>1. CASE Evolves
    <2>1. DOMAIN requests' = DOMAIN requests
        BY <1>1 DEF Evolves, Types
    <2>2. \A i \in DOMAIN requests : Same(requests[i], requests'[i])
        BY <1>1 DEF Evolves
    <2>3. OncePerKey'
        BY <2>1, <2>2 DEF OncePerKey, Same
    <2>4. OncePerBlock'
        BY <2>1, <2>2 DEF OncePerBlock, Same
    <2> QED BY <2>3, <2>4
<1>2. ASSUME NEW r \in Requests, Fresh(r) PROVE OncePerKey' /\ OncePerBlock'
    <2>1. requests' = Append(requests, r) /\ requests \in Seq(Requests)
        BY <1>2 DEF Fresh, Types
    <2>2. /\ DOMAIN requests' = DOMAIN requests \cup {Len(requests) + 1}
          /\ requests'[Len(requests) + 1] = r
          /\ \A i \in DOMAIN requests : requests'[i] = requests[i]
        BY <2>1, Appended
    <2>3. \A i \in DOMAIN requests :
            ~(requests[i].kind = "mint" /\ r.kind = "mint" /\ requests[i].key = r.key
              /\ r.key \in Keys)
        BY <1>2 DEF Fresh, Mints
    <2>4. \A i \in DOMAIN requests :
            ~(requests[i].kind = "redeem" /\ r.kind = "redeem" /\ requests[i].tx = r.tx
              /\ r.tx # NoTx)
        BY <1>2 DEF Fresh, Recorded
    <2>5. OncePerKey'
        BY <2>2, <2>3 DEF OncePerKey
    <2>6. OncePerBlock'
        BY <2>2, <2>4 DEF OncePerBlock
    <2> QED BY <2>5, <2>6
<1> QED BY <1>1, <1>2

(* A call that is answered with a request holds the one under its key, with *)
(* the body it asked for; any other answer leaves the outcome unknown.       *)
LEMMA Answered ==
    ASSUME Types, NEW post \in Posts, MintAnswered(post)
    PROVE  \E what \in {"applied", "unknown"}, i \in Nat :
              /\ Told(post, what, i)
              /\ what = "applied" =>
                    /\ i \in DOMAIN requests' /\ requests'[i].key = post.key
                    /\ Body(requests'[i]) = Body(post)
<1> DEFINE answer == register_mint(post)
           i == answer.request
           parses == i > Len(requests) \/ requests[i].status # "failed"
           network == IF i > Len(requests) THEN TRUE ELSE confirm_network(i, post.network)
           r == Request("mint", post.key, post.symbol, post.quantity, post.network,
                        Until, post.by)
<1>1. /\ requests' = answer.requests
      /\ IF answer.status = 200 /\ parses /\ network
         THEN Told(post, "applied", i)
         ELSE Told(post, outcome(IF answer.status = 200 THEN "WrongNetwork"
                                 ELSE map_mint_error(422, "other")), 0)
    BY DEF MintAnswered
<1>2. CASE ~(answer.status = 200 /\ parses /\ network)
    <2>1. Told(post, "unknown", 0)
        BY <1>1, <1>2, OutcomeType
    <2> QED BY <2>1
<1>3. CASE answer.status = 200 /\ parses /\ network
    <2>1. Told(post, "applied", i)
        BY <1>1, <1>3
    <2>2. post \in LatePosts
        BY PostTypes
    <2>3. i \in Nat /\ i \in DOMAIN requests' /\ requests'[i].key = post.key
          /\ Body(requests'[i]) = Body(post)
        <3>1. CASE /\ r \in Requests /\ answer.requests = Append(requests, r)
                   /\ i = Len(requests) + 1
            <4>1. r.key = post.key /\ Body(r) = Body(post)
                BY DEF Request, Body
            <4> HIDE DEF r, answer, i
            <4>2. requests' = Append(requests, r) /\ requests \in Seq(Requests)
                BY <1>1, <3>1 DEF Types
            <4>3. i \in DOMAIN requests' /\ requests'[i] = r /\ i \in Nat
                BY <3>1, <4>2, Appended
            <4> QED BY <4>1, <4>3
        <3>2. CASE /\ answer.requests = requests /\ i \in Mints(post.key)
                   /\ requests[i].symbol = post.symbol /\ requests[i].quantity = post.quantity
            <4>1. i \in DOMAIN requests /\ requests[i].key = post.key
                BY <3>2 DEF Mints
            <4>2. ~(i > Len(requests)) /\ i \in Nat
                BY <4>1, RequestTypes
            <4>3. requests[i].network = post.network
                BY <1>3, <4>2 DEF confirm_network
            <4> QED BY <1>1, <3>2, <4>1, <4>2, <4>3 DEF Body
        <3> QED BY <1>3, <2>2, <3>1, <3>2, Registered
    <2> QED BY <2>1, <2>3
<1> QED BY <1>2, <1>3

(* What a step does to the attempts: a call adds one, a reconciliation       *)
(* recovers one of unknown outcome.                                          *)
LEMMA AttemptsStep ==
    ASSUME Types, [Next]_vars
    PROVE  \/ UNCHANGED attempts /\ ~MintCall
           \/ MintCall
           \/ /\ Reconcile
              /\ \E a \in DOMAIN attempts, i \in DOMAIN requests :
                    /\ attempts[a].told = "unknown" /\ i \in Mints(attempts[a].key)
                    /\ attempts' = [attempts EXCEPT ![a].told = "recovered", ![a].request = i]
<1> USE DEF tokenizer, chain, executor, books, forcing
<1>1. CASE Reconcile
    BY <1>1 DEF Reconcile, find_unique_mint_request, Mints
<1>2. CASE \/ Land \/ Read \/ Collect \/ SendTransfer \/ SendFails \/ Receipt \/ ReceiptLost
           \/ Redeem \/ ScanStart \/ ScanBlock \/ ScanFails \/ Inject \/ SetRequestStatus
           \/ SetRequestPolls \/ GiveBack \/ UNCHANGED vars
    BY <1>2 DEF Land, Read, Collect, SendTransfer, SendFails, Receipt, ReceiptLost, Redeem,
       ScanStart, ScanBlock, ScanFails, Inject, SetRequestStatus, SetRequestPolls, GiveBack, vars
<1> QED BY <1>1, <1>2 DEF Next

(* What a mint call leaves behind it, by what its caller is told. *)
LEMMA MintCallStep ==
    ASSUME Types, MintCall
    PROVE  \E post \in Posts, what \in {"applied", "not_applied", "unknown"}, i \in Nat :
              /\ Told(post, what, i)
              /\ what = "not_applied" => UNCHANGED <<requests, stray>>
              /\ what = "applied" =>
                    /\ i \in DOMAIN requests' /\ requests'[i].key = post.key
                    /\ Body(requests'[i]) = Body(post)
              /\ stray' \in {stray, stray \cup {post}}
              /\ UNCHANGED <<shares, chain, watcher, executor, books, forcing>>
<1> USE DEF tokenizer
<1>1. PICK post \in Posts :
         MintUnsent(post) \/ MintAnswered(post) \/ MintRefused(post) \/ MintLost(post)
    BY DEF MintCall
<1>2. CASE MintUnsent(post) \/ MintRefused(post)
    <2>1. PICK error : Told(post, outcome(error), 0)
        BY <1>2 DEF MintUnsent, MintRefused
    <2>2. UNCHANGED <<requests, stray, shares, chain, watcher, executor, books, forcing>>
        BY <1>2 DEF MintUnsent, MintRefused
    <2> QED BY <2>1, <2>2, OutcomeType
<1>3. CASE MintLost(post)
    <2>1. Told(post, "unknown", 0) /\ stray' \in {stray, stray \cup {post}}
          /\ UNCHANGED <<shares, chain, watcher, executor, books, forcing>>
        BY <1>3, OutcomeType DEF MintLost
    <2> QED BY <2>1
<1>4. CASE MintAnswered(post)
    <2>1. UNCHANGED <<stray, shares, chain, watcher, executor, books, forcing>>
        BY <1>4 DEF MintAnswered
    <2> QED BY <1>4, <2>1, Answered
<1> QED BY <1>1, <1>2, <1>3, <1>4

(* The attempts stay attempts, and what they were told is only recovered. *)
LEMMA AttemptsType ==
    ASSUME Types, [Next]_vars
    PROVE  /\ attempts' \in Seq(Attempts) /\ Len(attempts) <= Len(attempts')
           /\ Len(attempts) \in Nat /\ Len(attempts') \in Nat
           /\ DOMAIN attempts = 1..Len(attempts) /\ DOMAIN attempts' = 1..Len(attempts')
<1>1. attempts \in Seq(Attempts)
    BY DEF Types
<1>2. CASE UNCHANGED attempts
    BY <1>1, <1>2
<1>3. CASE MintCall
    <2>1. attempts' \in Seq(Attempts) /\ Len(attempts') = Len(attempts) + 1
        BY <1>3, MintCallStep, ToldType
    <2> QED BY <1>1, <2>1
<1>4. ASSUME NEW a \in DOMAIN attempts, NEW i \in DOMAIN requests,
             attempts' = [attempts EXCEPT ![a].told = "recovered", ![a].request = i]
      PROVE  attempts' \in Seq(Attempts) /\ Len(attempts') = Len(attempts)
    <2>1. i \in Nat
        BY RequestTypes
    <2>2. attempts[a] \in Attempts
        BY <1>1
    <2> DEFINE x == [attempts[a] EXCEPT !.told = "recovered", !.request = i]
    <2>3. x \in Attempts
        BY <2>1, <2>2 DEF Attempts
    <2>4. attempts' = [attempts EXCEPT ![a] = x]
        BY <1>1, <1>4
    <2> HIDE DEF x
    <2> QED BY <1>1, <2>3, <2>4
<1>5. CASE \E a \in DOMAIN attempts, i \in DOMAIN requests :
              attempts' = [attempts EXCEPT ![a].told = "recovered", ![a].request = i]
    <2>1. attempts' \in Seq(Attempts) /\ Len(attempts') = Len(attempts)
        BY <1>4, <1>5
    <2> QED BY <1>1, <2>1
<1> QED BY <1>2, <1>3, <1>5, AttemptsStep

(* Some of the numbers up to n have a least one. *)
LEMMA MinIn == ASSUME NEW n \in Nat, NEW S \in SUBSET (1..n), S # {} PROVE Min(S) \in S
<1> DEFINE F == {1..k : k \in S}
<1>1. IsFiniteSet(1..n)
    BY FS_Interval
<1>2. F \in SUBSET SUBSET (1..n) /\ F # {}
    <2>1. ASSUME NEW k \in S PROVE 1..k \subseteq 1..n
        OBVIOUS
    <2>2. F # {}
        OBVIOUS
    <2> QED BY <2>1, <2>2, Zenon
<1>3. PICK T \in F : \A U \in F : U \subseteq T => U = T
    <2> DEFINE N == 1..n
    <2>1. IsFiniteSet(N) /\ F \in SUBSET SUBSET N /\ F # {}
        BY <1>1, <1>2
    <2> HIDE DEF F, N
    <2> QED BY <2>1, MinimalSubset
<1>4. PICK x \in S : T = 1..x
    OBVIOUS
<1>5. ASSUME NEW y \in S, ~(x =< y) PROVE FALSE
    <2>1. y < x /\ x \in Nat /\ y \in Nat /\ x >= 1
        BY <1>5
    <2>2. 1..y \subseteq 1..x /\ x \in 1..x /\ x \notin 1..y
        BY <2>1
    <2> QED BY <1>3, <1>4, <2>2
<1> QED BY <1>5 DEF Min

(* The shares a list gives back. *)
LEMMA Returned ==
    ASSUME Types, NEW R \in SUBSET DOMAIN requests
    PROVE  /\ IsFiniteSet(R) /\ [i \in R |-> requests[i].quantity] \in [R -> Nat]
           /\ SumFunction([i \in R |-> requests[i].quantity]) \in Nat
<1>1. DOMAIN requests = 1..Len(requests) /\ Len(requests) \in Nat
    BY DEF Types
<1>2. IsFiniteSet(R)
    <2>1. IsFiniteSet(DOMAIN requests)
        BY <1>1, FS_Interval
    <2> QED BY <2>1, FS_Subset
<1>3. \A i \in R : requests[i].quantity \in Nat
    BY RequestTypes, Numbers
<1> DEFINE f == [i \in R |-> requests[i].quantity]
<1>4. f \in [R -> Nat]
    BY <1>3
<1> HIDE DEF f
<1>5. SumFunction(f) \in Nat
    BY <1>2, <1>4, TotalType
<1> QED BY <1>2, <1>4, <1>5 DEF f

(* The mint the executor is at is one it has collected. *)
LEMMA JobIn ==
    ASSUME Types, Executor, jobs # {}
    PROVE  /\ Job \in jobs /\ Job \in DOMAIN requests /\ Job \in Nat /\ Job # 0
           /\ requests[Job].quantity \in Nat
<1>1. jobs \in SUBSET (1..Len(requests)) /\ Len(requests) \in Nat
    BY DEF Executor, Types
<1>2. Job \in jobs
    BY <1>1, MinIn DEF Job
<1> QED BY <1>2, RequestTypes, Numbers DEF Executor

(* The transfers to the redemption wallet only grow. *)
LEMMA SendsStep ==
    ASSUME Types, [Next]_vars
    PROVE  /\ sends' \in Seq(Quantities) /\ Len(sends') >= Len(sends)
           /\ Len(sends) \in Nat /\ DOMAIN sends = 1..Len(sends)
           /\ Len(sends') \in Nat /\ DOMAIN sends' = 1..Len(sends')
           /\ \A b \in DOMAIN sends : b \in DOMAIN sends' /\ sends'[b] = sends[b]
           /\ UNCHANGED sends \/ Redeem
<1> USE DEF tokenizer, chain, executor, books, forcing
<1>1. sends \in Seq(Quantities)
    BY DEF Types
<1>2. CASE Redeem
    <2>1. PICK q \in Quantities : sends' = Append(sends, q)
        BY <1>2 DEF Redeem
    <2>2. /\ sends' \in Seq(Quantities) /\ Len(sends') = Len(sends) + 1
          /\ \A b \in DOMAIN sends : b \in DOMAIN sends' /\ sends'[b] = sends[b]
        BY <1>1, <2>1, Appended
    <2> QED BY <1>1, <1>2, <2>2
<1>3. CASE UNCHANGED sends
    BY <1>1, <1>3
<1>4. CASE MintCall
    BY <1>3, <1>4, MintCallStep
<1>5. CASE \/ Land \/ Read \/ Reconcile \/ Collect \/ SendTransfer \/ SendFails \/ Receipt
           \/ ReceiptLost \/ ScanStart \/ ScanBlock \/ ScanFails \/ Inject
           \/ SetRequestStatus \/ SetRequestPolls \/ GiveBack \/ UNCHANGED vars
    <2>1. UNCHANGED sends
        BY <1>5 DEF Land, Read, Reconcile, Collect, SendTransfer, SendFails, Receipt,
           ReceiptLost, ScanStart, ScanBlock, ScanFails, Inject, SetRequestStatus, SetRequestPolls, GiveBack,
           vars
    <2> QED BY <1>3, <2>1
<1> QED BY <1>2, <1>4, <1>5 DEF Next

(* Every step keeps the types. *)
LEMMA TypesStep ==
    ASSUME Types, AllSound, Executor, Watching, Callers, [Next]_vars
    PROVE  Types'
<1> USE DEF tokenizer, chain, executor, books, forcing
<1>1. requests' \in Seq(Requests)
    BY RequestsStep, Kept
<1>2. attempts' \in Seq(Attempts) /\ sends' \in Seq(Quantities)
    BY AttemptsType, SendsStep
<1>3. /\ stray \in SUBSET LatePosts /\ shares \in Int /\ tokens \in Nat /\ owed \in Nat
      /\ lost \in Nat /\ skewed \in BOOLEAN /\ watcher \in [last : Nat, next : Nat, to : Nat]
      /\ transfer \in [request : Nat, reverted : BOOLEAN]
      /\ NoTransfer \in [request : Nat, reverted : BOOLEAN]
    BY DEF Types, NoTransfer
<1>4. SUFFICES /\ stray' \in SUBSET LatePosts /\ shares' \in Int /\ tokens' \in Nat
               /\ owed' \in Nat /\ lost' \in Nat /\ skewed' \in BOOLEAN
               /\ watcher' \in [last : Nat, next : Nat, to : Nat]
               /\ transfer' \in [request : Nat, reverted : BOOLEAN]
    BY <1>1, <1>2 DEF Types
<1>5. CASE MintCall
    <2>1. PICK post \in Posts : stray' \in {stray, stray \cup {post}}
        BY <1>5, MintCallStep
    <2>2. stray' \in SUBSET LatePosts
        BY <1>3, <2>1, PostTypes
    <2>3. UNCHANGED <<shares, tokens, watcher, transfer, lost, skewed, owed>>
        BY <1>5, MintCallStep
    <2> QED BY <1>3, <2>2, <2>3
<1>6. CASE Land
    BY <1>3, <1>6 DEF Land
<1>7. CASE Read \/ Reconcile
    <2>1. PICK o \in {"completed", "rejected"} : List(o)
        BY <1>7 DEF Read, Reconcile
    <2>2. PICK R \in SUBSET DOMAIN requests :
             shares' = shares + SumFunction([i \in R |-> requests[i].quantity])
        BY <2>1 DEF List
    <2>4. skewed' \in BOOLEAN
        BY <2>1 DEF List
    <2>3. shares' \in Int
        BY <1>3, <2>2, Returned
    <2> QED BY <1>3, <1>7, <2>3, <2>4 DEF Read, Reconcile
<1>8. CASE SendTransfer
    <2>1. Job \in Nat /\ requests[Job].quantity \in Nat
        BY <1>8, JobIn DEF SendTransfer
    <2>2. tokens' \in Nat
        BY <1>3, <1>8, <2>1 DEF SendTransfer
    <2>3. transfer' \in [request : Nat, reverted : BOOLEAN]
        BY <1>8, <2>1 DEF SendTransfer
    <2> QED BY <1>3, <1>8, <2>2, <2>3 DEF SendTransfer
<1>15. CASE SendFails
    <2>1. requests[Job].quantity \in Nat
        BY <1>15, JobIn DEF SendFails
    <2>2. tokens' \in Nat /\ lost' \in Nat
        BY <1>3, <1>15, <2>1 DEF SendFails
    <2> QED BY <1>3, <1>15, <2>2 DEF SendFails
<1>9. CASE Receipt \/ ReceiptLost
    <2>1. requests[transfer.request].quantity \in Nat
        BY <1>9, RequestTypes, Numbers DEF Receipt, ReceiptLost, Executor
    <2>2. lost' \in Nat
        BY <1>3, <1>9, <2>1 DEF Receipt, ReceiptLost
    <2>3. shares' \in Int
        BY <1>3, <1>9, <2>1 DEF Receipt, ReceiptLost, sharesAfterMint
    <2>4. skewed' \in BOOLEAN
        BY <1>3, <1>9 DEF Receipt, ReceiptLost
    <2> QED BY <1>3, <1>9, <2>2, <2>3, <2>4 DEF Receipt, ReceiptLost
<1>10. CASE Redeem
    <2>1. PICK q \in Quantities : q <= tokens /\ tokens' = tokens - q
        BY <1>10 DEF Redeem
    <2>2. q \in Nat
        BY Numbers
    <2>3. tokens' \in Nat
        BY <1>3, <2>1, <2>2
    <2> QED BY <1>3, <1>10, <2>3 DEF Redeem
<1>11. CASE ScanStart \/ ScanBlock \/ ScanFails
    <2>1. Len(sends) \in Nat /\ watcher.last \in Nat /\ watcher.next \in Nat
          /\ watcher.to \in Nat
        BY <1>3, SendsStep
    <2>2. watcher' \in [last : Nat, next : Nat, to : Nat]
        <3>1. CASE ScanStart
            <4>1. watcher' = [watcher EXCEPT !.next = watcher.last + 1, !.to = Len(sends)]
                BY <3>1 DEF ScanStart
            <4>2. watcher.last + 1 \in Nat
                BY <2>1
            <4> QED BY <1>3, <2>1, <4>1, <4>2
        <3>2. CASE ScanBlock
            BY <1>3, <2>1, <3>2 DEF ScanBlock
        <3>3. CASE ScanFails
            BY <1>3, <2>1, <3>3 DEF ScanFails
        <3> QED BY <1>11, <3>1, <3>2, <3>3
    <2> QED BY <1>3, <1>11, <2>2 DEF ScanStart, ScanBlock, ScanFails
<1>12. CASE SetRequestStatus
    <2>1. owed' \in Nat
        <3>1. \A i \in DOMAIN requests : requests[i].quantity \in Nat
            BY RequestTypes, Numbers
        <3> QED BY <1>3, <1>12, <3>1, StatusSet
    <2>2. skewed' \in BOOLEAN
        BY <1>12 DEF SetRequestStatus
    <2> QED BY <1>3, <1>12, <2>1, <2>2 DEF SetRequestStatus
<1>13. CASE GiveBack
    <2>1. PICK q \in Quantities :
            /\ q <= owed /\ owed' = owed - q
            /\ \/ shares' = shares + q /\ UNCHANGED skewed
               \/ UNCHANGED shares /\ skewed' = TRUE
        BY <1>13 DEF GiveBack
    <2>2. q \in Nat
        BY Numbers
    <2>3. owed' \in Nat /\ shares' \in Int
        BY <1>3, <2>1, <2>2
    <2>4. skewed' \in BOOLEAN
        BY <1>3, <2>1
    <2> QED BY <1>3, <1>13, <2>3, <2>4 DEF GiveBack
<1>14. CASE Collect \/ Inject \/ SetRequestPolls \/ UNCHANGED vars
    BY <1>3, <1>14 DEF Collect, Inject, SetRequestPolls, vars
<1> QED BY <1>5, <1>6, <1>7, <1>8, <1>9, <1>10, <1>11, <1>12, <1>13, <1>14, <1>15
   DEF Next

(* Every request stays what it is. *)
LEMMA SoundStep ==
    ASSUME Types, AllSound, Executor, Watching, Callers, [Next]_vars
    PROVE  AllSound'
<1>1. /\ Len(attempts) <= Len(attempts') /\ Len(attempts) \in Nat /\ Len(attempts') \in Nat
      /\ \A b \in DOMAIN sends : b \in DOMAIN sends' /\ sends'[b] = sends[b]
    BY AttemptsType, SendsStep
<1>2. ASSUME NEW i \in DOMAIN requests, Same(requests[i], requests'[i]),
             requests'[i].polls <= Until,
             requests'[i].executing => requests'[i].kind = "mint"
      PROVE  Sound(requests[i])'
    <2>1. Sound(requests[i]) /\ requests[i].by \in Nat
        BY RequestTypes DEF AllSound
    <2>2. requests'[i].by <= Len(attempts')
        BY <1>1, <1>2, <2>1 DEF Sound, Same
    <2>3. IF requests'[i].kind = "mint" THEN requests'[i].tx = NoTx
          ELSE /\ requests'[i].key = NoKey
               /\ requests'[i].tx # NoTx =>
                     /\ requests'[i].tx \in DOMAIN sends'
                     /\ requests'[i].quantity = sends'[requests'[i].tx]
        <3>1. /\ requests'[i].kind = requests[i].kind /\ requests'[i].key = requests[i].key
              /\ requests'[i].tx = requests[i].tx
              /\ requests'[i].quantity = requests[i].quantity
            BY <1>2 DEF Same
        <3>2. CASE requests[i].kind = "mint"
            BY <2>1, <3>1, <3>2 DEF Sound
        <3>3. CASE requests[i].kind # "mint"
            BY <1>1, <2>1, <3>1, <3>3 DEF Sound
        <3> QED BY <3>2, <3>3
    <2> QED BY <1>2, <2>2, <2>3 DEF Sound
<1>3. CASE Evolves
    <2>1. DOMAIN requests' = DOMAIN requests
        BY <1>3 DEF Evolves, Types
    <2> QED BY <1>2, <1>3, <2>1 DEF Evolves, AllSound
<1>4. ASSUME NEW r \in Requests, Fresh(r) PROVE AllSound'
    <2>1. requests' = Append(requests, r) /\ requests \in Seq(Requests)
        BY <1>4 DEF Fresh, Types
    <2>2. /\ DOMAIN requests' = DOMAIN requests \cup {Len(requests) + 1}
          /\ requests'[Len(requests) + 1] = r
          /\ \A i \in DOMAIN requests : requests'[i] = requests[i]
        BY <2>1, Appended
    <2>3. \A i \in DOMAIN requests : Sound(requests[i])'
        BY <1>2, <2>2 DEF AllSound, Sound, Same
    <2>4. r.kind = "redeem" /\ r.tx # NoTx => r.tx \in DOMAIN sends
        <3>1. r.kind = "redeem" /\ r.tx # NoTx => watcher.next # 0 /\ r.tx = watcher.next
            BY <1>4 DEF Fresh
        <3>2. watcher.next # 0 => watcher.next \in DOMAIN sends
            <4>1. /\ watcher.next \in Nat /\ watcher.to \in Nat /\ Len(sends) \in Nat
                  /\ DOMAIN sends = 1..Len(sends)
                BY DEF Types
            <4> QED BY <4>1 DEF Watching
        <3> QED BY <3>1, <3>2
    <2>5. r.polls <= Until /\ ~r.executing
        BY <1>4, Numbers DEF Fresh
    <2>6. r.by <= Len(attempts')
        BY <1>1, <1>4 DEF Fresh
    <2>7. IF r.kind = "mint" THEN r.tx = NoTx
          ELSE /\ r.key = NoKey
               /\ r.tx # NoTx => r.tx \in DOMAIN sends' /\ r.quantity = sends'[r.tx]
        <3>1. r.kind \in {"mint", "redeem"}
            BY DEF Requests
        <3> QED BY <1>4, <2>4, <3>1 DEF Fresh
    <2>8. Sound(requests[Len(requests)])'
        <3>1. Len(requests') = Len(requests) + 1
            BY <2>1, Appended
        <3> QED BY <2>2, <2>5, <2>6, <2>7, <3>1 DEF Sound
    <2>9. Len(requests') = Len(requests) + 1
        BY <2>1, Appended
    <2> QED BY <2>2, <2>3, <2>8, <2>9 DEF AllSound
<1> QED BY <1>3, <1>4, RequestsStep

(* A recorded block stays recorded. *)
LEMMA RecordedStays ==
    ASSUME Types, Evolves \/ \E r \in Requests : Fresh(r), NEW b, Recorded(b)
    PROVE  Recorded(b)'
BY Kept DEF Recorded, Same

(* What the callers were told stays true of the requests. *)
LEMMA CallersStep ==
    ASSUME Types, AllSound, Executor, Watching, Callers, [Next]_vars
    PROVE  Callers'
<1>1. /\ Len(attempts) <= Len(attempts') /\ Len(attempts) \in Nat /\ Len(attempts') \in Nat
      /\ DOMAIN attempts = 1..Len(attempts) /\ DOMAIN attempts' = 1..Len(attempts')
    BY AttemptsType
<1>2. \A i \in DOMAIN requests : i \in DOMAIN requests' /\ Same(requests[i], requests'[i])
    BY RequestsStep, Kept
<1>3. \A post \in LatePosts : post.by \in Nat
    BY DEF LatePosts
\* An attempt of before keeps what it was told of its requests.
<1>4. ASSUME NEW a \in DOMAIN attempts, attempts'[a] = attempts[a],
             attempts[a].told = "not_applied" =>
                /\ \A i \in DOMAIN requests' : requests'[i].by # a
                /\ \A post \in stray' : post.by # a
      PROVE  /\ attempts'[a].told = "not_applied" =>
                    /\ \A i \in DOMAIN requests' : requests'[i].by # a
                    /\ \A post \in stray' : post.by # a
             /\ attempts'[a].told \in {"applied", "recovered"} =>
                    /\ attempts'[a].request \in DOMAIN requests'
                    /\ requests'[attempts'[a].request].key = attempts'[a].key
             /\ attempts'[a].told = "applied" =>
                    Body(requests'[attempts'[a].request]) = attempts'[a].body
    BY <1>2, <1>4 DEF Callers, Same, Body
\* A request is made by a call of now, or by a late POST.
<1>5. \A i \in DOMAIN requests' :
        \/ i \in DOMAIN requests /\ requests'[i].by = requests[i].by
        \/ requests'[i].by = 0 \/ requests'[i].by = Len(attempts) + 1
        \/ \E post \in stray : requests'[i].by = post.by
    <2>1. CASE Evolves
        BY <1>2, <2>1 DEF Evolves, Types, Same
    <2>2. ASSUME NEW post \in LatePosts, requests' = register_mint(post).requests
          PROVE  \A i \in DOMAIN requests' :
                    (i \in DOMAIN requests /\ requests'[i].by = requests[i].by)
                    \/ requests'[i].by = post.by
        <3> DEFINE r == Request("mint", post.key, post.symbol, post.quantity, post.network,
                                Until, post.by)
        <3>1. r.by = post.by
            BY DEF Request
        <3> HIDE DEF r
        <3>2. CASE requests' = requests
            BY <3>2
        <3>3. CASE r \in Requests /\ requests' = Append(requests, r)
            <4>1. /\ DOMAIN requests' = DOMAIN requests \cup {Len(requests) + 1}
                  /\ requests'[Len(requests) + 1] = r
                  /\ \A i \in DOMAIN requests : requests'[i] = requests[i]
                BY <3>3, Appended DEF Types
            <4> QED BY <3>1, <4>1
        <3> QED BY <2>2, <3>2, <3>3, Registered DEF r
    <2>3. CASE MintCall
        <3>1. PICK post \in Posts :
                 MintUnsent(post) \/ MintAnswered(post) \/ MintRefused(post) \/ MintLost(post)
            BY <2>3 DEF MintCall
        <3>2. UNCHANGED requests \/ requests' = register_mint(post).requests
            BY <3>1 DEF MintUnsent, MintAnswered, MintRefused, MintLost, tokenizer
        <3>3. post \in LatePosts /\ post.by = Len(attempts) + 1
            BY PostTypes
        <3> QED BY <2>2, <3>2, <3>3
    <2>4. CASE Land
        <3>1. PICK post \in stray : requests' = register_mint(post).requests
            BY <2>4 DEF Land
        <3>2. post \in LatePosts
            BY DEF Types
        <3> QED BY <2>2, <3>1, <3>2
    <2>5. ASSUME NEW r \in Requests, Fresh(r), r.by = 0
          PROVE  \A i \in DOMAIN requests' :
                    (i \in DOMAIN requests /\ requests'[i].by = requests[i].by)
                    \/ requests'[i].by = 0
        <3>1. /\ DOMAIN requests' = DOMAIN requests \cup {Len(requests) + 1}
              /\ requests'[Len(requests) + 1] = r
              /\ \A i \in DOMAIN requests : requests'[i] = requests[i]
            BY <2>5, Appended DEF Types, Fresh
        <3> QED BY <2>5, <3>1
    <2>6. CASE Inject
        <3>1. PICK kind \in {"mint", "redeem"}, s \in Known, q \in Quantities :
                requests' = Append(requests, Request(kind, NoKey, s, q, MockChain, Never, 0))
            BY <2>6 DEF Inject
        <3> DEFINE r == Request(kind, NoKey, s, q, MockChain, Never, 0)
        <3>2. r \in Requests /\ r.by = 0
            BY TokenizationAssumption DEF Request, Requests, Statuses, AnySymbol, NoTx
        <3> HIDE DEF r
        <3>3. /\ DOMAIN requests' = DOMAIN requests \cup {Len(requests) + 1}
              /\ requests'[Len(requests) + 1] = r
              /\ \A i \in DOMAIN requests : requests'[i] = requests[i]
            BY <3>1, <3>2, Appended DEF Types, r
        <3> QED BY <3>2, <3>3
    <2>7. CASE ScanBlock \/ ScanFails
        <3>1. UNCHANGED requests \/ \E r \in Requests : Fresh(r)
            <4>1. requests' = requests \/ requests' = recordRedemption(watcher.next)
                BY <2>7 DEF ScanBlock, ScanFails
            <4>2. watcher.next # 0 /\ UNCHANGED <<sends, attempts, stray>>
                BY <2>7 DEF ScanBlock, ScanFails, chain
            <4> QED BY <4>1, <4>2, RedemptionFresh
        <3>2. CASE UNCHANGED requests
            BY <3>2
        <3>3. ASSUME NEW r \in Requests, Fresh(r)
              PROVE  r.by = 0 \/ UNCHANGED watcher
            BY <3>3 DEF Fresh
        <3>4. watcher' # watcher
            <4>1. watcher.next # 0 /\ watcher.next \in Nat /\ watcher.next + 1 # watcher.next
                BY <2>7 DEF ScanBlock, ScanFails, Types
            <4>2. watcher \in [last : Nat, next : Nat, to : Nat]
                BY DEF Types
            <4>3. \/ watcher' = [last |-> watcher.to, next |-> 0, to |-> 0]
                  \/ watcher' = [watcher EXCEPT !.next = @ + 1]
                  \/ watcher' = [watcher EXCEPT !.next = 0, !.to = 0]
                BY <2>7 DEF ScanBlock, ScanFails
            <4>4. watcher'.next = 0 \/ watcher'.next = watcher.next + 1
                <5>1. CASE watcher' = [last |-> watcher.to, next |-> 0, to |-> 0]
                    BY <5>1
                <5>2. CASE watcher' = [watcher EXCEPT !.next = @ + 1]
                    BY <4>2, <5>2
                <5>3. CASE watcher' = [watcher EXCEPT !.next = 0, !.to = 0]
                    BY <4>2, <5>3
                <5> QED BY <4>3, <5>1, <5>2, <5>3
            <4>5. watcher'.next # watcher.next
                BY <4>1, <4>4
            <4> QED BY <4>5
        <3> QED BY <2>5, <3>1, <3>2, <3>3, <3>4
    <2>8. CASE \/ Read \/ Reconcile \/ Collect \/ Receipt \/ SetRequestStatus \/ SetRequestPolls
        BY <2>1, <2>8, Listed, Collected, Received, StatusSet, PollsSet DEF Read, Reconcile
    <2>9. CASE SendTransfer \/ SendFails \/ ReceiptLost \/ Redeem \/ ScanStart \/ GiveBack
               \/ UNCHANGED vars
        BY <2>9 DEF SendTransfer, SendFails, ReceiptLost, Redeem, ScanStart, GiveBack, vars,
           tokenizer
    <2> QED BY <2>3, <2>4, <2>6, <2>7, <2>8, <2>9 DEF Next
<1>6. \/ stray' \subseteq stray
      \/ MintCall /\ \A post \in stray' : post \in stray \/ post.by = Len(attempts) + 1
    <2>1. CASE MintCall
        <3>1. PICK post \in Posts : stray' \in {stray, stray \cup {post}}
            BY <2>1, MintCallStep
        <3> QED BY <2>1, <3>1, PostTypes
    <2>2. CASE Land
        <3>1. PICK post \in stray : stray' = stray \ {post}
            BY <2>2 DEF Land
        <3> QED BY <3>1
    <2>3. CASE ~MintCall /\ ~Land
        <3>1. stray' = stray
            <4>1. CASE \/ Read \/ Reconcile \/ Collect \/ Receipt \/ ScanBlock \/ ScanFails
                       \/ Inject \/ SetRequestStatus \/ SetRequestPolls
                BY <4>1 DEF Read, Reconcile, Collect, Receipt, ScanBlock, ScanFails, Inject,
                   SetRequestStatus, SetRequestPolls
            <4>2. CASE \/ SendTransfer \/ SendFails \/ ReceiptLost \/ Redeem \/ ScanStart
                       \/ GiveBack \/ UNCHANGED vars
                BY <4>2 DEF SendTransfer, SendFails, ReceiptLost, Redeem, ScanStart, GiveBack,
                   vars, tokenizer
            <4> QED BY <2>3, <4>1, <4>2 DEF Next
        <3> QED BY <3>1
    <2> QED BY <2>1, <2>2, <2>3
\* So nothing new is made by an attempt that was told not_applied.
<1>7. ASSUME NEW a \in DOMAIN attempts, attempts[a].told = "not_applied"
      PROVE  /\ \A i \in DOMAIN requests' : requests'[i].by # a
             /\ \A post \in stray' : post.by # a
    <2>1. a # 0 /\ a # Len(attempts) + 1
        BY <1>1
    <2> QED BY <1>5, <1>6, <1>7, <2>1 DEF Callers
<1>8. \A post \in stray' : post.by <= Len(attempts')
    <2>1. \A post \in stray : post.by <= Len(attempts) /\ post.by \in Nat
        BY <1>3 DEF Callers, Types
    <2>2. MintCall => Len(attempts') = Len(attempts) + 1
        BY MintCallStep, ToldType
    <2> SUFFICES ASSUME NEW post \in stray' PROVE post.by <= Len(attempts')
        OBVIOUS
    <2>3. CASE post \in stray
        BY <1>1, <2>1, <2>3
    <2>4. CASE MintCall /\ post.by = Len(attempts) + 1
        BY <1>1, <2>2, <2>4
    <2> QED BY <1>6, <2>3, <2>4
<1>9. CASE UNCHANGED attempts
    <2>1. \A a \in DOMAIN attempts : attempts'[a] = attempts[a]
        BY <1>9
    <2>2. DOMAIN attempts' = DOMAIN attempts
        BY <1>9
    <2> QED BY <1>4, <1>7, <1>8, <2>1, <2>2 DEF Callers
<1>10. CASE MintCall
    <2>1. PICK post \in Posts, what \in {"applied", "not_applied", "unknown"}, n \in Nat :
              /\ Told(post, what, n)
              /\ what = "not_applied" => UNCHANGED <<requests, stray>>
              /\ what = "applied" =>
                    /\ n \in DOMAIN requests' /\ requests'[n].key = post.key
                    /\ Body(requests'[n]) = Body(post)
        BY <1>10, MintCallStep
    <2> DEFINE c == Len(attempts) + 1
    <2>2. /\ DOMAIN attempts' = DOMAIN attempts \cup {c}
          /\ \A a \in DOMAIN attempts : attempts'[a] = attempts[a]
          /\ attempts'[c].told = what /\ attempts'[c].request = n /\ attempts'[c].key = post.key
          /\ what = "applied" => attempts'[c].body = Body(post)
        BY <2>1, ToldType
    <2>3. what = "not_applied" =>
             /\ \A i \in DOMAIN requests' : requests'[i].by # c
             /\ \A p \in stray' : p.by # c
        <3>1. \A i \in DOMAIN requests : requests[i].by <= Len(attempts) /\ requests[i].by \in Nat
            BY RequestTypes DEF AllSound, Sound
        <3>2. \A p \in stray : p.by <= Len(attempts) /\ p.by \in Nat
            BY <1>3 DEF Callers, Types
        <3> QED BY <1>1, <2>1, <3>1, <3>2
    <2> HIDE DEF c
    <2> QED BY <1>4, <1>7, <1>8, <2>1, <2>2, <2>3 DEF Callers
<1>11. ASSUME NEW e \in DOMAIN attempts, NEW n \in DOMAIN requests,
              attempts[e].told = "unknown", n \in Mints(attempts[e].key),
              attempts' = [attempts EXCEPT ![e].told = "recovered", ![e].request = n]
       PROVE  Callers'
    <2>1. attempts \in Seq(Attempts) /\ attempts[e] \in Attempts
        BY DEF Types
    <2> DEFINE x == [attempts[e] EXCEPT !.told = "recovered", !.request = n]
    <2>2. attempts' = [attempts EXCEPT ![e] = x]
        BY <1>11, <2>1
    <2>3. x.told = "recovered" /\ x.request = n /\ x.key = attempts[e].key
        BY <2>1 DEF Attempts
    <2> HIDE DEF x
    <2>4. /\ DOMAIN attempts' = DOMAIN attempts /\ attempts'[e] = x
          /\ \A a \in DOMAIN attempts \ {e} : attempts'[a] = attempts[a]
        BY <2>1, <2>2
    <2>5. n \in DOMAIN requests' /\ requests'[n].key = attempts[e].key
        BY <1>2, <1>11 DEF Mints, Same
    <2> QED BY <1>4, <1>7, <1>8, <2>3, <2>4, <2>5 DEF Callers
<1> QED BY <1>9, <1>10, <1>11, AttemptsStep

(* A request stays as it is but for the lists, the executor and the tests. *)
LEMMA Still ==
    ASSUME Types, UNCHANGED requests \/ \E r \in Requests : Fresh(r)
    PROVE  \A i \in DOMAIN requests : i \in DOMAIN requests' /\ requests'[i] = requests[i]
<1>1. CASE UNCHANGED requests
    BY <1>1
<1>2. ASSUME NEW r \in Requests, Fresh(r)
      PROVE  \A i \in DOMAIN requests : i \in DOMAIN requests' /\ requests'[i] = requests[i]
    <2>1. requests' = Append(requests, r) /\ requests \in Seq(Requests)
        BY <1>2 DEF Fresh, Types
    <2>2. /\ DOMAIN requests' = DOMAIN requests \cup {Len(requests) + 1}
          /\ \A i \in DOMAIN requests : requests'[i] = requests[i]
        BY <2>1, Appended
    <2> QED BY <2>2
<1> QED BY <1>1, <1>2

(* What the executor has collected stays to be executed. *)
LEMMA ExecutorStep ==
    ASSUME Types, AllSound, Executor, Watching, Callers, [Next]_vars
    PROVE  Executor'
<1> USE DEF tokenizer, chain, executor, books, forcing
<1>1. \A i \in jobs : i \in DOMAIN requests /\ requests[i].executing
    BY DEF Executor
<1>2. Evolves => DOMAIN requests' = DOMAIN requests
    BY DEF Evolves, Types
<1>3. CASE Read \/ Reconcile
    <2>1. PICK o \in {"completed", "rejected"} : List(o)
        BY <1>3 DEF Read, Reconcile
    <2>2. \A i \in DOMAIN requests :
             i \in DOMAIN requests' /\ (requests[i].executing => requests'[i].executing)
        <3>1. Evolves /\ \A i \in DOMAIN requests : requests'[i] = polled(requests[i], o)
            BY <2>1, Listed
        <3>2. \A i \in DOMAIN requests : requests[i] \in Requests /\ Sound(requests[i])
            BY RequestTypes DEF AllSound
        <3>3. \A i \in DOMAIN requests :
                 requests[i].executing => polled(requests[i], o).executing
            BY <3>2, PolledKeeps
        <3> QED BY <1>2, <3>1, <3>3
    <2>3. UNCHANGED <<jobs, transfer>>
        BY <1>3 DEF Read, Reconcile
    <2> QED BY <1>1, <2>2, <2>3 DEF Executor
<1>4. CASE Collect
    <2>1. jobs' = {i \in DOMAIN requests : requests[i].executing /\ requests[i].symbol \in Known}
        BY <1>4 DEF Collect
    <2>2. transfer' = NoTransfer
        BY <1>4 DEF Collect
    <2>3. \A i \in jobs' : i \in DOMAIN requests' /\ requests'[i] = requests[i]
        BY <1>2, <1>4, <2>1, Collected
    <2> QED BY <2>1, <2>2, <2>3 DEF Executor
<1>5. CASE Receipt
    <2>1. jobs' = jobs \ {transfer.request} /\ transfer' = NoTransfer
        BY <1>5 DEF Receipt
    <2>2. \A i \in jobs' : i \in DOMAIN requests' /\ requests'[i] = requests[i]
        BY <1>1, <1>2, <1>5, <2>1, Received
    <2> QED BY <1>1, <2>1, <2>2 DEF Executor
<1>6. CASE SetRequestStatus
    <2>1. PICK j \in DOMAIN requests :
             /\ requests'[j].executing = requests[j].executing
             /\ \A i \in DOMAIN requests \ {j} : requests'[i] = requests[i]
        BY <1>6, StatusSet
    <2>2. Evolves
        BY <1>6, StatusSet
    <2>3. \A i \in jobs : i \in DOMAIN requests' /\ requests'[i].executing
        BY <1>1, <1>2, <2>1, <2>2
    <2>4. UNCHANGED <<jobs, transfer>>
        BY <1>6 DEF SetRequestStatus
    <2> QED BY <1>1, <2>3, <2>4 DEF Executor
<1>8. CASE SetRequestPolls
    <2>1. \A i \in jobs : i \in DOMAIN requests' /\ requests'[i].executing
        BY <1>1, <1>2, <1>8, PollsSet
    <2>2. UNCHANGED <<jobs, transfer>>
        BY <1>8 DEF SetRequestPolls
    <2> QED BY <1>1, <2>1, <2>2 DEF Executor
<1>7. CASE ~(Read \/ Reconcile \/ Collect \/ Receipt \/ SetRequestStatus \/ SetRequestPolls)
    <2>1. \A i \in DOMAIN requests : i \in DOMAIN requests' /\ requests'[i] = requests[i]
        BY <1>7, RequestsMade, Still
    <2>2. CASE SendTransfer
        <3>1. jobs' = jobs /\ transfer'.request = Job /\ Job \in jobs
            BY <2>2, JobIn DEF SendTransfer
        <3> QED BY <1>1, <2>1, <3>1 DEF Executor
    <2>3. CASE SendFails \/ ReceiptLost
        <3>1. jobs' \subseteq jobs /\ transfer' = NoTransfer
            BY <2>3 DEF SendFails, ReceiptLost
        <3> QED BY <1>1, <2>1, <3>1 DEF Executor
    <2>4. CASE UNCHANGED <<jobs, transfer>>
        BY <1>1, <2>1, <2>4 DEF Executor
    <2>5. CASE MintCall
        BY <2>4, <2>5, MintCallStep
    <2>6. CASE \/ Land \/ Redeem \/ ScanStart \/ ScanBlock \/ ScanFails \/ Inject \/ GiveBack
               \/ UNCHANGED vars
        <3>1. UNCHANGED <<jobs, transfer>>
            BY <2>6 DEF Land, Redeem, ScanStart, ScanBlock, ScanFails, Inject, GiveBack, vars
        <3> QED BY <2>4, <3>1
    <2> QED BY <1>7, <2>2, <2>3, <2>5, <2>6 DEF Next
<1> QED BY <1>3, <1>4, <1>5, <1>6, <1>7, <1>8

(* The watcher passes no block it has not recorded. *)
LEMMA WatchingStep ==
    ASSUME Types, AllSound, Executor, Watching, Callers, [Next]_vars
    PROVE  Watching'
<1> USE DEF tokenizer, chain, executor, books, forcing
<1>1. /\ Len(sends) \in Nat /\ Len(sends') \in Nat /\ Len(sends') >= Len(sends)
      /\ DOMAIN sends = 1..Len(sends) /\ DOMAIN sends' = 1..Len(sends')
    BY SendsStep
<1>2. watcher \in [last : Nat, next : Nat, to : Nat]
    BY DEF Types
<1>3. watcher.last \in Nat /\ watcher.next \in Nat /\ watcher.to \in Nat
    BY <1>2
<1>4. \A b \in DOMAIN sends : b <= watcher.last \/ b < watcher.next => Recorded(b)'
    BY RequestsStep, RecordedStays DEF Watching
<1>5. /\ watcher.last <= Len(sends)
      /\ watcher.next # 0 => watcher.last < watcher.next /\ watcher.next <= watcher.to
                             /\ watcher.to <= Len(sends)
    BY DEF Watching
<1>6. CASE UNCHANGED watcher
    <2>1. ASSUME NEW b \in DOMAIN sends', b <= watcher.last \/ b < watcher.next
          PROVE  Recorded(b)'
        <3>1. b \in DOMAIN sends
            BY <1>1, <1>3, <1>5, <2>1
        <3> QED BY <1>4, <2>1, <3>1
    <2>2. watcher.last <= Len(sends') /\ (watcher.next # 0 => watcher.to <= Len(sends'))
        BY <1>1, <1>3, <1>5
    <2> QED BY <1>5, <1>6, <2>1, <2>2 DEF Watching
<1>7. CASE ScanStart
    <2>1. /\ watcher' = [watcher EXCEPT !.next = watcher.last + 1, !.to = Len(sends)]
          /\ watcher.next = 0 /\ watcher.last < Len(sends) /\ UNCHANGED sends
        BY <1>7 DEF ScanStart
    <2>2. /\ watcher'.last = watcher.last /\ watcher'.next = watcher.last + 1
          /\ watcher'.to = Len(sends)
        BY <1>2, <2>1
    <2>3. ASSUME NEW b \in DOMAIN sends', b <= watcher'.last \/ b < watcher'.next
          PROVE  Recorded(b)'
        <3>1. b \in DOMAIN sends /\ b <= watcher.last
            BY <1>1, <1>3, <2>1, <2>2, <2>3
        <3> QED BY <1>4, <3>1
    <2> QED BY <1>1, <1>3, <2>1, <2>2, <2>3 DEF Watching
<1>8. CASE ScanBlock
    <2>1. /\ watcher.next # 0 /\ requests' = recordRedemption(watcher.next)
          /\ UNCHANGED <<sends, attempts, stray>>
        BY <1>8 DEF ScanBlock
    <2>2. \A b : b = watcher.next => Recorded(b)'
        BY <2>1, RedemptionFresh DEF Recorded
    <2>3. ASSUME NEW b \in DOMAIN sends', b < watcher.next + 1 PROVE Recorded(b)'
        <3>1. b \in DOMAIN sends /\ (b < watcher.next \/ b = watcher.next)
            BY <1>1, <1>3, <2>1, <2>3
        <3> QED BY <1>4, <2>2, <3>1
    <2>4. CASE watcher.next = watcher.to
        <3>1. watcher' = [last |-> watcher.to, next |-> 0, to |-> 0]
            BY <1>8, <2>4 DEF ScanBlock
        <3>2. watcher'.last = watcher.to /\ watcher'.next = 0
            BY <3>1
        <3>3. ASSUME NEW b \in DOMAIN sends', b <= watcher'.last \/ b < watcher'.next
              PROVE  Recorded(b)'
            <4>1. b < watcher.next + 1
                BY <1>1, <1>3, <2>4, <3>2, <3>3
            <4> QED BY <2>3, <4>1
        <3> QED BY <1>5, <2>1, <3>2, <3>3 DEF Watching
    <2>5. CASE watcher.next # watcher.to
        <3>1. watcher' = [watcher EXCEPT !.next = @ + 1]
            BY <1>8, <2>5 DEF ScanBlock
        <3>2. /\ watcher'.last = watcher.last /\ watcher'.next = watcher.next + 1
              /\ watcher'.to = watcher.to
            BY <1>2, <3>1
        <3>3. ASSUME NEW b \in DOMAIN sends', b <= watcher'.last \/ b < watcher'.next
              PROVE  Recorded(b)'
            <4>1. b < watcher.next + 1
                BY <1>1, <1>3, <1>5, <2>1, <3>2, <3>3
            <4> QED BY <2>3, <4>1
        <3> QED BY <1>1, <1>3, <1>5, <2>1, <2>5, <3>2, <3>3 DEF Watching
    <2> QED BY <2>4, <2>5
<1>9. CASE ScanFails
    <2>1. watcher' = [watcher EXCEPT !.next = 0, !.to = 0] /\ UNCHANGED sends
        BY <1>9 DEF ScanFails
    <2>2. watcher'.last = watcher.last /\ watcher'.next = 0
        BY <1>2, <2>1
    <2>3. ASSUME NEW b \in DOMAIN sends', b <= watcher'.last \/ b < watcher'.next
          PROVE  Recorded(b)'
        <3>1. b \in DOMAIN sends /\ b <= watcher.last
            BY <1>1, <1>3, <2>1, <2>2, <2>3
        <3> QED BY <1>4, <3>1
    <2> QED BY <1>5, <2>1, <2>2, <2>3 DEF Watching
<1>10. CASE MintCall
    BY <1>6, <1>10, MintCallStep
<1>11. CASE \/ Land \/ Read \/ Reconcile \/ Collect \/ SendTransfer \/ SendFails \/ Receipt
            \/ ReceiptLost \/ Redeem \/ Inject \/ SetRequestStatus \/ SetRequestPolls
            \/ GiveBack
            \/ UNCHANGED vars
    <2>1. UNCHANGED watcher
        BY <1>11 DEF Land, Read, Reconcile, Collect, SendTransfer, SendFails, Receipt,
           ReceiptLost, Redeem, Inject, SetRequestStatus, SetRequestPolls, GiveBack, vars
    <2> QED BY <1>6, <2>1
<1> QED BY <1>7, <1>8, <1>9, <1>10, <1>11 DEF Next

(* No more requests are made than calls and recorded redemptions allow. *)
LEMMA BoundedStep ==
    ASSUME Types, AllSound, Executor, Watching, Callers, Bounded, [Next]_vars
    PROVE  Bounded'
<1> DEFINE R == RecordedBlocks
           S == RecordedBlocks'
<1>1. /\ Len(sends) \in Nat /\ Len(sends') \in Nat
      /\ DOMAIN sends = 1..Len(sends) /\ DOMAIN sends' = 1..Len(sends')
      /\ \A b \in DOMAIN sends : b \in DOMAIN sends'
    BY SendsStep
<1>2. Len(sends') <= MaxSends
    <2>1. CASE UNCHANGED sends
        BY <2>1 DEF Bounded
    <2>2. CASE Redeem
        <3>1. PICK q \in Quantities : sends' = Append(sends, q)
            BY <2>2 DEF Redeem
        <3>2. Len(sends') = Len(sends) + 1 /\ Len(sends) < MaxSends
            BY <2>2, <3>1, Appended DEF Redeem, Types
        <3> QED BY <1>1, <3>2, Numbers
    <2> QED BY <2>1, <2>2, SendsStep
<1>3. IsFiniteSet(S)
    <2>1. IsFiniteSet(1..Len(sends'))
        BY <1>1, FS_Interval
    <2>2. S \subseteq 1..Len(sends')
        BY <1>1 DEF RecordedBlocks
    <2> HIDE DEF S
    <2> QED BY <2>1, <2>2, FS_Subset
<1>4. R \subseteq S
    BY <1>1, RequestsStep, RecordedStays DEF RecordedBlocks
<1>5. /\ IsFiniteSet(R) /\ Cardinality(R) \in Nat /\ Cardinality(S) \in Nat
      /\ Cardinality(R) <= Cardinality(S)
    <2> HIDE DEF R, S
    <2> QED BY <1>3, <1>4, FS_Subset, FS_CardinalityType
<1>6. Len(requests) \in Nat /\ Len(requests) <= MaxRequests + Cardinality(R)
    BY DEF Bounded, Types
<1>7. CASE Evolves
    <2>1. Len(requests') = Len(requests)
        BY <1>7 DEF Evolves
    <2>2. Len(requests') <= MaxRequests + Cardinality(S)
        <3> HIDE DEF R, S
        <3> QED BY <1>5, <1>6, <2>1, Numbers
    <2> QED BY <1>2, <2>2 DEF Bounded
<1>8. ASSUME NEW r \in Requests, Fresh(r) PROVE Bounded'
    <2>1. Len(requests') = Len(requests) + 1
        BY <1>8, Appended DEF Fresh, Types
    <2>2. CASE r.tx = NoTx
        <3>1. Len(requests) < MaxRequests
            <4>1. watcher.next # 0 => watcher.next # NoTx
                BY DEF NoTx
            <4> QED BY <1>8, <2>2, <4>1 DEF Fresh
        <3>2. Len(requests') <= MaxRequests + Cardinality(S)
            <4> HIDE DEF R, S
            <4> QED BY <1>5, <1>6, <2>1, <3>1, Numbers
        <3> QED BY <1>2, <3>2 DEF Bounded
    <2>3. CASE r.tx # NoTx
        <3>1. /\ watcher.next # 0 /\ r.tx = watcher.next /\ ~Recorded(r.tx)
              /\ requests' = Append(requests, r)
              /\ r.kind = "redeem"
            BY <1>8, <2>3 DEF Fresh
        <3>2. r.tx \in DOMAIN sends
            <4>1. watcher.next \in Nat /\ watcher.to \in Nat
                BY DEF Types
            <4> QED BY <1>1, <3>1, <4>1 DEF Watching
        <3>3. r.tx \notin R
            BY <3>1 DEF RecordedBlocks
        <3>4. r.tx \in S
            <4>1. Len(requests) + 1 \in DOMAIN requests' /\ requests'[Len(requests) + 1] = r
                BY <3>1, Appended DEF Types
            <4>2. \A b : b = r.tx => Recorded(b)'
                BY <3>1, <4>1 DEF Recorded
            <4> QED BY <1>1, <3>2, <4>2 DEF RecordedBlocks
        <3> HIDE DEF R, S
        <3>5. Cardinality(R \cup {r.tx}) = Cardinality(R) + 1 /\ IsFiniteSet(R \cup {r.tx})
            BY <1>5, <3>3, FS_AddElement
        <3>6. R \cup {r.tx} \subseteq S
            BY <1>4, <3>4
        <3>7. Cardinality(R \cup {r.tx}) <= Cardinality(S)
            BY <1>3, <3>6, FS_Subset
        <3>8. Len(requests') <= MaxRequests + Cardinality(S)
            BY <1>5, <1>6, <2>1, <3>5, <3>7, Numbers
        <3> QED BY <1>2, <3>8 DEF Bounded, S
    <2> QED BY <2>2, <2>3
<1> QED BY <1>7, <1>8, RequestsStep

-----------------------------------------------------------------------------
(* The books *)

\* The blocks whose redemption has not completed.
OpenBlocks ==
    {b \in DOMAIN sends : ~\E i \in DOMAIN requests :
        requests[i].tx = b /\ requests[i].status = "completed"}

LEMMA BlockSums ==
    ASSUME NEW s \in Seq(Quantities), NEW B \in SUBSET DOMAIN s
    PROVE  /\ IsFiniteSet(DOMAIN s) /\ s \in [DOMAIN s -> Int]
           /\ SumFunctionOnSet(s, B) \in Int
           /\ SumFunction([b \in B |-> s[b]]) = SumFunctionOnSet(s, B)
<1>1. DOMAIN s = 1..Len(s) /\ Len(s) \in Nat
    OBVIOUS
<1>2. IsFiniteSet(DOMAIN s)
    BY <1>1, FS_Interval
<1>3. s \in [DOMAIN s -> Int]
    <2>1. s \in [DOMAIN s -> Quantities]
        OBVIOUS
    <2>2. Quantities \subseteq Int
        BY Numbers
    <2> QED BY <2>1, <2>2
<1>4. SumFunctionOnSet(s, B) \in Int
    BY <1>2, <1>3, SumType
<1> DEFINE t == [b \in B |-> s[b]]
<1>5. DOMAIN t = B /\ \A b \in B : t[b] = s[b]
    OBVIOUS
<1> HIDE DEF t
<1>6. SumFunction(t) = SumFunctionOnSet(t, B)
    BY <1>5 DEF SumFunction
<1>7. SumFunctionOnSet(t, B) = SumFunctionOnSet(s, B)
    BY <1>2, <1>5, SumAgree
<1> QED BY <1>2, <1>3, <1>4, <1>6, <1>7 DEF t

(* What is being redeemed is the sum over the open blocks, before a step and *)
(* after it.                                                                 *)
LEMMA RedeemingSum ==
    ASSUME Types, Types'
    PROVE  /\ Redeeming = SumFunctionOnSet(sends, OpenBlocks) /\ Redeeming \in Int
           /\ Redeeming' = SumFunctionOnSet(sends', OpenBlocks') /\ Redeeming' \in Int
<1>1. OpenBlocks \in SUBSET DOMAIN sends /\ OpenBlocks' \in SUBSET DOMAIN sends'
    BY DEF OpenBlocks
<1>2. sends \in Seq(Quantities) /\ sends' \in Seq(Quantities)
    BY DEF Types
<1>3. /\ Redeeming = SumFunction([b \in OpenBlocks |-> sends[b]])
      /\ Redeeming' = SumFunction([b \in OpenBlocks' |-> sends'[b]])
    BY DEF Redeeming, OpenBlocks
<1> QED BY <1>1, <1>2, <1>3, BlockSums

(* A step that completes no redemption leaves the open blocks. *)
LEMMA OpenStays ==
    ASSUME Types, AllSound, Evolves \/ \E r \in Requests : Fresh(r), UNCHANGED sends,
           \A i \in DOMAIN requests :
              requests[i].kind = "redeem" /\ requests[i].tx \in DOMAIN sends =>
              (requests'[i].status = "completed" <=> requests[i].status = "completed")
    PROVE  OpenBlocks' = OpenBlocks
<1>1. 0 \notin DOMAIN sends
    <2>1. DOMAIN sends = 1..Len(sends) /\ Len(sends) \in Nat
        BY DEF Types
    <2> QED BY <2>1
<1>2. \A i \in DOMAIN requests : i \in DOMAIN requests' /\ requests'[i].tx = requests[i].tx
    BY Kept DEF Same
<1>3. \A i \in DOMAIN requests' \ DOMAIN requests : requests'[i].status # "completed"
    <2>1. CASE Evolves
        BY <2>1 DEF Evolves, Types
    <2>2. ASSUME NEW r \in Requests, Fresh(r)
          PROVE  \A i \in DOMAIN requests' \ DOMAIN requests : requests'[i].status # "completed"
        <3>1. /\ DOMAIN requests' = DOMAIN requests \cup {Len(requests) + 1}
              /\ requests'[Len(requests) + 1] = r /\ r.status = "pending"
            BY <2>2, Appended DEF Fresh, Types
        <3> QED BY <3>1
    <2> QED BY <2>1, <2>2
<1>4. \A i \in DOMAIN requests : requests[i].tx \in DOMAIN sends => requests[i].kind = "redeem"
    BY <1>1, RequestTypes DEF AllSound, Sound, NoTx
<1>5. ASSUME NEW b \in DOMAIN sends
      PROVE  (\E i \in DOMAIN requests : requests[i].tx = b /\ requests[i].status = "completed")
             <=> (\E i \in DOMAIN requests' :
                     requests'[i].tx = b /\ requests'[i].status = "completed")
    BY <1>2, <1>3, <1>4
<1> QED BY <1>5 DEF OpenBlocks

(* What the executor's transfer moves does not change on its way. *)
LEMMA MovingStays ==
    ASSUME Types, Executor, Evolves \/ \E r \in Requests : Fresh(r), UNCHANGED transfer
    PROVE  Moving' = Moving
<1>1. transfer # NoTransfer => transfer.request \in DOMAIN requests
    BY DEF Executor
<1>2. \A i \in DOMAIN requests : requests'[i].quantity = requests[i].quantity
    BY Kept DEF Same
<1> QED BY <1>1, <1>2 DEF Moving

(* What the transfer moves, and the amount its mint is of. *)
LEMMA MovingType ==
    ASSUME Types, Executor
    PROVE  /\ Moving \in Nat
           /\ transfer # NoTransfer => requests[transfer.request].quantity \in Nat
<1>1. transfer # NoTransfer => requests[transfer.request].quantity \in Nat
    BY RequestTypes, Numbers DEF Executor
<1> QED BY <1>1 DEF Moving

(* The redemptions a list completes leave the open blocks, and give back what *)
(* was sent in them.                                                          *)
LEMMA ListKeepsSupply ==
    ASSUME Types, Types', AllSound, OncePerBlock, UNCHANGED sends, ~skewed',
           NEW o \in {"completed", "rejected"}, List(o)
    PROVE  shares' + Redeeming' = shares + Redeeming
<1> DEFINE T == {i \in DOMAIN requests :
                    requests[i].kind = "redeem" /\ requests[i].status # "completed"
                    /\ polled(requests[i], o).status = "completed"}
           f == [i \in T |-> requests[i].quantity]
           h == [i \in T |-> requests[i].tx]
<1>1. shares' = shares + SumFunction(f) /\ \A i \in T : requests[i].tx # NoTx
    <2>1. \A i \in DOMAIN requests :
             [k \in DOMAIN requests |-> polled(requests[k], o)][i] = polled(requests[i], o)
        OBVIOUS
    <2>2. {i \in DOMAIN requests :
              requests[i].kind = "redeem" /\ requests[i].status # "completed"
              /\ [k \in DOMAIN requests |-> polled(requests[k], o)][i].status = "completed"} = T
        BY <2>1
    <2> HIDE DEF T
    <2>3. PICK failed \in SUBSET T :
             /\ shares' = shares + SumFunction([i \in T \ failed |-> requests[i].quantity])
             /\ skewed' = (skewed \/ failed # {} \/ \E i \in T : requests[i].tx = NoTx)
        BY <2>2, Zenon DEF List
    <2>4. failed = {} /\ \A i \in T : requests[i].tx # NoTx
        BY <2>3
    <2>5. T \ failed = T
        BY <2>4
    <2> QED BY <2>3, <2>4, <2>5
<1>2. \A i \in DOMAIN requests : /\ requests[i].kind \in {"mint", "redeem"}
                                 /\ requests[i].quantity \in Nat
    BY RequestTypes, Numbers
<1>3. /\ Evolves
      /\ \A i \in DOMAIN requests : /\ requests'[i] = polled(requests[i], o)
                                    /\ requests'[i].tx = requests[i].tx
    BY Listed DEF Evolves, Same
<1>4. DOMAIN requests' = DOMAIN requests
    BY <1>3 DEF Evolves, Types
<1>5. \A i \in DOMAIN requests :
         requests'[i].status # requests[i].status
            => requests[i].kind = "redeem" /\ requests[i].status = "pending"
               /\ requests'[i].status = o
    <2>1. \A i \in DOMAIN requests : requests[i] \in Requests /\ Sound(requests[i])
        BY RequestTypes DEF AllSound
    <2> QED BY <1>3, <2>1, PolledKeeps
<1>6. 0 \notin DOMAIN sends
    <2>1. DOMAIN sends = 1..Len(sends) /\ Len(sends) \in Nat
        BY DEF Types
    <2> QED BY <2>1
<1>7. \A i \in DOMAIN requests :
         /\ requests[i].tx \in DOMAIN sends => requests[i].kind = "redeem"
         /\ requests[i].kind = "redeem" /\ requests[i].tx # NoTx
               => requests[i].tx \in DOMAIN sends /\ requests[i].quantity = sends[requests[i].tx]
    BY <1>2, <1>6 DEF AllSound, Sound, NoTx
<1>8. T \subseteq DOMAIN requests /\ \A i \in T : requests[i].kind = "redeem"
      /\ requests[i].tx # NoTx
      /\ requests[i].status # "completed" /\ requests'[i].status = "completed"
    BY <1>1, <1>3
<1>9. \A i \in DOMAIN requests \ T : requests[i].kind = "redeem"
         => (requests'[i].status = "completed" <=> requests[i].status = "completed")
    BY <1>3, <1>5
<1> HIDE DEF T
<1>10. h \in [T -> OpenBlocks]
    <2>1. ASSUME NEW i \in T PROVE requests[i].tx \in OpenBlocks
        <3>1. \A j \in DOMAIN requests : requests[j].tx = requests[i].tx => j = i
            BY <1>7, <1>8 DEF OncePerBlock
        <3> QED BY <1>7, <1>8, <3>1 DEF OpenBlocks
    <2> QED BY <2>1
<1>11. /\ \A x, y \in T : h[x] = h[y] => x = y
       /\ \A x \in T : sends[h[x]] = f[x]
    BY <1>7, <1>8 DEF OncePerBlock
<1>12. OpenBlocks' = OpenBlocks \ {h[x] : x \in T}
    <2>1. ASSUME NEW b \in OpenBlocks'
          PROVE  b \in OpenBlocks \ {h[x] : x \in T}
        <3>1. /\ b \in DOMAIN sends
              /\ \A i \in DOMAIN requests :
                    ~(requests'[i].tx = b /\ requests'[i].status = "completed")
            BY <1>4 DEF OpenBlocks
        <3>2. \A i \in T : requests[i].tx # b
            BY <1>3, <1>8, <3>1
        <3>3. \A i \in DOMAIN requests :
                 ~(requests[i].tx = b /\ requests[i].status = "completed")
            BY <1>3, <1>7, <1>9, <3>1, <3>2
        <3> QED BY <3>1, <3>2, <3>3 DEF OpenBlocks
    <2>2. ASSUME NEW b \in OpenBlocks, \A x \in T : requests[x].tx # b
          PROVE  b \in OpenBlocks'
        <3>1. /\ b \in DOMAIN sends
              /\ \A i \in DOMAIN requests :
                    ~(requests[i].tx = b /\ requests[i].status = "completed")
            BY DEF OpenBlocks
        <3>2. \A i \in DOMAIN requests :
                 ~(requests'[i].tx = b /\ requests'[i].status = "completed")
            BY <1>3, <1>7, <1>9, <2>2, <3>1
        <3> QED BY <1>4, <3>1, <3>2 DEF OpenBlocks
    <2> QED BY <2>1, <2>2
<1>13. IsFiniteSet(T) /\ f \in [T -> Int]
    <2>1. IsFiniteSet(T)
        BY <1>8, Returned
    <2> QED BY <1>2, <1>8, <2>1
<1>14. SumFunction(f) = SumFunctionOnSet(f, T) /\ SumFunctionOnSet(f, T) \in Int
    <2>1. DOMAIN f = T
        OBVIOUS
    <2> HIDE DEF f
    <2>2. SumFunctionOnSet(f, T) \in Int
        BY <1>13, SumType
    <2> QED BY <2>1, <2>2 DEF SumFunction
<1>15. IsFiniteSet(DOMAIN sends) /\ sends \in [DOMAIN sends -> Int]
       /\ OpenBlocks \in SUBSET DOMAIN sends
    <2>1. OpenBlocks \in SUBSET DOMAIN sends
        BY DEF OpenBlocks
    <2> QED BY <2>1, BlockSums DEF Types
<1> HIDE DEF f, h
<1>16. SumFunctionOnSet(sends, OpenBlocks)
          = SumFunctionOnSet(sends, OpenBlocks \ {h[x] : x \in T}) + SumFunctionOnSet(f, T)
    BY <1>10, <1>11, <1>13, <1>15, SumTake
<1>17. shares \in Int
    BY DEF Types
<1> QED BY <1>1, <1>12, <1>14, <1>16, <1>17, RedeemingSum

(* A redemption a test completes leaves its block, and is owed what was sent. *)
LEMMA SetStatusKeepsSupply ==
    ASSUME Types, Types', AllSound, OncePerBlock, SetRequestStatus, ~skewed'
    PROVE  owed' + Redeeming' = owed + Redeeming
<1>1. PICK j \in DOMAIN requests, s \in Statuses :
         /\ requests'[j].status = s
         /\ owed' = IF s = "completed" /\ requests[j].kind = "redeem"
                    THEN owed + requests[j].quantity ELSE owed
         /\ skewed' = (skewed \/ GivenTwice(requests[j], s))
         /\ \A i \in DOMAIN requests \ {j} : requests'[i] = requests[i]
    BY StatusSet
<1>2. Evolves /\ UNCHANGED sends /\ owed \in Nat
    BY StatusSet DEF SetRequestStatus, chain, Types
<1>3. /\ requests[j].kind = "redeem" /\ requests[j].tx # NoTx => requests[j].status # "completed"
      /\ requests[j].kind = "redeem" /\ requests[j].tx = NoTx => s # "completed"
    BY <1>1 DEF GivenTwice
<1>4. CASE ~(s = "completed" /\ requests[j].kind = "redeem")
    <2>1. \A i \in DOMAIN requests :
             requests[i].kind = "redeem" /\ requests[i].tx \in DOMAIN sends =>
             (requests'[i].status = "completed" <=> requests[i].status = "completed")
        <3>1. NoTx \notin DOMAIN sends
            <4>1. DOMAIN sends = 1..Len(sends) /\ Len(sends) \in Nat
                BY DEF Types
            <4> QED BY <4>1 DEF NoTx
        <3> QED BY <1>1, <1>3, <1>4, <3>1
    <2>2. OpenBlocks' = OpenBlocks
        BY <1>2, <2>1, OpenStays
    <2>3. owed' = owed
        BY <1>1, <1>4
    <2> QED BY <1>2, <2>2, <2>3, RedeemingSum
<1>5. CASE s = "completed" /\ requests[j].kind = "redeem"
    <2> DEFINE c == requests[j].tx
    <2>1. DOMAIN requests' = DOMAIN requests
          /\ \A i \in DOMAIN requests : requests'[i].tx = requests[i].tx
        BY <1>2 DEF Evolves, Types, Same
    <2>2. c \in DOMAIN sends /\ requests[j].quantity = sends[c] /\ c # 0
        <3>1. DOMAIN sends = 1..Len(sends) /\ Len(sends) \in Nat
            BY DEF Types
        <3> QED BY <1>3, <1>5, <3>1 DEF AllSound, Sound
    <2>3. \A i \in DOMAIN requests : requests[i].tx = c => i = j
        <3>1. \A i \in DOMAIN requests : requests[i].tx = c => requests[i].kind = "redeem"
            BY <2>2, RequestTypes DEF AllSound, Sound, NoTx
        <3> QED BY <1>3, <1>5, <3>1 DEF OncePerBlock
    <2>4. c \in OpenBlocks
        BY <1>3, <1>5, <2>2, <2>3 DEF OpenBlocks
    <2>5. OpenBlocks' = OpenBlocks \ {c}
        <3>1. ASSUME NEW b \in DOMAIN sends, b # c
              PROVE  (\E i \in DOMAIN requests :
                         requests[i].tx = b /\ requests[i].status = "completed")
                     <=> (\E i \in DOMAIN requests' :
                             requests'[i].tx = b /\ requests'[i].status = "completed")
            BY <1>1, <2>1, <3>1
        <3>2. c \notin OpenBlocks'
            BY <1>1, <1>5, <2>1 DEF OpenBlocks
        <3> HIDE DEF c
        <3> QED BY <1>2, <3>1, <3>2 DEF OpenBlocks
    <2>6. IsFiniteSet(DOMAIN sends) /\ sends \in [DOMAIN sends -> Int]
          /\ OpenBlocks \in SUBSET DOMAIN sends
        <3>1. OpenBlocks \in SUBSET DOMAIN sends
            BY DEF OpenBlocks
        <3> QED BY <3>1, BlockSums DEF Types
    <2> HIDE DEF c
    <2>7. SumFunctionOnSet(sends, OpenBlocks)
             = sends[c] + SumFunctionOnSet(sends, OpenBlocks \ {c})
        BY <2>4, <2>6, SumRemove
    <2>8. owed' = owed + sends[c] /\ sends[c] \in Int
        BY <1>1, <1>5, <2>2, <2>6 DEF c
    <2> QED BY <1>2, <2>5, <2>7, <2>8, RedeemingSum
<1> QED BY <1>4, <1>5

(* Tokens sent to be redeemed are being redeemed. *)
LEMMA RedeemKeepsSupply ==
    ASSUME Types, Types', AllSound, Redeem
    PROVE  tokens' + Redeeming' = tokens + Redeeming
<1>1. PICK q \in Quantities : sends' = Append(sends, q) /\ tokens' = tokens - q
    BY DEF Redeem
<1> DEFINE c == Len(sends) + 1
<1>2. /\ sends \in Seq(Quantities) /\ sends' \in Seq(Quantities)
      /\ tokens \in Nat /\ q \in Nat
    BY Numbers DEF Types
<1>3. /\ DOMAIN sends' = DOMAIN sends \cup {c} /\ c \notin DOMAIN sends /\ c # 0
      /\ sends'[c] = q /\ \A b \in DOMAIN sends : sends'[b] = sends[b]
    <2>1. Len(sends) \in Nat
        BY <1>2
    <2> QED BY <1>1, <1>2, <2>1, Appended
<1>4. UNCHANGED requests
    BY DEF Redeem, tokenizer
<1>5. \A i \in DOMAIN requests : requests[i].tx # c
    <2>1. NoTx # c
        BY <1>3 DEF NoTx
    <2>2. \A i \in DOMAIN requests : requests[i].tx = NoTx \/ requests[i].tx \in DOMAIN sends
        BY DEF AllSound, Sound
    <2> QED BY <1>3, <2>1, <2>2
<1> HIDE DEF c
<1>6. OpenBlocks' = OpenBlocks \cup {c} /\ c \notin OpenBlocks
    BY <1>3, <1>4, <1>5 DEF OpenBlocks
<1>7. OpenBlocks \in SUBSET DOMAIN sends /\ OpenBlocks' \in SUBSET DOMAIN sends'
    BY DEF OpenBlocks
<1>8. IsFiniteSet(DOMAIN sends') /\ sends' \in [DOMAIN sends' -> Int]
    BY <1>2, <1>7, BlockSums
<1>9. SumFunctionOnSet(sends', OpenBlocks')
         = sends'[c] + SumFunctionOnSet(sends', OpenBlocks' \ {c})
    <2>1. c \in OpenBlocks'
        BY <1>6
    <2> QED BY <1>7, <1>8, <2>1, SumRemove
<1>10. OpenBlocks' \ {c} = OpenBlocks
    BY <1>6
<1>11. SumFunctionOnSet(sends', OpenBlocks) = SumFunctionOnSet(sends, OpenBlocks)
    <2>1. OpenBlocks \in SUBSET DOMAIN sends'
        BY <1>3, <1>7
    <2>2. \A b \in OpenBlocks : sends'[b] = sends[b]
        BY <1>3, <1>7
    <2> QED BY <1>8, <2>1, <2>2, SumAgree
<1>12. Redeeming' = q + Redeeming /\ Redeeming \in Int
    BY <1>3, <1>9, <1>10, <1>11, RedeemingSum
<1>13. tokens' = tokens - q
    BY <1>1
<1> QED BY <1>2, <1>12, <1>13

(* Shares and tokens move together in every step. *)
LEMMA SupplyStep ==
    ASSUME Types, Types', AllSound, OncePerBlock, Executor, Watching, Callers,
           SupplyIsConstant, [Next]_vars
    PROVE  SupplyIsConstant'
<1> USE DEF tokenizer, chain, executor, books, forcing
<1>1. /\ shares \in Int /\ tokens \in Int /\ owed \in Int /\ lost \in Int
      /\ shares' \in Int /\ tokens' \in Int /\ owed' \in Int /\ lost' \in Int
    BY DEF Types
<1>2. Redeeming \in Int /\ Redeeming' \in Int /\ Moving \in Int
    BY RedeemingSum, MovingType
<1>4. SUFFICES ASSUME ~skewed'
               PROVE  shares' + owed' + tokens' + Redeeming' = lost' + Moving'
    BY DEF SupplyIsConstant, Supply
<1>16. ~skewed
    <2>1. UNCHANGED skewed \/ skewed' = TRUE \/ \E x \in BOOLEAN : skewed' = (skewed \/ x)
        <3>1. CASE MintCall
            BY <3>1, MintCallStep
        <3>2. CASE Read \/ Reconcile
            <4>1. PICK o \in {"completed", "rejected"} : List(o)
                BY <3>2 DEF Read, Reconcile
            <4> QED BY <4>1 DEF List
        <3>3. CASE SetRequestStatus
            BY <3>3 DEF SetRequestStatus, GivenTwice
        <3>4. CASE \/ Land \/ Collect \/ SendTransfer \/ SendFails \/ Receipt \/ ReceiptLost
                   \/ Redeem \/ ScanStart \/ ScanBlock \/ ScanFails \/ Inject
                   \/ SetRequestPolls \/ GiveBack \/ UNCHANGED vars
            BY <3>4 DEF Land, Collect, SendTransfer, SendFails, Receipt, ReceiptLost, Redeem,
               ScanStart, ScanBlock, ScanFails, Inject, SetRequestPolls, GiveBack, vars
        <3> QED BY <3>1, <3>2, <3>3, <3>4 DEF Next
    <2> QED BY <1>4, <2>1
<1>3. shares + owed + tokens + Redeeming = lost + Moving
    BY <1>16 DEF SupplyIsConstant, Supply
<1>5. UNCHANGED transfer => Moving' = Moving
    BY RequestsStep, MovingStays
<1>6. ASSUME UNCHANGED sends,
             \A i \in DOMAIN requests : requests[i].kind = "redeem" =>
                (requests'[i].status = "completed" <=> requests[i].status = "completed")
      PROVE  Redeeming' = Redeeming
    <2>1. OpenBlocks' = OpenBlocks
        BY <1>6, RequestsStep, OpenStays
    <2> QED BY <1>6, <2>1, RedeemingSum
<1>7. PICK s1 \in Int, t1 \in Int, o1 \in Int, r \in Int, r1 \in Int, m \in Int :
         /\ s1 = shares' /\ t1 = tokens' /\ o1 = owed'
         /\ r = Redeeming /\ r1 = Redeeming' /\ m = Moving
    BY <1>1, <1>2
<1>8. shares + owed + tokens + r = lost + m
    BY <1>3, <1>7
<1>9. shares \in Int /\ owed \in Int /\ tokens \in Int /\ lost \in Int
    BY <1>1
<1>10. CASE Read \/ Reconcile
    <2>1. PICK o \in {"completed", "rejected"} : List(o)
        BY <1>10 DEF Read, Reconcile
    <2>2. UNCHANGED <<sends, tokens, owed, lost, transfer>>
        BY <1>10 DEF Read, Reconcile
    <2>3. shares' + Redeeming' = shares + Redeeming
        BY <1>4, <2>1, <2>2, ListKeepsSupply
    <2>4. Moving' = Moving /\ tokens' = tokens /\ owed' = owed /\ lost' = lost
        BY <1>5, <2>2
    <2>5. s1 + r1 = shares + r
        BY <1>7, <2>3
    <2>6. s1 + owed + tokens + r1 = lost + m
        BY <1>8, <1>9, <2>5
    <2> QED BY <1>7, <2>4, <2>6
<1>11. CASE SetRequestStatus
    <2>1. UNCHANGED <<shares, tokens, lost, transfer>>
        BY <1>11 DEF SetRequestStatus
    <2>2. owed' + Redeeming' = owed + Redeeming
        BY <1>4, <1>11, SetStatusKeepsSupply
    <2>3. Moving' = Moving /\ shares' = shares /\ tokens' = tokens /\ lost' = lost
        BY <1>5, <2>1
    <2>4. o1 + r1 = owed + r
        BY <1>7, <2>2
    <2>5. shares + o1 + tokens + r1 = lost + m
        BY <1>8, <1>9, <2>4
    <2> QED BY <1>7, <2>3, <2>5
<1>12. CASE Redeem
    <2>1. UNCHANGED <<shares, owed, lost, transfer>>
        BY <1>12 DEF Redeem
    <2>2. tokens' + Redeeming' = tokens + Redeeming
        BY <1>12, RedeemKeepsSupply
    <2>3. Moving' = Moving /\ shares' = shares /\ owed' = owed /\ lost' = lost
        BY <1>5, <2>1
    <2>4. t1 + r1 = tokens + r
        BY <1>7, <2>2
    <2>5. shares + owed + t1 + r1 = lost + m
        BY <1>8, <1>9, <2>4
    <2> QED BY <1>7, <2>3, <2>5
<1>13. CASE Collect
    <2>1. UNCHANGED <<shares, tokens, owed, lost, transfer, sends>>
        BY <1>13 DEF Collect
    <2>2. \A i \in DOMAIN requests : requests[i].kind = "redeem" =>
             (requests'[i].status = "completed" <=> requests[i].status = "completed")
        BY <1>13, Collected DEF AllSound, Sound
    <2> QED BY <1>1, <1>2, <1>3, <1>5, <1>6, <2>1, <2>2
<1>14. CASE Receipt
    <2> DEFINE q == requests[transfer.request].quantity
    <2>1. /\ shares' = sharesAfterMint(requests[transfer.request], ~transfer.reverted)
          /\ transfer # NoTransfer /\ transfer' = NoTransfer
          /\ UNCHANGED <<tokens, owed, lost, sends>>
        BY <1>4, <1>14 DEF Receipt
    <2>2. q \in Nat
        BY <2>1, MovingType
    <2>3. \A i \in DOMAIN requests : requests[i].kind = "redeem" =>
             (requests'[i].status = "completed" <=> requests[i].status = "completed")
        BY <1>14, Received DEF AllSound, Sound
    <2>4. Redeeming' = Redeeming
        BY <1>6, <2>1, <2>3
    <2>5. Moving' = 0 /\ Moving = IF transfer.reverted THEN 0 ELSE q
        BY <2>1 DEF Moving
    <2>6. shares' = IF transfer.reverted THEN shares ELSE shares - q
        BY <2>1 DEF sharesAfterMint
    <2> HIDE DEF q
    <2> QED BY <1>1, <1>2, <1>3, <2>1, <2>2, <2>4, <2>5, <2>6
<1>17. CASE SetRequestPolls
    <2>1. UNCHANGED <<shares, tokens, owed, lost, transfer, sends>>
        BY <1>17 DEF SetRequestPolls
    <2>2. \A i \in DOMAIN requests : requests[i].kind = "redeem" =>
             (requests'[i].status = "completed" <=> requests[i].status = "completed")
        BY <1>17, PollsSet
    <2> QED BY <1>1, <1>2, <1>3, <1>5, <1>6, <2>1, <2>2
<1>15. CASE ~(Read \/ Reconcile \/ Collect \/ Receipt \/ SetRequestStatus \/ SetRequestPolls
              \/ Redeem)
    <2>1. UNCHANGED sends /\ Redeeming' = Redeeming
        <3>1. UNCHANGED sends
            BY <1>15, SendsStep
        <3>2. \A i \in DOMAIN requests : requests'[i] = requests[i]
            BY <1>15, RequestsMade, Still
        <3> QED BY <1>6, <3>1, <3>2
    <2>2. \A i \in DOMAIN requests : requests'[i] = requests[i]
        BY <1>15, RequestsMade, Still
    <2>3. CASE SendTransfer
        <3>1. Job \in DOMAIN requests /\ Job # 0 /\ Job \in Nat /\ requests[Job].quantity \in Nat
            BY <2>3, JobIn DEF SendTransfer
        <3>2. PICK v \in BOOLEAN :
                 /\ transfer' = [request |-> Job, reverted |-> v]
                 /\ tokens' = IF v THEN tokens ELSE tokens + requests[Job].quantity
            BY <2>3 DEF SendTransfer
        <3>3. transfer = NoTransfer /\ UNCHANGED <<shares, owed, lost, requests>>
            BY <2>3 DEF SendTransfer
        <3> DEFINE j == Job
        <3>4. j \in DOMAIN requests /\ j # 0 /\ requests[j].quantity \in Nat
              /\ transfer' = [request |-> j, reverted |-> v]
              /\ tokens' = IF v THEN tokens ELSE tokens + requests[j].quantity
            BY <3>1, <3>2
        <3> HIDE DEF j
        <3>5. transfer'.request = j /\ transfer'.reverted = v /\ transfer' # NoTransfer
            <4>1. transfer'.request = j /\ transfer'.reverted = v
                BY <3>4
            <4>2. NoTransfer.request = 0
                BY DEF NoTransfer
            <4> QED BY <3>4, <4>1, <4>2
        <3>6. Moving = 0 /\ Moving' = IF v THEN 0 ELSE requests[j].quantity
            BY <3>3, <3>5 DEF Moving
        <3>7. t1 = IF v THEN tokens ELSE tokens + requests[j].quantity
            BY <1>7, <3>4
        <3>8. m = 0
            BY <1>7, <3>6
        <3>9. shares + owed + t1 + r = lost + (IF v THEN 0 ELSE requests[j].quantity)
            BY <1>8, <1>9, <3>4, <3>7, <3>8
        <3> QED BY <1>7, <2>1, <3>3, <3>6, <3>9
    <2>4. CASE ReceiptLost
        <3> DEFINE q == requests[transfer.request].quantity
        <3>1. /\ transfer # NoTransfer /\ transfer' = NoTransfer
              /\ lost' = IF transfer.reverted THEN lost ELSE lost + q
              /\ UNCHANGED <<shares, owed, tokens>>
            BY <2>4 DEF ReceiptLost
        <3>2. q \in Nat
            BY <3>1, MovingType
        <3>3. Moving' = 0 /\ Moving = IF transfer.reverted THEN 0 ELSE q
            BY <3>1 DEF Moving
        <3> HIDE DEF q
        <3> QED BY <1>1, <1>2, <1>3, <2>1, <3>1, <3>2, <3>3
    <2>5. CASE GiveBack
        <3>1. PICK q \in Quantities : /\ shares' = shares + q /\ owed' = owed - q
                                      /\ UNCHANGED <<tokens, lost, transfer>>
            BY <1>4, <2>5 DEF GiveBack
        <3>2. q \in Nat
            BY Numbers
        <3> QED BY <1>1, <1>2, <1>3, <1>5, <2>1, <3>1, <3>2
    <2>9. CASE SendFails
        <3> DEFINE q == requests[Job].quantity
        <3>1. q \in Nat
            BY <2>9, JobIn DEF SendFails
        <3>2. /\ UNCHANGED <<shares, owed, transfer>>
              /\ \/ UNCHANGED <<tokens, lost>>
                 \/ tokens' = tokens + q /\ lost' = lost + q
            BY <2>9 DEF SendFails
        <3> HIDE DEF q
        <3> QED BY <1>1, <1>2, <1>3, <1>5, <2>1, <3>1, <3>2
    <2>6. CASE UNCHANGED <<shares, owed, tokens, lost, transfer>>
        BY <1>1, <1>2, <1>3, <1>5, <2>1, <2>6
    <2>7. CASE MintCall
        BY <2>6, <2>7, MintCallStep
    <2>8. CASE Land \/ ScanStart \/ ScanBlock \/ ScanFails \/ Inject \/ UNCHANGED vars
        <3>1. UNCHANGED <<shares, owed, tokens, lost, transfer>>
            BY <2>8 DEF Land, ScanStart, ScanBlock, ScanFails, Inject, vars
        <3> QED BY <2>6, <3>1
    <2> QED BY <1>15, <2>3, <2>4, <2>5, <2>7, <2>8, <2>9 DEF Next
<1> QED BY <1>10, <1>11, <1>12, <1>13, <1>14, <1>15, <1>17

-----------------------------------------------------------------------------
(* The theorems *)

LEMMA InitInv == Init => Inv
<1> SUFFICES ASSUME Init PROVE Inv
    OBVIOUS
<1>1. /\ requests = <<>> /\ stray = {} /\ attempts = <<>> /\ sends = <<>>
      /\ shares = 0 /\ tokens = 0 /\ owed = 0 /\ lost = 0 /\ skewed = FALSE
      /\ watcher = [last |-> 0, next |-> 0, to |-> 0] /\ jobs = {} /\ transfer = NoTransfer
    BY DEF Init
<1>2. DOMAIN requests = {} /\ DOMAIN attempts = {} /\ DOMAIN sends = {}
      /\ Len(requests) = 0 /\ Len(sends) = 0
    BY <1>1
<1>3. watcher \in [last : Nat, next : Nat, to : Nat] /\ watcher.last = 0 /\ watcher.next = 0
    BY <1>1
<1>4. NoTransfer \in [request : Nat, reverted : BOOLEAN]
    BY DEF NoTransfer
<1>5. Types
    <2>1. requests \in Seq(Requests) /\ attempts \in Seq(Attempts) /\ sends \in Seq(Quantities)
        BY <1>1
    <2>2. stray \in SUBSET LatePosts /\ skewed \in BOOLEAN
        BY <1>1
    <2>3. shares \in Int /\ tokens \in Nat /\ owed \in Nat /\ lost \in Nat
        BY <1>1
    <2>4. transfer \in [request : Nat, reverted : BOOLEAN]
        BY <1>1, <1>4
    <2> QED BY <1>3, <2>1, <2>2, <2>3, <2>4 DEF Types
<1>6. AllSound /\ OncePerKey /\ OncePerBlock /\ Callers /\ Executor
    BY <1>1, <1>2 DEF AllSound, OncePerKey, OncePerBlock, Callers, Executor
<1>7. Watching
    BY <1>2, <1>3 DEF Watching
<1>8. Bounded
    <2>1. RecordedBlocks = {}
        BY <1>2 DEF RecordedBlocks
    <2>2. Cardinality(RecordedBlocks) = 0
        BY <2>1, FS_EmptySet
    <2> QED BY <1>2, <2>2, Numbers DEF Bounded
<1>9. SupplyIsConstant
    <2> DEFINE B == {b \in DOMAIN sends : ~\E i \in DOMAIN requests :
                        requests[i].tx = b /\ requests[i].status = "completed"}
               f == [b \in B |-> sends[b]]
    <2>1. B = {}
        BY <1>2
    <2>2. DOMAIN f = {}
        BY <2>1
    <2>3. Redeeming = SumFunction(f)
        BY DEF Redeeming
    <2> HIDE DEF f
    <2>4. Redeeming = 0
        BY <2>2, <2>3, SumUnfolds DEF SumFunction
    <2> QED BY <1>1, <2>4 DEF SupplyIsConstant, Supply, Moving
<1> QED BY <1>5, <1>6, <1>7, <1>8, <1>9 DEF Inv

LEMMA NextInv == Inv /\ [Next]_vars => Inv'
<1> SUFFICES ASSUME Inv, [Next]_vars PROVE Inv'
    OBVIOUS
<1>1. /\ Types /\ AllSound /\ OncePerKey /\ OncePerBlock /\ Callers /\ Executor
      /\ Watching /\ Bounded /\ SupplyIsConstant
    BY DEF Inv
<1>2. Types' /\ AllSound' /\ Callers'
    BY <1>1, TypesStep, SoundStep, CallersStep
<1>3. OncePerKey' /\ OncePerBlock'
    BY <1>1, RequestsStep, OnceStep
<1>4. Executor' /\ Watching' /\ Bounded'
    BY <1>1, ExecutorStep, WatchingStep, BoundedStep
<1>5. SupplyIsConstant'
    BY <1>1, <1>2, SupplyStep
<1> QED BY <1>2, <1>3, <1>4, <1>5 DEF Inv

LEMMA SpecInv == Spec => []Inv
BY InitInv, NextInv, PTL DEF Spec

(* A set whose members are all equal has at most one. *)
LEMMA AtMostOne == ASSUME NEW S, \A i, j \in S : i = j PROVE Cardinality(S) <= 1
<1>1. CASE S = {}
    BY <1>1, FS_EmptySet
<1>2. CASE S # {}
    <2>1. PICK x : S = {x}
        BY <1>2
    <2> QED BY <2>1, FS_Singleton
<1> QED BY <1>1, <1>2

(* Whatever was resent, lost or late, the tokenizer holds at most one mint    *)
(* under an issuer request id (register_mint, find_unique_mint_request), for   *)
(* any keys, bodies, networks and bounds.                                     *)
THEOREM OneRequestPerKeyHolds == Spec => []OneRequestPerKey
<1>1. Inv => OneRequestPerKey
    <2> SUFFICES ASSUME Inv, NEW k \in Keys PROVE Cardinality(Mints(k)) <= 1
        BY DEF OneRequestPerKey
    <2>1. \A i, j \in Mints(k) : i = j
        BY DEF Inv, OncePerKey, Mints
    <2> QED BY <2>1, AtMostOne
<1> QED BY <1>1, SpecInv, PTL

(* What a mint's caller is told is true: not_applied means that no request   *)
(* was or will be made of it (outcome, is_definitive_mint_rejection), and the *)
(* request of an applied or recovered mint is its own (confirm_network,       *)
(* find_unique_mint_request).                                                 *)
THEOREM NotAppliedMintsNothingHolds == Spec => []NotAppliedMintsNothing
<1>1. Inv => NotAppliedMintsNothing
    <2> SUFFICES ASSUME Inv PROVE NotAppliedMintsNothing
        OBVIOUS
    <2>1. Types /\ AllSound /\ Callers /\ Executor /\ Bounded
        BY DEF Inv
    <2>2. NothingMintedUnlessTold /\ HeldIsOwn
        BY <2>1 DEF NothingMintedUnlessTold, HeldIsOwn, Callers
    <2>3. Len(requests) \in 0..(MaxRequests + MaxSends)
        <3>1. DOMAIN sends = 1..Len(sends) /\ Len(sends) \in Nat /\ Len(requests) \in Nat
            BY <2>1 DEF Types
        <3> DEFINE D == 1..Len(sends)
        <3>2. IsFiniteSet(D) /\ Cardinality(D) = Len(sends)
            <4>1. 1 \in Int /\ Len(sends) \in Int
                BY <3>1
            <4>2. Cardinality(D) = IF 1 > Len(sends) THEN 0 ELSE Len(sends) - 1 + 1
                BY <4>1, FS_Interval
            <4>3. IsFiniteSet(D)
                BY <4>1, FS_Interval
            <4> QED BY <3>1, <4>2, <4>3
        <3>3. RecordedBlocks \subseteq D
            BY <3>1 DEF RecordedBlocks
        <3> HIDE DEF D
        <3>4. IsFiniteSet(RecordedBlocks) /\ Cardinality(RecordedBlocks) <= Cardinality(D)
            BY <3>2, <3>3, FS_Subset
        <3>5. Cardinality(RecordedBlocks) \in Nat
            BY <3>4, FS_CardinalityType
        <3>6. /\ Len(requests) <= MaxRequests + Cardinality(RecordedBlocks)
              /\ Len(sends) <= MaxSends
            BY <2>1 DEF Bounded
        <3> QED BY <3>1, <3>2, <3>4, <3>5, <3>6, Numbers
    <2>4. \A i \in DOMAIN requests :
             /\ requests[i].status \in {"pending", "completed", "rejected", "failed"}
             /\ requests[i].polls \in 0..Until
             /\ requests[i].executing => requests[i].kind = "mint"
        BY <2>1, RequestTypes, Numbers DEF Statuses, AllSound, Sound
    <2>5. \A a \in DOMAIN attempts :
             attempts[a].told \in {"applied", "not_applied", "unknown", "recovered"}
        <3>1. \A a \in DOMAIN attempts : attempts[a] \in Attempts
            BY <2>1 DEF Types
        <3> QED BY <3>1 DEF Attempts
    <2>6. TypeOK
        BY <2>1, <2>3, <2>4, <2>5 DEF TypeOK, Types, Executor
    <2> QED BY <2>2, <2>6 DEF NotAppliedMintsNothing
<1> QED BY <1>1, SpecInv, PTL

(* Shares and tokens differ by no more than the transfers the executor does   *)
(* not know it made, as long as no position adjustment failed and no test     *)
(* completed a redemption that was injected or completed before; and every    *)
(* block the watcher has passed is recorded exactly once: the mock's executor *)
(* and watcher tasks, polls and set_request_status in every interleaving.     *)
THEOREM TotalsConservedHolds == Spec => []TotalsConserved
<1>1. Inv => TotalsConserved
    <2> SUFFICES ASSUME Inv, NEW b \in DOMAIN sends
                 PROVE  /\ Cardinality({i \in DOMAIN requests : requests[i].tx = b}) <= 1
                        /\ b <= watcher.last => Recorded(b)
        BY DEF Inv, TotalsConserved, RedemptionRecordedOnce
    <2>1. Types /\ AllSound /\ OncePerBlock /\ Watching
        BY DEF Inv
    <2>2. b # 0
        <3>1. DOMAIN sends = 1..Len(sends) /\ Len(sends) \in Nat
            BY <2>1 DEF Types
        <3> QED BY <3>1
    <2> DEFINE S == {i \in DOMAIN requests : requests[i].tx = b}
    <2>3. \A i \in S : requests[i].kind = "redeem"
        BY <2>1, <2>2, RequestTypes DEF AllSound, Sound, NoTx
    <2>4. \A i, j \in S : i = j
        BY <2>1, <2>2, <2>3 DEF OncePerBlock, NoTx
    <2> HIDE DEF S
    <2>5. Cardinality(S) <= 1
        BY <2>4, AtMostOne
    <2>6. b <= watcher.last => Recorded(b)
        BY <2>1 DEF Watching
    <2> QED BY <2>5, <2>6 DEF S
<1> QED BY <1>1, SpecInv, PTL
=============================================================================
