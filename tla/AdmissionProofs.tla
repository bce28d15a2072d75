--------------------------- MODULE AdmissionProofs ---------------------------
(***************************************************************************)
(* Proofs about Admission, for any requests, margins, budget and delays:   *)
(* the verifier's keys never go back, a request is refused only for a      *)
(* reason, and the budget holds over any window. The second part has the   *)
(* proofs about TokenCache, the credential the gateway itself presents.    *)
(***************************************************************************)
EXTENDS Admission, TokenCache, Sequences, Sums

Stages == {"none", "lookup", "refresh", "floor", "fetching", "served", "last look",
           "admit", "budget", "done"}
Answers == {"none", "unauthenticated", "unknown_operation", "forbidden", "unavailable",
            "unknown key", "invalid", "admitted", "capability_disabled", "backpressure"}

Request == [stage : Stages, kid : 0..MaxKey, cost : {0, 1}, reason : BOOLEAN, at : Nat,
            cold : BOOLEAN, keys : SUBSET Keys, flying : BOOLEAN, answer : Answers]

TypeOK ==
    /\ tier \in {"bot", "read", "write"} /\ now \in 0..MaxNow
    /\ published \in [Keys -> Nat \cup {-1}]
    /\ keys \in [set : SUBSET Keys, expires_at : Nat \cup {-1}]
    /\ last_refresh_attempt \in Nat \cup {-1}
    /\ fetch_lost \in BOOLEAN /\ shutdown \in BOOLEAN
    /\ budget \in [started : Nat \cup {-1}, used : Nat]
    /\ passed \in [0..MaxNow -> Nat]
    /\ req \in [Requests -> Request]

-----------------------------------------------------------------------------
(* The invariant of the signing keys *)

Out == {k \in Keys : published[k] >= 0}
Older(k) == \E j \in Keys : j > k + 1 /\ published[j] >= 0
InFloor == last_refresh_attempt >= 0 /\ now - last_refresh_attempt < REFRESH_FLOOR

\* A fetch of keys is on its way.
Flying(q) == q.stage \in {"fetching", "served"}
NoneFlying == \A r \in Requests : ~Flying(req[r])

\* What a key set lacks was published since the last attempt, or is retired.
Complete(set) ==
    \A k \in Out : k \in set \/ Older(k) \/ published[k] >= last_refresh_attempt

\* A fetch is the last attempt, within its timeout, and what it was served is
\* not behind the keys there are.
FlightOk(q) ==
    /\ q.at = last_refresh_attempt /\ last_refresh_attempt >= 0
    /\ now - last_refresh_attempt <= FetchTimeout
    /\ q.stage = "served" =>
          /\ q.keys \subseteq Out
          /\ \A k \in keys.set : \E j \in q.keys : j >= k
          /\ Complete(q.keys)

\* What a request on its way to a refusal knows.
RefusalOk(q) ==
    /\ q.kid > 0 => published[q.kid] >= 0
    /\ q.stage = "last look" /\ q.kid > 0 => InFloor \/ q.kid \in keys.set \/ Older(q.kid)
    /\ q.stage = "done" /\ q.answer = "unknown key" /\ q.kid > 0 /\ ~q.flying =>
          \/ Older(q.kid)
          \/ /\ InFloor /\ NoneFlying
             /\ fetch_lost \/ published[q.kid] >= last_refresh_attempt
    /\ q.stage \in {"floor", "fetching", "served"} /\ Cold => q.cold
    /\ q.stage = "done" /\ q.answer = "unavailable" => shutdown \/ q.cold

KeyInv ==
    /\ last_refresh_attempt <= now /\ keys.set \subseteq Out
    /\ \A r, q \in Requests : Flying(req[r]) /\ Flying(req[q]) => r = q
    /\ \A r \in Requests : Flying(req[r]) => FlightOk(req[r])
    /\ NoneFlying /\ last_refresh_attempt >= 0 /\ ~fetch_lost => Complete(keys.set)
    /\ \A r \in Requests : RefusalOk(req[r])

-----------------------------------------------------------------------------
(* The invariant of the budget *)

\* Units let through from a tick on.
Since == [a \in Int |-> PassedIn(a, now)]

\* The units a window that started at s is charged with: passes are counted
\* into the window of a reading up to LockDelay old, so those of the window
\* before it end LockDelay after its start, and those of the one before that
\* a WINDOW earlier.
Charged(since, s, used) ==
    /\ since[s] >= used
    /\ \A a \in Int :
          /\ a >= s + WINDOW + LockDelay => since[a] = 0
          /\ a >= s + LockDelay => since[a] <= used
          /\ a >= s - WINDOW + LockDelay => since[a] <= used + PerMinute

WindowInv ==
    /\ budget.started <= now /\ budget.used <= PerMinute
    /\ budget.started < 0 => budget.used = 0 /\ \A t \in 0..MaxNow : passed[t] = 0
    /\ \A t \in 0..MaxNow : t > now => passed[t] = 0
    /\ budget.started >= 0 => Charged(Since, budget.started, budget.used)

\* A reading of the clock is not older than the lock's delay.
ReadingOk(q) ==
    /\ q.stage = "budget" => q.cost = 1 /\ q.at <= now /\ now <= q.at + LockDelay
    /\ q.answer # "none" => q.stage = "done"

BudgetInv == WindowInv /\ BudgetHolds /\ \A r \in Requests : ReadingOk(req[r])


-----------------------------------------------------------------------------
(* Numbers and types *)

LEMMA ConstantTypes ==
    /\ JWKS_TTL \in Nat /\ REFRESH_FLOOR \in Nat /\ FetchTimeout \in Nat /\ WINDOW \in Nat
    /\ PerMinute \in Nat /\ LockDelay \in Nat /\ MaxKey \in Nat /\ MaxNow \in Nat
    /\ FetchTimeout < REFRESH_FLOOR /\ LockDelay < WINDOW
BY AdmissionAssumption

(* A set of keys that is not empty has a largest and a smallest member. *)
LEMMA KeysOrdered ==
    ASSUME NEW S \in SUBSET Nat, NEW n \in Nat, S \subseteq 0..n, S # {}
    PROVE  /\ Max(S) \in S /\ \A x \in S : x <= Max(S)
           /\ Min(S) \in S /\ \A x \in S : Min(S) <= x
<1>1. \A x \in S : x \in Nat /\ x <= n
    OBVIOUS
<1>2. IsFiniteSet(S)
    <2>1. IsFiniteSet(0..n)
        BY FS_Interval
    <2> QED BY <2>1, FS_Subset
<1>3. PICK m \in S : \A x \in S : x <= m
    BY <1>1, <1>2, HasLargest
<1>4. Max(S) \in S /\ \A x \in S : x <= Max(S)
    <2>1. \E x \in S : \A y \in S : x >= y
        BY <1>1, <1>3
    <2>2. Max(S) \in S /\ \A y \in S : Max(S) >= y
        BY <2>1 DEF Max
    <2> QED BY <1>1, <2>2
<1> DEFINE R == {n - x : x \in S}
<1>5. R \in SUBSET Nat /\ \A x \in R : x \in Nat /\ x <= n
    BY <1>1
<1>6. IsFiniteSet(R)
    <2> HIDE DEF R
    <2> QED BY <1>5, FS_BoundedSetOfNaturals
<1>7. R # {}
    OBVIOUS
<1>8. PICK m2 \in R : \A x \in R : x <= m2
    <2> HIDE DEF R
    <2> QED BY <1>5, <1>6, <1>7, HasLargest
<1>9. PICK l \in S : m2 = n - l
    BY <1>8
<1>10. ASSUME NEW x \in S PROVE l <= x
    <2>1. n - x \in R
        OBVIOUS
    <2>2. n - x <= n - l
        BY <1>8, <1>9, <2>1
    <2> QED BY <1>1, <1>9, <2>2
<1>11. Min(S) \in S /\ \A x \in S : Min(S) <= x
    BY <1>10 DEF Min
<1> QED BY <1>4, <1>11

(* Google's next key is one not published yet. *)
LEMMA RotatePublishes ==
    ASSUME TypeOK, Rotate
    PROVE  \E m \in Keys : /\ published[m] < 0
                           /\ published' = [published EXCEPT ![m] = now]
<1> DEFINE S == {k \in Keys : published[k] < 0}
<1>1. S # {}
    <2>1. SUFFICES ASSUME S = {} PROVE FALSE
        OBVIOUS
    <2>2. \A k \in Keys : published[k] \in Nat \cup {-1}
        BY DEF TypeOK
    <2>3. {k \in Keys : published[k] >= 0} = Keys
        BY <2>1, <2>2
    <2>4. Cardinality(1..MaxKey) = MaxKey
        BY ConstantTypes, FS_Interval
    <2>5. Cardinality({k \in Keys : published[k] >= 0}) = MaxKey
        BY <2>3, <2>4 DEF Keys
    <2>6. Cardinality({k \in Keys : published[k] >= 0}) < MaxKey
        BY DEF Rotate
    <2> QED BY <2>5, <2>6, ConstantTypes
<1>2. S \in SUBSET Nat /\ S \subseteq 0..MaxKey
    BY ConstantTypes DEF Keys
<1>3. Min(S) \in S
    <2> HIDE DEF S
    <2> QED BY <1>1, <1>2, ConstantTypes, KeysOrdered
<1>4. published' = [published EXCEPT ![Min(S)] = now]
    BY DEF Rotate
<1> HIDE DEF S
<1>5. Min(S) \in Keys /\ published[Min(S)] < 0
    BY <1>3 DEF S
<1> QED BY <1>4, <1>5

LEMMA RequestKept ==
    ASSUME NEW f \in [Requests -> Request], NEW r \in Requests, NEW q \in Request
    PROVE  [f EXCEPT ![r] = q] \in [Requests -> Request]
OBVIOUS

LEMMA IdleType == Idle \in Request
BY ConstantTypes DEF Idle, Request, Stages, Answers

(* The step of one request keeps the types of the requests. *)
LEMMA RequestsTyped ==
    ASSUME TypeOK, NEW r \in Requests,
           \/ ArriveBot(r) \/ ArriveHuman(r) \/ Lookup(r) \/ Recheck(r) \/ Attempt(r)
           \/ KeysServed(r) \/ KeysStored(r) \/ FetchFails(r) \/ CallerGone(r) \/ LastLook(r)
                   \/ Admit(r)
           \/ Disabled(r) \/ Take(r) \/ Return(r)
    PROVE  /\ req' \in [Requests -> Request]
           /\ \A q \in Requests : q # r => req'[q] = req[q]
<1>0. req \in [Requests -> Request] /\ req[r] \in Request /\ now \in Nat
    BY ConstantTypes DEF TypeOK
<1>1. ASSUME NEW s \in Stages, Go(r, s)
      PROVE  req' \in [Requests -> Request]
    BY <1>0, <1>1 DEF Go, Request
<1>2. ASSUME NEW a \in Answers, Finish(r, a)
      PROVE  req' \in [Requests -> Request]
    BY <1>0, <1>2 DEF Finish, Request, Stages
<1>3. CASE ArriveBot(r)
    <2>1. CASE Finish(r, "unauthenticated")
        BY <1>0, <1>2, <2>1 DEF Answers, Finish
    <2>2. ASSUME NEW kid \in 0..MaxKey,
                 req' = [req EXCEPT ![r].stage = "lookup", ![r].kid = kid]
          PROVE  /\ req' \in [Requests -> Request]
                 /\ \A q \in Requests : q # r => req'[q] = req[q]
        BY <1>0, <2>2 DEF Request, Stages
    <2>3. {0} \cup Keys \subseteq 0..MaxKey
        BY ConstantTypes DEF Keys
    <2> QED BY <1>3, <2>1, <2>2, <2>3 DEF ArriveBot
<1>4. CASE ArriveHuman(r)
    <2>1. CASE Finish(r, "unknown_operation")
        BY <1>0, <1>2, <2>1 DEF Answers, Finish
    <2>2. ASSUME NEW c \in {0, 1}, NEW reason \in BOOLEAN,
                 req' = [req EXCEPT ![r].stage = "admit", ![r].cost = c, ![r].reason = reason]
          PROVE  /\ req' \in [Requests -> Request]
                 /\ \A q \in Requests : q # r => req'[q] = req[q]
        BY <1>0, <2>2 DEF Request, Stages
    <2> QED BY <1>4, <2>1, <2>2 DEF ArriveHuman, cost
<1>5. ASSUME Decode(r)
      PROVE  /\ req' \in [Requests -> Request]
             /\ \A q \in Requests : q # r => req'[q] = req[q]
    BY <1>0, <1>1, <1>2, <1>5 DEF Decode, Stages, Answers, Go, Finish
<1>6. CASE Lookup(r)
    BY <1>0, <1>1, <1>5, <1>6 DEF Lookup, Stages, Go
<1>7. CASE Recheck(r)
    <2>1. PICK s \in Stages, b \in BOOLEAN : req' = [req EXCEPT ![r].stage = s, ![r].cold = b]
        BY <1>7 DEF Recheck, Stages, Cold
    <2> QED BY <1>0, <2>1 DEF Request
<1>8. CASE Attempt(r)
    <2>1. CASE floor_passed
        <3>1. req' = [req EXCEPT ![r].stage = "fetching", ![r].at = now]
            BY <1>8, <2>1 DEF Attempt
        <3> QED BY <1>0, <3>1 DEF Request, Stages
    <2>2. CASE ~floor_passed
        BY <1>0, <1>1, <1>2, <1>8, <2>2 DEF Attempt, Stages, Answers, Go, Finish
    <2> QED BY <2>1, <2>2
<1>9. CASE KeysServed(r)
    <2>1. PublishedNow \in SUBSET Keys
        BY DEF PublishedNow
    <2> QED BY <1>0, <1>9, <2>1 DEF KeysServed, Request, Stages
<1>10. CASE KeysStored(r)
    BY <1>0, <1>1, <1>10 DEF KeysStored, Stages, Go
<1>11. CASE FetchFails(r)
    BY <1>0, <1>1, <1>2, <1>11 DEF FetchFails, Stages, Answers, Go, Finish
<1>17. CASE CallerGone(r)
    BY <1>0, <1>17, IdleType DEF CallerGone
<1>12. CASE LastLook(r)
    <2>1. CASE cached_key(req[r].kid, TRUE)
        BY <1>5, <1>12, <2>1 DEF LastLook
    <2>2. CASE ~cached_key(req[r].kid, TRUE)
        <3> DEFINE b == \E q \in Requests : req[q].stage \in {"fetching", "served"}
        <3>1. b \in BOOLEAN
            OBVIOUS
        <3>2. req' = [req EXCEPT ![r].stage = "done", ![r].answer = "unknown key",
                                 ![r].flying = b]
            BY <1>12, <2>2 DEF LastLook
        <3> HIDE DEF b
        <3> QED BY <1>0, <3>1, <3>2 DEF Request, Stages, Answers
    <2> QED BY <2>1, <2>2
<1>13. CASE Admit(r)
    <2>1. CASE req' = [req EXCEPT ![r].stage = "budget", ![r].at = now]
        BY <1>0, <2>1 DEF Request, Stages
    <2> QED BY <1>0, <1>2, <1>13, <2>1 DEF Admit, Answers, Finish
<1>14. CASE Disabled(r)
    BY <1>0, <1>2, <1>14 DEF Disabled, Answers, Finish
<1>15. CASE Take(r)
    BY <1>0, <1>2, <1>15 DEF Take, Answers, Finish
<1>16. CASE Return(r)
    BY <1>0, <1>16, IdleType DEF Return
<1> QED BY <1>3, <1>4, <1>6, <1>7, <1>8, <1>9, <1>10, <1>11, <1>12, <1>13, <1>14, <1>15, <1>16,
           <1>17

LEMMA TypeStep == TypeOK /\ [Next]_vars => TypeOK'
<1> SUFFICES ASSUME TypeOK, [Next]_vars PROVE TypeOK'
    OBVIOUS
<1>0. now \in Nat /\ now \in 0..MaxNow
    BY ConstantTypes DEF TypeOK
<1>1. ASSUME NEW r \in Requests,
             \/ ArriveBot(r) \/ ArriveHuman(r) \/ Lookup(r) \/ Recheck(r) \/ Attempt(r)
             \/ KeysServed(r) \/ KeysStored(r) \/ FetchFails(r) \/ CallerGone(r)
                     \/ LastLook(r) \/ Admit(r)
             \/ Disabled(r) \/ Take(r) \/ Return(r)
      PROVE  TypeOK'
    <2>1. req' \in [Requests -> Request]
        BY <1>1, RequestsTyped
    <2>2. UNCHANGED rest
        BY <1>1 DEF ArriveBot, ArriveHuman, Lookup, Recheck, Attempt, KeysServed, KeysStored,
                    FetchFails, CallerGone, LastLook, Admit, Disabled, Take, Return
    <2>3. last_refresh_attempt' \in Nat \cup {-1} /\ fetch_lost' \in BOOLEAN
        BY <1>0, <1>1 DEF ArriveBot, ArriveHuman, Lookup, Recheck, Attempt, KeysServed,
               KeysStored, FetchFails, CallerGone, LastLook, Admit, Disabled, Take, Return, caches, TypeOK
    <2>4. keys' \in [set : SUBSET Keys, expires_at : Nat \cup {-1}]
        <3>1. CASE KeysStored(r)
            <4>1. req[r].keys \in SUBSET Keys /\ now + JWKS_TTL \in Nat
                BY <1>0, ConstantTypes DEF TypeOK, Request
            <4> QED BY <3>1, <4>1 DEF KeysStored
        <3>2. CASE ~KeysStored(r)
            BY <1>1, <3>2 DEF ArriveBot, ArriveHuman, Lookup, Recheck, Attempt, KeysServed,
                   FetchFails, CallerGone, LastLook, Admit, Disabled, Take, Return, caches, TypeOK
        <3> QED BY <3>1, <3>2
    <2>5. /\ budget' \in [started : Nat \cup {-1}, used : Nat]
          /\ passed' \in [0..MaxNow -> Nat]
        <3>1. CASE Take(r)
            <4> DEFINE w == window_at(req[r].at)
            <4>1. PICK c \in Nat : c = req[r].cost
                BY DEF TypeOK, Request
            <4>2. w \in [started : Nat \cup {-1}, used : Nat]
                <5>1. req[r].at \in Nat
                    BY DEF TypeOK, Request
                <5> QED BY <5>1 DEF window_at, TypeOK
            <4>3. \/ budget' = w /\ UNCHANGED passed
                  \/ /\ budget' = [w EXCEPT !.used = @ + c]
                     /\ passed' = [passed EXCEPT ![now] = @ + c]
                BY <3>1, <4>1 DEF Take
            <4> HIDE DEF w
            <4>4. [w EXCEPT !.used = @ + c] \in [started : Nat \cup {-1}, used : Nat]
                BY <4>1, <4>2
            <4>5. passed \in [0..MaxNow -> Nat] /\ passed[now] + c \in Nat
                BY <1>0, <4>1 DEF TypeOK
            <4>6. [passed EXCEPT ![now] = @ + c] \in [0..MaxNow -> Nat]
                BY <4>5
            <4> QED BY <4>2, <4>3, <4>4, <4>5, <4>6
        <3>2. CASE ~Take(r)
            BY <1>1, <3>2 DEF ArriveBot, ArriveHuman, Lookup, Recheck, Attempt, KeysServed,
                   KeysStored, FetchFails, CallerGone, LastLook, Admit, Disabled, Return, TypeOK
        <3> QED BY <3>1, <3>2
    <2> QED BY <2>1, <2>2, <2>3, <2>4, <2>5 DEF TypeOK, rest
<1>2. CASE Rotate
    <2>1. PICK m \in Keys : published' = [published EXCEPT ![m] = now]
        BY <1>2, RotatePublishes
    <2>2. published' \in [Keys -> Nat \cup {-1}]
        BY <1>0, <2>1 DEF TypeOK
    <2> QED BY <1>2, <2>2 DEF Rotate, caches, TypeOK
<1>3. CASE Shutdown
    BY <1>3 DEF Shutdown, caches, TypeOK
<1>4. CASE Tick
    <2>1. now' \in 0..MaxNow
        BY <1>0, <1>4, ConstantTypes DEF Tick
    <2> QED BY <1>4, <2>1 DEF Tick, caches, TypeOK
<1>5. CASE UNCHANGED vars
    BY <1>5 DEF vars, TypeOK
<1> QED BY <1>1, <1>2, <1>3, <1>4, <1>5 DEF Next

-----------------------------------------------------------------------------
(* The signing keys *)

(* Key facts survive when keys are published: a published key stays as it is. *)
LEMMA OlderStays ==
    ASSUME NEW k, Older(k), \A j \in Keys : published[j] >= 0 => published'[j] = published[j]
    PROVE  Older(k)'
BY DEF Older

(* A step of one request that is not about a fetch. *)
LEMMA QuietStep ==
    ASSUME TypeOK, KeyInv, NEW r \in Requests, req' \in [Requests -> Request],
           UNCHANGED <<now, published, keys, last_refresh_attempt, fetch_lost, shutdown>>,
           \A q \in Requests : q # r => req'[q] = req[q],
           ~Flying(req[r]), ~Flying(req'[r]), RefusalOk(req'[r])
    PROVE  KeyInv'
<1>1. /\ Out' = Out /\ InFloor' = InFloor /\ Cold' = Cold
      /\ \A k : Older(k)' = Older(k)
      /\ \A S : Complete(S)' = Complete(S)
    BY DEF Out, InFloor, Cold, Older, Complete
<1>2. \A q \in Requests : Flying(req'[q]) => Flying(req[q]) /\ req'[q] = req[q]
    OBVIOUS
<1>3. NoneFlying' = NoneFlying
    BY DEF NoneFlying, Flying
<1>4. \A q : FlightOk(q) => FlightOk(q)'
    BY <1>1 DEF FlightOk
<1>5. \A q : RefusalOk(q) => RefusalOk(q)'
    BY <1>1, <1>3 DEF RefusalOk
<1> QED BY <1>1, <1>2, <1>3, <1>4, <1>5 DEF KeyInv

(* The route, the looks, the deployment's checks and the budget. *)
LEMMA QuietActions ==
    ASSUME TypeOK, KeyInv, NEW r \in Requests,
           \/ ArriveBot(r) \/ ArriveHuman(r) \/ Lookup(r) \/ Recheck(r) \/ LastLook(r)
           \/ Admit(r) \/ Disabled(r) \/ Take(r) \/ Return(r)
           \/ Attempt(r) /\ ~floor_passed
    PROVE  KeyInv'
<1>0. /\ req \in [Requests -> Request] /\ req[r] \in Request /\ RefusalOk(req[r])
      /\ now \in Nat /\ last_refresh_attempt \in Int
    BY ConstantTypes DEF TypeOK, KeyInv
<1>1. /\ req' \in [Requests -> Request]
      /\ \A q \in Requests : q # r => req'[q] = req[q]
    BY RequestsTyped
<1>2. UNCHANGED <<now, published, keys, last_refresh_attempt, fetch_lost, shutdown>>
    BY DEF ArriveBot, ArriveHuman, Lookup, Recheck, LastLook, Admit, Disabled, Take, Return,
           Attempt, rest, caches
<1>3. ~Flying(req[r])
    BY <1>0 DEF ArriveBot, ArriveHuman, Lookup, Recheck, LastLook, Admit, Disabled, Take,
           Return, Attempt, Flying
<1> DEFINE Goes(q) == ~Flying(q) /\ RefusalOk(q)
<1>4. ASSUME NEW a \in Answers, Finish(r, a), a # "unknown key",
             a = "unavailable" => shutdown \/ req[r].cold
      PROVE  Goes(req'[r])
    <2>1. PICK q \in Request : q = req'[r]
        BY <1>1
    <2>2. q.kid = req[r].kid /\ q.cold = req[r].cold /\ q.stage = "done" /\ q.answer = a
        BY <1>0, <1>4, <2>1 DEF Finish, Request
    <2> QED BY <1>0, <1>4, <2>1, <2>2 DEF RefusalOk, Flying
<1>5. ASSUME NEW s \in {"refresh", "admit", "last look"}, Go(r, s),
             s = "last look" => InFloor
      PROVE  Goes(req'[r])
    <2>1. PICK q \in Request : q = req'[r]
        BY <1>1
    <2>2. q.kid = req[r].kid /\ q.stage = s
        BY <1>0, <1>5, <2>1 DEF Go, Request
    <2> QED BY <1>0, <1>5, <2>1, <2>2 DEF RefusalOk, Flying
<1>6. ASSUME Decode(r) PROVE Goes(req'[r])
    BY <1>4, <1>5, <1>6 DEF Decode, Answers
<1>17. SUFFICES Goes(req'[r])
    BY <1>1, <1>2, <1>3, QuietStep
<1>7. CASE ArriveBot(r)
    <2>1. CASE Finish(r, "unauthenticated")
        BY <1>4, <2>1 DEF Answers
    <2>2. ASSUME NEW kid \in {0} \cup {k \in Keys : published[k] >= 0},
                 req' = [req EXCEPT ![r].stage = "lookup", ![r].kid = kid]
          PROVE  Goes(req'[r])
        <3>1. PICK q : q = req'[r]
            OBVIOUS
        <3>2. q.stage = "lookup" /\ q.kid = kid
            BY <1>0, <2>2, <3>1 DEF Request
        <3> QED BY <3>1, <3>2 DEF RefusalOk, Flying
    <2> QED BY <1>7, <2>1, <2>2 DEF ArriveBot
<1>8. CASE ArriveHuman(r)
    <2>1. CASE Finish(r, "unknown_operation")
        BY <1>4, <2>1 DEF Answers
    <2>2. ASSUME NEW c, NEW b,
                 req' = [req EXCEPT ![r].stage = "admit", ![r].cost = c, ![r].reason = b]
          PROVE  Goes(req'[r])
        <3>1. PICK q : q = req'[r]
            OBVIOUS
        <3>2. q.stage = "admit" /\ q.kid = req[r].kid
            BY <1>0, <2>2, <3>1 DEF Request
        <3> QED BY <1>0, <3>1, <3>2 DEF RefusalOk, Flying
    <2> QED BY <1>8, <2>1, <2>2 DEF ArriveHuman
<1>9. CASE Lookup(r)
    BY <1>5, <1>6, <1>9 DEF Lookup
<1>10. CASE Recheck(r)
    <2>1. PICK q : q = req'[r]
        OBVIOUS
    <2>2. /\ q.stage = IF cached_key(req[r].kid, FALSE) THEN "last look" ELSE "floor"
          /\ q.kid = req[r].kid /\ q.cold = Cold
        BY <1>0, <1>10, <2>1 DEF Recheck, Request
    <2>3. cached_key(req[r].kid, FALSE) => req[r].kid \in keys.set
        BY DEF cached_key
    <2> QED BY <1>0, <2>1, <2>2, <2>3 DEF RefusalOk, Flying
<1>11. CASE LastLook(r)
    <2>1. CASE cached_key(req[r].kid, TRUE)
        BY <1>6, <1>11, <2>1 DEF LastLook
    <2>2. CASE ~cached_key(req[r].kid, TRUE)
        <3> DEFINE b == \E p \in Requests : req[p].stage \in {"fetching", "served"}
        <3>0. req' = [req EXCEPT ![r].stage = "done", ![r].answer = "unknown key",
                                 ![r].flying = b]
            BY <1>11, <2>2 DEF LastLook
        <3>1. PICK q : q = req'[r]
            OBVIOUS
        <3>2. q.stage = "done" /\ q.answer = "unknown key" /\ q.kid = req[r].kid /\ q.flying = b
            <4> HIDE DEF b
            <4> QED BY <1>0, <3>0, <3>1 DEF Request
        <3>3. req[r].stage = "last look" /\ req[r].kid \notin keys.set
            BY <1>11, <2>2 DEF LastLook, cached_key
        <3>4. ~q.flying => NoneFlying
            BY <3>2 DEF NoneFlying, Flying
        <3>5. ASSUME q.kid > 0, ~q.flying
              PROVE  \/ Older(q.kid)
                     \/ /\ InFloor /\ NoneFlying
                        /\ fetch_lost \/ published[q.kid] >= last_refresh_attempt
            <4>1. InFloor \/ Older(q.kid)
                BY <1>0, <3>2, <3>3, <3>5 DEF RefusalOk
            <4>2. q.kid \in Out /\ q.kid \notin keys.set
                <5>1. q.kid \in 0..MaxKey
                    BY <1>0, <3>2 DEF Request
                <5>2. q.kid \in Keys
                    BY <5>1, <3>5, ConstantTypes DEF Keys
                <5> QED BY <1>0, <3>2, <3>3, <3>5, <5>2 DEF RefusalOk, Out
            <4>3. NoneFlying /\ last_refresh_attempt >= 0 /\ ~fetch_lost => Complete(keys.set)
                BY DEF KeyInv
            <4>4. InFloor => last_refresh_attempt >= 0
                BY DEF InFloor
            <4> QED BY <3>4, <3>5, <4>1, <4>2, <4>3, <4>4 DEF Complete
        <3>6. q.kid > 0 => published[q.kid] >= 0
            BY <1>0, <3>2 DEF RefusalOk
        <3> QED BY <3>1, <3>2, <3>5, <3>6 DEF RefusalOk, Flying
    <2> QED BY <2>1, <2>2
<1>12. CASE Admit(r)
    <2>1. CASE req' = [req EXCEPT ![r].stage = "budget", ![r].at = now]
        <3>1. PICK q : q = req'[r]
            OBVIOUS
        <3>2. q.stage = "budget" /\ q.kid = req[r].kid
            BY <1>0, <2>1, <3>1 DEF Request
        <3> QED BY <1>0, <3>1, <3>2 DEF RefusalOk, Flying
    <2> QED BY <1>4, <1>12, <2>1 DEF Admit, Answers
<1>13. CASE Disabled(r)
    BY <1>4, <1>13 DEF Disabled, Answers
<1>14. CASE Take(r)
    BY <1>4, <1>14 DEF Take, Answers
<1>15. CASE Return(r)
    <2>1. req'[r] = Idle
        BY <1>0, <1>15 DEF Return
    <2> QED BY <2>1 DEF RefusalOk, Flying, Idle
<1>16. CASE Attempt(r) /\ ~floor_passed
    <2>1. InFloor
        BY <1>0, <1>16, ConstantTypes DEF floor_passed, InFloor
    <2> QED BY <1>4, <1>5, <1>16, <2>1 DEF Attempt, Answers
<1> QED BY <1>7, <1>8, <1>9, <1>10, <1>11, <1>12, <1>13, <1>14, <1>15, <1>16

(* An attempt is made only when no other can be on its way. *)
LEMMA AttemptStep ==
    ASSUME TypeOK, KeyInv, NEW r \in Requests, Attempt(r), floor_passed
    PROVE  KeyInv'
<1>0. /\ req \in [Requests -> Request] /\ req[r] \in Request /\ RefusalOk(req[r])
      /\ now \in Nat /\ last_refresh_attempt \in Int
    BY ConstantTypes DEF TypeOK, KeyInv
<1>1. /\ req' = [req EXCEPT ![r].stage = "fetching", ![r].at = now]
      /\ last_refresh_attempt' = now
      /\ UNCHANGED <<now, published, keys, fetch_lost, shutdown>>
    BY DEF Attempt, rest
<1>2. NoneFlying
    <2>1. SUFFICES ASSUME NEW q \in Requests, Flying(req[q]) PROVE FALSE
        BY DEF NoneFlying
    <2>2. FlightOk(req[q])
        BY <2>1 DEF KeyInv
    <2> QED BY <1>0, <2>2, ConstantTypes DEF FlightOk, floor_passed
<1>3. ~InFloor
    BY <1>0, ConstantTypes DEF InFloor, floor_passed
<1>4. PICK p \in Request : p = req'[r]
    <2>1. req' \in [Requests -> Request]
        BY RequestsTyped
    <2> QED BY <2>1
<1>5. /\ p.stage = "fetching" /\ p.at = now /\ p.kid = req[r].kid /\ p.cold = req[r].cold
      /\ \A q \in Requests : q # r => req'[q] = req[q]
    BY <1>0, <1>1, <1>4 DEF Request
<1>6. /\ Out' = Out /\ Cold' = Cold /\ \A k : Older(k)' = Older(k)
    BY <1>1 DEF Out, Cold, Older
<1>7. InFloor'
    BY <1>0, <1>1, ConstantTypes DEF InFloor
<1>8. \A q \in Requests : Flying(req'[q]) => q = r
    BY <1>2, <1>5 DEF NoneFlying
<1>9. ~NoneFlying'
    BY <1>4, <1>5 DEF NoneFlying, Flying
<1>10. ASSUME NEW q, RefusalOk(q), q.stage # "fetching" PROVE RefusalOk(q)'
    BY <1>1, <1>3, <1>6, <1>7, <1>10 DEF RefusalOk
<1>11. \A b : b = p => RefusalOk(b)'
    <2>1. Attempt(r) => req[r].stage = "floor"
        BY DEF Attempt
    <2> QED BY <1>0, <1>1, <1>5, <1>6, <2>1 DEF RefusalOk
<1>12. \A b : b = p => FlightOk(b)'
    BY <1>0, <1>1, <1>5, ConstantTypes DEF FlightOk
<1>13. \A q \in Requests : q # r => req[q].stage # "fetching"
    BY <1>2 DEF NoneFlying, Flying
<1>14. \A q \in Requests : RefusalOk(req[q])'
    BY <1>4, <1>5, <1>10, <1>11, <1>13 DEF KeyInv
<1>15. \A q \in Requests : Flying(req'[q]) => FlightOk(req[q])'
    BY <1>4, <1>8, <1>12
<1>16. last_refresh_attempt' <= now' /\ keys'.set \subseteq Out'
    BY <1>0, <1>1, <1>6 DEF KeyInv
<1> QED BY <1>8, <1>9, <1>14, <1>15, <1>16 DEF KeyInv, Flying

(* Google's answer has the newest key, and lacks only retired ones. *)
LEMMA ServedIsComplete ==
    ASSUME TypeOK
    PROVE  /\ PublishedNow \subseteq Out
           /\ \A k \in Out : \E j \in PublishedNow : j >= k
           /\ \A k \in Out : k \in PublishedNow \/ Older(k)
<1>1. CASE Out = {}
    BY <1>1 DEF PublishedNow, Out
<1>2. CASE Out # {}
    <2>1. Out \in SUBSET Nat /\ Out \subseteq 0..MaxKey
        BY ConstantTypes DEF Out, Keys
    <2>2. Max(Out) \in Out /\ \A x \in Out : x <= Max(Out)
        BY <1>2, <2>1, ConstantTypes, KeysOrdered
    <2>3. PublishedNow = {k \in Out : k >= Max(Out) - 1}
        BY <1>2 DEF PublishedNow, Out
    <2>4. PICK m \in Nat : m = Max(Out) /\ m \in Out
        BY <2>1, <2>2
    <2>5. m \in PublishedNow
        BY <2>3, <2>4
    <2>6. \A k \in Out : m >= k
        BY <2>1, <2>2, <2>4
    <2>7. ASSUME NEW k \in Out, k \notin PublishedNow PROVE Older(k)
        <3>1. m > k + 1
            BY <2>1, <2>3, <2>4, <2>7
        <3>2. m \in Keys /\ published[m] >= 0
            BY <2>4 DEF Out
        <3> QED BY <3>1, <3>2 DEF Older
    <2> QED BY <2>3, <2>5, <2>6, <2>7
<1> QED BY <1>1, <1>2

LEMMA ServedStep ==
    ASSUME TypeOK, KeyInv, NEW r \in Requests, KeysServed(r)
    PROVE  KeyInv'
<1>0. /\ req \in [Requests -> Request] /\ req[r] \in Request /\ RefusalOk(req[r])
      /\ req[r].stage = "fetching" /\ FlightOk(req[r])
    BY DEF TypeOK, KeyInv, KeysServed, Flying
<1>1. /\ req' = [req EXCEPT ![r].stage = "served", ![r].keys = PublishedNow]
      /\ UNCHANGED <<now, published, keys, last_refresh_attempt, fetch_lost, shutdown>>
    BY DEF KeysServed, rest, caches
<1>2. PICK p : p = req'[r]
    OBVIOUS
<1>3. /\ p.stage = "served" /\ p.keys = PublishedNow /\ p.at = req[r].at
      /\ p.kid = req[r].kid /\ p.cold = req[r].cold
      /\ \A q \in Requests : q # r => req'[q] = req[q]
    BY <1>0, <1>1, <1>2 DEF Request
<1>4. /\ Out' = Out /\ InFloor' = InFloor /\ Cold' = Cold
      /\ \A k : Older(k)' = Older(k)
      /\ \A S : Complete(S)' = Complete(S)
    BY <1>1 DEF Out, InFloor, Cold, Older, Complete
<1>5. ~NoneFlying /\ ~NoneFlying'
    BY <1>0, <1>2, <1>3 DEF NoneFlying, Flying
<1>6. \A q : RefusalOk(q) => RefusalOk(q)'
    BY <1>1, <1>4, <1>5 DEF RefusalOk
<1>7. \A q : FlightOk(q) => FlightOk(q)'
    BY <1>1, <1>4 DEF FlightOk
<1>8. \A b : b = p => FlightOk(b)' /\ RefusalOk(b)'
    <2>1. Complete(PublishedNow)
        BY ServedIsComplete DEF Complete
    <2>2. keys.set \subseteq Out
        BY DEF KeyInv
    <2>3. \A k \in keys.set : \E j \in PublishedNow : j >= k
        BY <2>2, ServedIsComplete
    <2>4. \A b : b = p => RefusalOk(b)'
        BY <1>0, <1>1, <1>3, <1>4 DEF RefusalOk
    <2>5. \A b : b = p => FlightOk(b)'
        BY <1>0, <1>1, <1>3, <1>4, <2>1, <2>3, ServedIsComplete DEF FlightOk
    <2> QED BY <2>4, <2>5
<1>9. \A q \in Requests : Flying(req'[q]) => Flying(req[q])
    BY <1>0, <1>3 DEF Flying
<1>10. \A q \in Requests : RefusalOk(req[q])'
    BY <1>2, <1>3, <1>6, <1>8 DEF KeyInv
<1>11. \A q \in Requests : Flying(req'[q]) => FlightOk(req[q])'
    BY <1>2, <1>3, <1>7, <1>8, <1>9 DEF KeyInv
<1> QED BY <1>1, <1>4, <1>5, <1>9, <1>10, <1>11 DEF KeyInv

(* The answer that is stored is the last attempt's and not behind the keys. *)
LEMMA StoredStep ==
    ASSUME TypeOK, KeyInv, NEW r \in Requests, KeysStored(r)
    PROVE  KeyInv'
<1>0. /\ req \in [Requests -> Request] /\ req[r] \in Request /\ RefusalOk(req[r])
      /\ req[r].stage = "served" /\ FlightOk(req[r]) /\ Flying(req[r])
      /\ now \in Nat /\ last_refresh_attempt \in Int
    <2>1. req[r].stage = "served" /\ Flying(req[r])
        BY DEF KeysStored, Flying
    <2> QED BY <2>1, ConstantTypes DEF TypeOK, KeyInv
<1>1. /\ req' = [req EXCEPT ![r].stage = "last look"]
      /\ keys' = [set |-> req[r].keys, expires_at |-> now + JWKS_TTL]
      /\ fetch_lost' = FALSE
      /\ UNCHANGED <<now, published, last_refresh_attempt, shutdown>>
    BY DEF KeysStored, rest, Go
<1>2. PICK p : p = req'[r]
    OBVIOUS
<1>3. /\ p.stage = "last look" /\ p.kid = req[r].kid
      /\ \A q \in Requests : q # r => req'[q] = req[q]
    BY <1>0, <1>1, <1>2 DEF Request
<1>4. /\ Out' = Out /\ InFloor' = InFloor /\ \A k : Older(k)' = Older(k)
      /\ \A S : Complete(S)' = Complete(S)
    BY <1>1 DEF Out, InFloor, Older, Complete
<1>5. InFloor /\ last_refresh_attempt >= 0
    BY <1>0, ConstantTypes DEF InFloor, FlightOk
<1>6. \A q \in Requests : q # r => ~Flying(req[q])
    BY <1>0 DEF KeyInv
<1>7. \A q \in Requests : ~Flying(req'[q])
    BY <1>2, <1>3, <1>6 DEF Flying
<1>8. ~Cold'
    <2>0. PICK e \in Nat : e = now + JWKS_TTL
        BY <1>0, ConstantTypes
    <2>1. keys'.expires_at = e
        BY <1>1, <2>0
    <2>2. keys'.expires_at \in Int /\ keys'.expires_at # -1
        BY <2>1
    <2>3. NoKeys.expires_at = -1
        BY DEF NoKeys
    <2>4. keys' # NoKeys
        BY <2>2, <2>3
    <2> QED BY <2>4 DEF Cold, NoKeys
<1>9. keys'.set = req[r].keys /\ req[r].keys \subseteq Out /\ Complete(req[r].keys)
    BY <1>0, <1>1 DEF FlightOk
<1>10. ~NoneFlying
    BY <1>0 DEF NoneFlying
<1>11. ASSUME NEW q, RefusalOk(q) PROVE RefusalOk(q)'
    <2>1. q.stage = "last look" => InFloor'
        BY <1>4, <1>5
    <2> QED BY <1>1, <1>4, <1>8, <1>10, <1>11, <2>1 DEF RefusalOk
<1>12. \A b : b = p => RefusalOk(b)'
    BY <1>0, <1>1, <1>3, <1>4, <1>5 DEF RefusalOk
<1>13. \A q \in Requests : RefusalOk(req[q])'
    BY <1>2, <1>3, <1>11, <1>12 DEF KeyInv
<1>14. Complete(keys.set)' /\ keys'.set \subseteq Out'
    BY <1>4, <1>9
<1>15. last_refresh_attempt' <= now'
    BY <1>1 DEF KeyInv
<1> QED BY <1>7, <1>13, <1>14, <1>15 DEF KeyInv

LEMMA FailsStep ==
    ASSUME TypeOK, KeyInv, NEW r \in Requests, FetchFails(r)
    PROVE  KeyInv'
<1>0. /\ req \in [Requests -> Request] /\ req[r] \in Request /\ RefusalOk(req[r])
      /\ req[r].stage \in {"fetching", "served"} /\ FlightOk(req[r]) /\ Flying(req[r])
      /\ now \in Nat /\ last_refresh_attempt \in Int
    <2>1. req[r].stage \in {"fetching", "served"} /\ Flying(req[r])
        BY DEF FetchFails, Flying
    <2> QED BY <2>1, ConstantTypes DEF TypeOK, KeyInv
<1>1. /\ fetch_lost' = TRUE
      /\ UNCHANGED <<now, published, keys, last_refresh_attempt, shutdown>>
      /\ IF Cold THEN req' = [req EXCEPT ![r].stage = "done", ![r].answer = "unavailable"]
         ELSE req' = [req EXCEPT ![r].stage = "last look"]
    BY DEF FetchFails, rest, Go, Finish
<1>2. PICK p : p = req'[r]
    OBVIOUS
<1>3. /\ p.kid = req[r].kid /\ p.cold = req[r].cold
      /\ \/ p.stage = "last look"
         \/ p.stage = "done" /\ p.answer = "unavailable" /\ Cold
      /\ \A q \in Requests : q # r => req'[q] = req[q]
    <2>1. CASE Cold
        <3>1. req' = [req EXCEPT ![r].stage = "done", ![r].answer = "unavailable"]
            BY <1>1, <2>1
        <3> QED BY <1>0, <1>2, <2>1, <3>1 DEF Request
    <2>2. CASE ~Cold
        BY <1>0, <1>1, <1>2, <2>2 DEF Request
    <2> QED BY <2>1, <2>2
<1>4. /\ Out' = Out /\ InFloor' = InFloor /\ Cold' = Cold /\ \A k : Older(k)' = Older(k)
    BY <1>1 DEF Out, InFloor, Older, Cold
<1>5. InFloor
    BY <1>0, ConstantTypes DEF InFloor, FlightOk
<1>6. \A q \in Requests : q # r => ~Flying(req[q])
    BY <1>0 DEF KeyInv
<1>7. \A q \in Requests : ~Flying(req'[q])
    BY <1>2, <1>3, <1>6 DEF Flying
<1>8. ~NoneFlying
    BY <1>0 DEF NoneFlying
<1>9. ASSUME NEW q, RefusalOk(q) PROVE RefusalOk(q)'
    BY <1>1, <1>4, <1>8, <1>9 DEF RefusalOk
<1>10. \A b : b = p => RefusalOk(b)'
    BY <1>0, <1>1, <1>3, <1>4, <1>5 DEF RefusalOk
<1>11. \A q \in Requests : RefusalOk(req[q])'
    BY <1>2, <1>3, <1>9, <1>10 DEF KeyInv
<1>12. last_refresh_attempt' <= now' /\ keys'.set \subseteq Out'
    BY <1>1, <1>4 DEF KeyInv
<1> QED BY <1>1, <1>7, <1>11, <1>12 DEF KeyInv

(* A caller that goes away takes its fetch along. *)
LEMMA GoneStep ==
    ASSUME TypeOK, KeyInv, NEW r \in Requests, CallerGone(r)
    PROVE  KeyInv'
<1>0. /\ req \in [Requests -> Request] /\ now \in Nat /\ last_refresh_attempt \in Int
      /\ UNCHANGED <<now, published, keys, last_refresh_attempt, shutdown>>
      /\ req' = [req EXCEPT ![r] = Idle]
      /\ IF Flying(req[r]) THEN fetch_lost' = TRUE ELSE fetch_lost' = fetch_lost
    <2>1. req \in [Requests -> Request] /\ now \in Nat /\ last_refresh_attempt \in Int
        BY ConstantTypes DEF TypeOK
    <2>2. /\ UNCHANGED <<now, published, keys, last_refresh_attempt, shutdown>>
          /\ req' = [req EXCEPT ![r] = Idle]
        BY DEF CallerGone, rest
    <2>3. IF Flying(req[r]) THEN fetch_lost' = TRUE ELSE fetch_lost' = fetch_lost
        BY DEF CallerGone, Flying
    <2> QED BY <2>1, <2>2, <2>3
<1>1. /\ Out' = Out /\ InFloor' = InFloor /\ Cold' = Cold
      /\ \A k : Older(k)' = Older(k)
      /\ \A S : Complete(S)' = Complete(S)
    BY <1>0 DEF Out, InFloor, Cold, Older, Complete
<1>2. ~Flying(Idle) /\ RefusalOk(Idle)'
    <2>1. Idle.stage = "none" /\ Idle.kid = 0
        BY DEF Idle
    <2> QED BY <2>1 DEF Flying, RefusalOk
<1>3. /\ req'[r] = Idle
      /\ \A q \in Requests : q # r => req'[q] = req[q]
    BY <1>0
<1>4. \A q \in Requests : Flying(req'[q]) => Flying(req[q]) /\ req'[q] = req[q]
    BY <1>2, <1>3
<1>5. \A q : FlightOk(q) => FlightOk(q)'
    BY <1>0, <1>1 DEF FlightOk
<1>6. NoneFlying => NoneFlying'
    <2>1. SUFFICES ASSUME NoneFlying, NEW q \in Requests PROVE ~Flying(req'[q])
        BY DEF NoneFlying, Flying
    <2> QED BY <1>4, <2>1 DEF NoneFlying
<1>7. ASSUME NEW q, RefusalOk(q) PROVE RefusalOk(q)'
    <2>1. UNCHANGED <<now, published, keys, last_refresh_attempt, shutdown>>
        BY <1>0
    <2>2. /\ q.kid > 0 => published'[q.kid] >= 0
          /\ q.stage = "last look" /\ q.kid > 0 => InFloor' \/ q.kid \in keys'.set \/ Older(q.kid)'
        BY <1>1, <1>7, <2>1 DEF RefusalOk
    <2>3. /\ q.stage \in {"floor", "fetching", "served"} /\ Cold' => q.cold
          /\ q.stage = "done" /\ q.answer = "unavailable" => shutdown' \/ q.cold
        BY <1>1, <1>7, <2>1 DEF RefusalOk
    <2>4. ASSUME q.stage = "done", q.answer = "unknown key", q.kid > 0, ~q.flying, ~Older(q.kid)
          PROVE  /\ InFloor' /\ NoneFlying'
                 /\ fetch_lost' \/ published'[q.kid] >= last_refresh_attempt'
        <3>1. /\ InFloor /\ NoneFlying
              /\ fetch_lost \/ published[q.kid] >= last_refresh_attempt
            BY <1>7, <2>4 DEF RefusalOk
        <3>2. InFloor' /\ NoneFlying' /\ (fetch_lost => fetch_lost')
            BY <1>0, <1>1, <1>6, <3>1
        <3> QED BY <2>1, <3>1, <3>2
    <2>5. Older(q.kid)' = Older(q.kid)
        BY <1>1
    <2> QED BY <2>2, <2>3, <2>4, <2>5 DEF RefusalOk
<1>8. \A q \in Requests : RefusalOk(req[q])'
    <2>1. SUFFICES ASSUME NEW q \in Requests PROVE RefusalOk(req[q])'
        OBVIOUS
    <2>2. CASE q = r
        <3>1. \A b : b = Idle => RefusalOk(b)'
            BY <1>2
        <3> QED BY <1>3, <2>2, <3>1
    <2>3. CASE q # r
        <3>1. \A b : b = req[q] => RefusalOk(b)'
            BY <1>7 DEF KeyInv
        <3> QED BY <1>3, <2>3, <3>1
    <2> QED BY <2>2, <2>3
<1>9. NoneFlying' /\ ~fetch_lost' => NoneFlying /\ ~fetch_lost
    <2>1. SUFFICES ASSUME NoneFlying', ~fetch_lost' PROVE NoneFlying /\ ~fetch_lost
        OBVIOUS
    <2>2. ~Flying(req[r]) /\ ~fetch_lost
        BY <1>0, <2>1
    <2>3. \A q \in Requests : ~Flying(req'[q])
        BY <2>1 DEF NoneFlying, Flying
    <2>4. \A q \in Requests : ~Flying(req[q])
        BY <1>3, <2>2, <2>3
    <2> QED BY <2>2, <2>4 DEF NoneFlying
<1> QED BY <1>0, <1>1, <1>4, <1>5, <1>8, <1>9 DEF KeyInv

LEMMA RotateStep ==
    ASSUME TypeOK, KeyInv, Rotate
    PROVE  KeyInv'
<1>0. UNCHANGED <<now, keys, last_refresh_attempt, fetch_lost, shutdown, req>>
    BY DEF Rotate, caches
<1>1. PICK m \in Keys : published[m] < 0 /\ published' = [published EXCEPT ![m] = now]
    BY RotatePublishes
<1>2. published \in [Keys -> Nat \cup {-1}] /\ now \in Nat /\ last_refresh_attempt \in Int
    BY ConstantTypes DEF TypeOK
<1>3. \A k \in Keys : published[k] >= 0 => published'[k] = published[k]
    BY <1>1, <1>2
<1>4. \A k \in Keys : published'[k] >= 0 =>
          published[k] >= 0 \/ published'[k] >= last_refresh_attempt
    BY <1>1, <1>2 DEF KeyInv
<1>5. Out \subseteq Out'
    BY <1>3 DEF Out
<1>6. \A k : Older(k) => Older(k)'
    BY <1>3 DEF Older
<1>7. \A S : Complete(S) => Complete(S)'
    BY <1>0, <1>3, <1>4, <1>6 DEF Complete, Out
<1>8. NoneFlying' = NoneFlying /\ InFloor' = InFloor /\ Cold' = Cold
    BY <1>0 DEF NoneFlying, InFloor, Cold
<1>9. \A q : FlightOk(q) => FlightOk(q)'
    BY <1>0, <1>5, <1>7 DEF FlightOk
<1>10. ASSUME NEW q \in Request, RefusalOk(q) PROVE RefusalOk(q)'
    <2>1. q.kid \in 0..MaxKey
        BY DEF Request
    <2>2. q.kid > 0 => q.kid \in Keys
        BY <2>1, ConstantTypes DEF Keys
    <2>3. q.kid > 0 => published'[q.kid] = published[q.kid]
        BY <1>3, <1>10, <2>2 DEF RefusalOk
    <2> QED BY <1>0, <1>6, <1>8, <1>10, <2>3 DEF RefusalOk
<1>11. \A r \in Requests : req[r] \in Request
    BY DEF TypeOK
<1> QED BY <1>0, <1>5, <1>7, <1>8, <1>9, <1>10, <1>11 DEF KeyInv

LEMMA ShutdownStep ==
    ASSUME TypeOK, KeyInv, Shutdown
    PROVE  KeyInv'
<1>0. UNCHANGED <<now, published, keys, last_refresh_attempt, fetch_lost, req>> /\ shutdown'
    BY DEF Shutdown, caches
<1>1. /\ Out' = Out /\ InFloor' = InFloor /\ Cold' = Cold /\ NoneFlying' = NoneFlying
      /\ \A k : Older(k)' = Older(k)
      /\ \A S : Complete(S)' = Complete(S)
    BY <1>0 DEF Out, InFloor, Cold, Older, Complete, NoneFlying
<1>2. \A q : FlightOk(q) => FlightOk(q)'
    BY <1>0, <1>1 DEF FlightOk
<1>3. \A q : RefusalOk(q) => RefusalOk(q)'
    BY <1>0, <1>1 DEF RefusalOk
<1> QED BY <1>0, <1>1, <1>2, <1>3 DEF KeyInv

(* Time passes only while no request is between a look and its answer. *)
LEMMA TickStep ==
    ASSUME TypeOK, KeyInv, Tick
    PROVE  KeyInv'
<1>0. /\ UNCHANGED <<published, keys, last_refresh_attempt, fetch_lost, req, shutdown>>
      /\ now' = now + 1 /\ now \in Nat /\ last_refresh_attempt \in Int
      /\ \A r \in Requests : req[r] \in Request
    BY ConstantTypes DEF Tick, caches, TypeOK
<1>1. /\ Out' = Out /\ Cold' = Cold /\ NoneFlying' = NoneFlying
      /\ \A k : Older(k)' = Older(k)
      /\ \A S : Complete(S)' = Complete(S)
    BY <1>0 DEF Out, Cold, Older, Complete, NoneFlying
<1>2. ASSUME NEW r \in Requests PROVE RefusalOk(req[r])'
    <2>1. req[r].stage \in {"none", "fetching", "served", "budget"}
        BY DEF Tick
    <2>2. PICK p : p = req[r]
        OBVIOUS
    <2>3. RefusalOk(p)
        BY <2>2 DEF KeyInv
    <2> QED BY <1>0, <1>1, <2>1, <2>2, <2>3 DEF RefusalOk
<1>3. ASSUME NEW r \in Requests, Flying(req[r]) PROVE FlightOk(req[r])'
    <2>1. PICK p : p = req[r]
        OBVIOUS
    <2>2. FlightOk(p)
        BY <1>3, <2>1 DEF KeyInv
    <2>3. now - p.at < FetchTimeout
        BY <1>3, <2>1 DEF Tick, Flying
    <2> QED BY <1>0, <1>1, <2>1, <2>2, <2>3, ConstantTypes DEF FlightOk
<1>4. \A q : Flying(q)' = Flying(q)
    BY DEF Flying
<1>5. last_refresh_attempt' <= now'
    BY <1>0 DEF KeyInv
<1> QED BY <1>0, <1>1, <1>2, <1>3, <1>5 DEF KeyInv, Flying

LEMMA KeyStep == TypeOK /\ KeyInv /\ [Next]_vars => KeyInv'
<1> SUFFICES ASSUME TypeOK, KeyInv, [Next]_vars PROVE KeyInv'
    OBVIOUS
<1>1. ASSUME NEW r \in Requests, Attempt(r) PROVE KeyInv'
    BY <1>1, AttemptStep, QuietActions
<1>2. CASE UNCHANGED vars
    <2>1. /\ Out' = Out /\ InFloor' = InFloor /\ Cold' = Cold /\ NoneFlying' = NoneFlying
          /\ \A k : Older(k)' = Older(k)
          /\ \A S : Complete(S)' = Complete(S)
        BY <1>2 DEF vars, Out, InFloor, Cold, Older, Complete, NoneFlying
    <2>2. \A q : FlightOk(q) => FlightOk(q)'
        BY <1>2, <2>1 DEF vars, FlightOk
    <2>3. \A q : RefusalOk(q) => RefusalOk(q)'
        BY <1>2, <2>1 DEF vars, RefusalOk
    <2> QED BY <1>2, <2>1, <2>2, <2>3 DEF vars, KeyInv
<1> QED BY <1>1, <1>2, QuietActions, ServedStep, StoredStep, FailsStep, GoneStep, RotateStep,
           ShutdownStep, TickStep DEF Next

LEMMA KeyInit == Init => TypeOK /\ KeyInv
<1> SUFFICES ASSUME Init PROVE TypeOK /\ KeyInv
    OBVIOUS
<1>1. /\ req = [r \in Requests |-> Idle] /\ now = 0 /\ keys = NoKeys
      /\ last_refresh_attempt = -1 /\ keys.set = {}
    BY DEF Init, NoKeys
<1>2. TypeOK
    <2>1. published \in [Keys -> Nat \cup {-1}] /\ passed \in [0..MaxNow -> Nat]
        BY DEF Init
    <2>2. now \in 0..MaxNow
        BY <1>1, ConstantTypes
    <2>3. req \in [Requests -> Request]
        BY <1>1, IdleType
    <2> QED BY <2>1, <2>2, <2>3 DEF Init, TypeOK, NoKeys
<1>3. \A r \in Requests : ~Flying(req[r]) /\ RefusalOk(req[r])
    <2>1. Idle.stage = "none" /\ Idle.kid = 0
        BY DEF Idle
    <2>2. ~Flying(Idle) /\ RefusalOk(Idle)
        BY <2>1 DEF Flying, RefusalOk
    <2> QED BY <1>1, <2>2
<1> QED BY <1>1, <1>2, <1>3 DEF KeyInv

(* The verifier's keys never lose the newest one: refresh writes what it      *)
(* fetched without looking at what is there, and only the floor keeps an      *)
(* older answer from being written last; for any requests, floor and timeout  *)
(* of a fetch shorter than it.                                                *)
THEOREM KeysNeverGoBackHolds == Spec => KeysNeverGoBack
<1>1. TypeOK /\ KeyInv /\ [Next]_vars
          => [keys.set # {} => Max(keys'.set \cup {0}) >= Max(keys.set)]_vars
    <2> SUFFICES ASSUME TypeOK, KeyInv, [Next]_vars, keys.set # {}
                 PROVE  Max(keys'.set \cup {0}) >= Max(keys.set)
        OBVIOUS
    <2>0. keys.set \in SUBSET Nat /\ keys.set \subseteq 0..MaxKey
        BY ConstantTypes DEF TypeOK, Keys
    <2>1. Max(keys.set) \in keys.set /\ Max(keys.set) \in Nat
        BY <2>0, ConstantTypes, KeysOrdered
    <2>2. \E j \in keys'.set : j >= Max(keys.set)
        <3>1. CASE \E r \in Requests : KeysStored(r)
            <4>1. PICK r \in Requests : KeysStored(r)
                BY <3>1
            <4>2. req[r].stage = "served" /\ keys'.set = req[r].keys
                BY <4>1 DEF KeysStored
            <4>3. FlightOk(req[r])
                BY <4>2 DEF KeyInv, Flying
            <4> QED BY <2>1, <4>2, <4>3 DEF FlightOk
        <3>2. CASE ~\E r \in Requests : KeysStored(r)
            <4>1. keys' = keys
                BY <3>2 DEF Next, vars, ArriveBot, ArriveHuman, Lookup, Recheck, Attempt,
                    KeysServed, FetchFails, CallerGone, LastLook, Admit, Disabled, Take, Return, Rotate,
                    Shutdown, Tick, caches
            <4> QED BY <2>1, <4>1
        <3> QED BY <3>1, <3>2
    <2>3. /\ keys'.set \cup {0} \in SUBSET Nat /\ keys'.set \cup {0} \subseteq 0..MaxKey
          /\ keys'.set \cup {0} # {}
        <3>1. TypeOK'
            BY TypeStep
        <3>2. keys'.set \subseteq Keys
            BY <3>1 DEF TypeOK, Keys
        <3> QED BY <3>2, ConstantTypes DEF Keys
    <2>4. PICK S \in SUBSET Nat : S = keys'.set \cup {0} /\ S \subseteq 0..MaxKey /\ S # {}
        BY <2>3
    <2>5. Max(S) \in S /\ \A x \in S : x <= Max(S)
        BY <2>4, ConstantTypes, KeysOrdered
    <2>6. PICK j \in S : j >= Max(keys.set)
        BY <2>2, <2>4
    <2>7. Max(S) >= Max(keys.set)
        <3>1. j \in Nat /\ Max(S) \in Nat /\ j <= Max(S)
            BY <2>4, <2>5
        <3> QED BY <2>1, <2>6, <3>1
    <2> QED BY <2>4, <2>7
<1> QED BY <1>1, KeyInit, TypeStep, KeyStep, PTL DEF Spec, KeysNeverGoBack

(* A token signed with a key of Google's is refused as unknown only while the *)
(* key is being fetched, within the floor of the key's publication, once it   *)
(* has been retired, or within the floor of an attempt that brought no keys,  *)
(* because it failed or because its caller went away and the future was       *)
(* dropped with the attempt noted; and "unavailable" means that there were no *)
(* keys, or shutdown: decoding_key and refresh, for any interleaving of       *)
(* requests, departures, rotations and fetches.                               *)
THEOREM RefusedOnlyForAReasonHolds == Spec => []RefusedOnlyForAReason
<1>1. TypeOK /\ KeyInv => RefusedOnlyForAReason
    <2> SUFFICES ASSUME TypeOK, KeyInv, NEW r \in Requests, req[r].stage = "done"
                 PROVE  /\ req[r].answer = "unknown key" /\ req[r].kid > 0 =>
                              \/ req[r].flying \/ FloorOfLostFetch
                              \/ now < published[req[r].kid] + REFRESH_FLOOR
                              \/ \E k \in Keys : k > req[r].kid + 1 /\ published[k] >= 0
                        /\ req[r].answer = "unavailable" => shutdown \/ req[r].cold
        BY DEF RefusedOnlyForAReason
    <2>1. RefusalOk(req[r]) /\ req[r] \in Request
        BY DEF TypeOK, KeyInv
    <2>2. ASSUME req[r].kid > 0, InFloor, published[req[r].kid] >= last_refresh_attempt
          PROVE  now < published[req[r].kid] + REFRESH_FLOOR
        <3>1. req[r].kid \in 0..MaxKey
            BY <2>1 DEF Request
        <3>2. req[r].kid \in Keys
            BY <2>2, <3>1, ConstantTypes DEF Keys
        <3>3. published[req[r].kid] \in Int /\ now \in Int /\ last_refresh_attempt \in Int
            BY <3>2, ConstantTypes DEF TypeOK
        <3> QED BY <2>2, <3>3, ConstantTypes DEF InFloor
    <2> QED BY <2>1, <2>2 DEF RefusalOk, Older, FloorOfLostFetch, InFloor
<1> QED BY <1>1, KeyInit, TypeStep, KeyStep, PTL DEF Spec

-----------------------------------------------------------------------------
(* The budget *)

\* The units of f up to tick n that lie between a and b.
Ticks(n, a, b) == {t \in 0..n : a <= t /\ t <= b}
Units(f, n, a, b) == SumFunction([t \in Ticks(n, a, b) |-> f[t]])

\* Units by tick.
Counted(f, N) == f \in [0..N -> Nat]

LEMMA PassedIsUnits == \A a, b : PassedIn(a, b) = Units(passed, now, a, b)
BY DEF PassedIn, Units, Ticks

LEMMA UnitsAreASum ==
    ASSUME NEW N \in Nat, NEW f, Counted(f, N), NEW n \in 0..N, NEW a \in Int, NEW b \in Int
    PROVE  /\ IsFiniteSet(0..N) /\ f \in [0..N -> Int]
           /\ Ticks(n, a, b) \in SUBSET (0..N)
           /\ Units(f, n, a, b) = SumFunctionOnSet(f, Ticks(n, a, b))
           /\ Units(f, n, a, b) \in Nat
<1> DEFINE T == Ticks(n, a, b)
           g == [t \in T |-> f[t]]
<1>1. IsFiniteSet(0..N) /\ f \in [0..N -> Int]
    BY FS_Interval DEF Counted
<1>2. T \in SUBSET (0..N)
    BY DEF Ticks
<1> HIDE DEF T
<1>3. IsFiniteSet(T)
    BY <1>1, <1>2, FS_Subset
<1>4. SumFunctionOnSet(g, T) = SumFunctionOnSet(f, T)
    <2>1. \A t \in T : g[t] = f[t]
        OBVIOUS
    <2> HIDE DEF g
    <2> QED BY <1>3, <2>1, SumAgree
<1>5. SumFunction(g) = SumFunctionOnSet(g, T)
    BY DEF SumFunction
<1>6. SumFunctionOnSet(f, T) \in Int /\ SumFunctionOnSet(f, T) >= 0
    <2>1. \A x \in T : f[x] >= 0
        BY <1>2 DEF Counted
    <2> QED BY <1>1, <1>2, <2>1, SumType
<1> QED BY <1>1, <1>2, <1>4, <1>5, <1>6 DEF Units, T

(* More ticks have no fewer units. *)
LEMMA UnitsGrow ==
    ASSUME NEW N \in Nat, NEW f, Counted(f, N), NEW n \in 0..N,
           NEW a \in Int, NEW b \in Int, NEW c \in Int, c <= a
    PROVE  Units(f, n, a, b) <= Units(f, n, c, b)
<1> DEFINE S == Ticks(n, c, b)
           T == Ticks(n, a, b)
<1>1. T \in SUBSET S
    BY DEF Ticks
<1>2. /\ Units(f, n, a, b) = SumFunctionOnSet(f, T)
      /\ Units(f, n, c, b) = SumFunctionOnSet(f, S)
    BY UnitsAreASum
<1>3. IsFiniteSet(0..N) /\ f \in [0..N -> Int] /\ S \in SUBSET (0..N)
    BY UnitsAreASum
<1> HIDE DEF S, T
<1>4. \A x \in S : f[x] >= 0
    BY <1>3 DEF Counted
<1>5. SumFunctionOnSet(f, T) <= SumFunctionOnSet(f, S)
    BY <1>1, <1>3, <1>4, SumGrows, Zenon
<1> QED BY <1>2, <1>5

(* No ticks, or none with units. *)
LEMMA NoUnits ==
    ASSUME NEW N \in Nat, NEW f, Counted(f, N), NEW n \in 0..N,
           NEW a \in Int, NEW b \in Int, \A t \in 0..n : a <= t => f[t] = 0
    PROVE  Units(f, n, a, b) = 0
<1> DEFINE T == Ticks(n, a, b)
<1>1. /\ Units(f, n, a, b) = SumFunctionOnSet(f, T)
      /\ IsFiniteSet(0..N) /\ f \in [0..N -> Int] /\ T \in SUBSET (0..N)
    BY UnitsAreASum
<1>2. \A t \in T : f[t] = 0
    BY DEF Ticks
<1> HIDE DEF T
<1> QED BY <1>1, <1>2, SumType

(* Up to now is up to any later tick. *)
LEMMA UnitsToNow ==
    ASSUME NEW n \in Nat, NEW f, NEW a \in Int, NEW b \in Int, n <= b
    PROVE  Units(f, n, a, b) = Units(f, n, a, n)
<1>1. Ticks(n, a, b) = Ticks(n, a, n)
    BY DEF Ticks
<1> QED BY <1>1 DEF Units

LEMMA UnitsSkip ==
    ASSUME NEW N \in Nat, NEW f, Counted(f, N)
    PROVE  \A X \in SUBSET (0..N) : \A x \in X :
              f[x] = 0 => SumFunctionOnSet(f, X) = SumFunctionOnSet(f, X \ {x})
<1> DEFINE D == 0..N
<1>1. IsFiniteSet(D) /\ f \in [D -> Int]
    BY FS_Interval DEF Counted
<1> HIDE DEF D
<1>2. \A X \in SUBSET D : \A x \in X :
          f[x] = 0 => SumFunctionOnSet(f, X) = SumFunctionOnSet(f, X \ {x})
    BY <1>1, SumSkip
<1> QED BY <1>2 DEF D

(* A tick without units changes nothing. *)
LEMMA UnitsTick ==
    ASSUME NEW N \in Nat, NEW f, Counted(f, N), NEW n \in 0..N, n + 1 \in 0..N,
           NEW a \in Int, NEW b \in Int, f[n + 1] = 0
    PROVE  Units(f, n + 1, a, b) = Units(f, n, a, b)
<1> DEFINE S == Ticks(n + 1, a, b)
           T == Ticks(n, a, b)
           D == 0..N
<1>1. /\ Units(f, n, a, b) = SumFunctionOnSet(f, T)
      /\ Units(f, n + 1, a, b) = SumFunctionOnSet(f, S)
    BY UnitsAreASum
<1>2. IsFiniteSet(D) /\ f \in [D -> Int] /\ S \in SUBSET D /\ T \in SUBSET D
    BY UnitsAreASum
<1>3. S = T \/ (n + 1 \in S /\ S \ {n + 1} = T)
    <2>1. \A t \in Int : t \in 0..(n + 1) <=> t \in 0..n \/ t = n + 1
        OBVIOUS
    <2>2. n + 1 \notin 0..n
        OBVIOUS
    <2> QED BY <2>1, <2>2 DEF Ticks
<1> HIDE DEF S, T, D
<1>4. CASE n + 1 \in S /\ S \ {n + 1} = T
    <2>1. SumFunctionOnSet(f, S) = SumFunctionOnSet(f, S \ {n + 1})
        BY <1>2, <1>4, UnitsSkip DEF D
    <2> QED BY <1>1, <1>4, <2>1
<1> QED BY <1>1, <1>3, <1>4

\* g has c units more than f in tick n.
Adds(f, g, N, n, c) ==
    /\ Counted(f, N) /\ Counted(g, N)
    /\ g[n] = f[n] + c /\ \A t \in 0..N : t # n => g[t] = f[t]

(* A call let through counts in the intervals of its tick. *)
LEMMA UnitsPass ==
    ASSUME NEW N \in Nat, NEW n \in 0..N, NEW c \in Nat, NEW f, NEW g, Adds(f, g, N, n, c),
           NEW a \in Int, NEW b \in Int
    PROVE  /\ Units(g, n, a, b) \in Nat
           /\ Units(g, n, a, b) = Units(f, n, a, b) + (IF a <= n /\ n <= b THEN c ELSE 0)
<1> DEFINE T == Ticks(n, a, b)
           D == 0..N
<1>1. /\ Counted(f, N) /\ Counted(g, N)
      /\ g[n] = f[n] + c /\ \A t \in D : t # n => g[t] = f[t]
    BY DEF Adds
<1>2. /\ Units(f, n, a, b) = SumFunctionOnSet(f, T) /\ Units(f, n, a, b) \in Nat
      /\ Units(g, n, a, b) = SumFunctionOnSet(g, T) /\ Units(g, n, a, b) \in Nat
    BY <1>1, UnitsAreASum
<1>3. /\ IsFiniteSet(D) /\ f \in [D -> Int] /\ T \in SUBSET D
      /\ g \in [D -> Int]
    BY <1>1, UnitsAreASum
<1>4. a <= n /\ n <= b <=> n \in T
    BY DEF Ticks
<1>5. f[n] \in Int
    BY <1>1 DEF Counted
<1> HIDE DEF T, D
<1>6. \A x \in T \ {n} : g[x] = f[x]
    BY <1>1, <1>3
<1>7. /\ n \in T => SumFunctionOnSet(g, T) = SumFunctionOnSet(f, T) - f[n] + g[n]
      /\ n \notin T => SumFunctionOnSet(g, T) = SumFunctionOnSet(f, T)
    <2>1. \A X \in SUBSET D : \A k : (\A x \in X \ {k} : g[x] = f[x]) =>
              /\ k \in X => SumFunctionOnSet(g, X) = SumFunctionOnSet(f, X) - f[k] + g[k]
              /\ k \notin X => SumFunctionOnSet(g, X) = SumFunctionOnSet(f, X)
        BY <1>3, SumChange
    <2> QED BY <1>3, <1>6, <2>1, Zenon
<1>8. Units(g, n, a, b) = Units(f, n, a, b) + (IF a <= n /\ n <= b THEN c ELSE 0)
    BY <1>1, <1>2, <1>4, <1>5, <1>7
<1> QED BY <1>2, <1>8

(* The arithmetic of the windows. A window that is opened a WINDOW after the *)
(* last one sees of the units before only those of that one.                  *)
LEMMA OpenWindow ==
    ASSUME NEW P \in [Int -> Nat], NEW s \in Int, NEW u \in Nat, u <= PerMinute,
           NEW at \in Int, at - s >= WINDOW, Charged(P, s, u)
    PROVE  Charged(P, at, 0)
<1>0. WINDOW \in Nat /\ LockDelay \in Nat /\ PerMinute \in Nat
    BY ConstantTypes
<1>1. ASSUME NEW a \in Int
      PROVE  /\ P[a] \in Nat
             /\ a >= at + WINDOW + LockDelay => P[a] = 0
             /\ a >= at + LockDelay => P[a] <= 0
             /\ a >= at - WINDOW + LockDelay => P[a] <= 0 + PerMinute
    <2>1. /\ P[a] \in Nat
          /\ a >= s + WINDOW + LockDelay => P[a] = 0
          /\ a >= s + LockDelay => P[a] <= u
        BY DEF Charged
    <2> QED BY <1>0, <2>1
<1>2. P[at] >= 0
    BY <1>1
<1> QED BY <1>1, <1>2 DEF Charged

LEMMA FirstWindow ==
    ASSUME NEW P \in [Int -> Nat], \A a \in Int : P[a] = 0, NEW at \in Int
    PROVE  Charged(P, at, 0)
BY ConstantTypes DEF Charged

(* Units that are let through in tick n are charged to the current window. *)
LEMMA ChargeWindow ==
    ASSUME NEW P \in [Int -> Nat], NEW Q \in [Int -> Nat], NEW s \in Int, NEW u \in Nat,
           NEW n \in Int, NEW c \in Nat, s <= n, n < s + WINDOW + LockDelay, Charged(P, s, u),
           \A a \in Int : Q[a] = P[a] + (IF a <= n THEN c ELSE 0)
    PROVE  Charged(Q, s, u + c)
<1>0. WINDOW \in Nat /\ LockDelay \in Nat /\ PerMinute \in Nat
    BY ConstantTypes
<1>1. ASSUME NEW a \in Int
      PROVE  /\ a >= s + WINDOW + LockDelay => Q[a] = 0
             /\ a >= s + LockDelay => Q[a] <= u + c
             /\ a >= s - WINDOW + LockDelay => Q[a] <= u + c + PerMinute
    <2>1. /\ P[a] \in Nat /\ Q[a] \in Nat
          /\ Q[a] = P[a] + (IF a <= n THEN c ELSE 0)
          /\ a >= s + WINDOW + LockDelay => P[a] = 0
          /\ a >= s + LockDelay => P[a] <= u
          /\ a >= s - WINDOW + LockDelay => P[a] <= u + PerMinute
        BY DEF Charged
    <2> QED BY <1>0, <2>1
<1>2. Q[s] >= u + c
    <2>1. P[s] >= u /\ P[s] \in Nat /\ Q[s] = P[s] + c
        BY DEF Charged
    <2> QED BY <2>1
<1> QED BY <1>1, <1>2 DEF Charged

LEMMA SinceTypes ==
    ASSUME TypeOK
    PROVE  /\ Since \in [Int -> Nat]
           /\ \A a \in Int : Since[a] = Units(passed, now, a, now)
           /\ Counted(passed, MaxNow) /\ now \in 0..MaxNow /\ now \in Nat /\ MaxNow \in Nat
<1>1. /\ Counted(passed, MaxNow) /\ now \in 0..MaxNow /\ now \in Nat /\ MaxNow \in Nat
      /\ now \in Int
    BY ConstantTypes DEF TypeOK, Counted
<1>2. \A a \in Int : PassedIn(a, now) = Units(passed, now, a, now)
    BY PassedIsUnits
<1>3. \A a \in Int : Units(passed, now, a, now) \in Nat
    BY <1>1, UnitsAreASum
<1> QED BY <1>1, <1>2, <1>3 DEF Since

\* The two halves of BudgetHolds, in these terms.
SpanOk(f, n) ==
    \A t \in 0..n : Units(f, n, t, t + WINDOW - LockDelay - 1) <= 2 * PerMinute
Spent(f, n) == Units(f, n, n - WINDOW - LockDelay + 1, n) >= PerMinute

LEMMA BudgetInUnits ==
    BudgetHolds <=> /\ SpanOk(passed, now)
                    /\ \A r \in Requests : req[r].answer = "backpressure" => Spent(passed, now)
BY PassedIsUnits DEF BudgetHolds, SpanOk, Spent

(* The window a take at a reading of the clock is charged to. *)
LEMMA WindowAt ==
    ASSUME TypeOK, WindowInv, NEW at \in Nat, at <= now, now <= at + LockDelay
    PROVE  \E s \in Nat, u \in Nat :
              /\ window_at(at) = [started |-> s, used |-> u]
              /\ s <= now /\ now < s + WINDOW + LockDelay /\ u <= PerMinute
              /\ u > 0 => now - WINDOW - LockDelay + 1 <= s
              /\ Charged(Since, s, u)
<1>0. /\ now \in Nat /\ WINDOW \in Nat /\ LockDelay \in Nat
      /\ LockDelay < WINDOW /\ PerMinute \in Nat
    BY ConstantTypes DEF TypeOK
<1>1. /\ budget \in [started : Nat \cup {-1}, used : Nat]
      /\ budget.started \in Nat \cup {-1} /\ budget.used \in Nat
    BY DEF TypeOK
<1>2. now < at + WINDOW + LockDelay /\ at \in Int
    BY <1>0
<1>3. CASE budget.started < 0
    <2>1. window_at(at) = [started |-> at, used |-> 0]
        BY <1>3 DEF window_at
    <2>2. \A t \in 0..MaxNow : passed[t] = 0
        BY <1>3 DEF WindowInv
    <2>3. ASSUME NEW a \in Int PROVE Since[a] = 0
        <3>1. Since[a] = Units(passed, now, a, now) /\ Counted(passed, MaxNow)
              /\ now \in 0..MaxNow /\ MaxNow \in Nat /\ now \in Int
            BY <1>0, SinceTypes
        <3>2. \A t \in 0..now : a <= t => passed[t] = 0
            BY <2>2, <3>1
        <3> QED BY <3>1, <3>2, NoUnits
    <2>4. Charged(Since, at, 0)
        BY <1>2, <2>3, SinceTypes, FirstWindow
    <2> QED BY <1>0, <1>2, <2>1, <2>4
<1>4. CASE budget.started >= 0 /\ at - budget.started >= WINDOW
    <2>1. window_at(at) = [started |-> at, used |-> 0]
        BY <1>4 DEF window_at
    <2>2. Charged(Since, budget.started, budget.used) /\ budget.used <= PerMinute
        BY <1>4 DEF WindowInv
    <2>3. budget.started \in Int
        BY <1>1
    <2>4. Charged(Since, at, 0)
        BY <1>1, <1>2, <1>4, <2>2, <2>3, SinceTypes, OpenWindow
    <2> QED BY <1>0, <1>2, <2>1, <2>4
<1>5. CASE budget.started >= 0 /\ ~(at - budget.started >= WINDOW)
    <2>1. window_at(at) = budget
        BY <1>1, <1>5 DEF window_at
    <2>2. PICK s \in Nat, u \in Nat : s = budget.started /\ u = budget.used
        BY <1>1, <1>5
    <2>3. budget = [started |-> s, used |-> u]
        BY <1>1, <2>2
    <2>4. s <= now /\ u <= PerMinute /\ Charged(Since, s, u)
        BY <1>5, <2>2 DEF WindowInv
    <2>5. now < s + WINDOW + LockDelay /\ now - WINDOW - LockDelay + 1 <= s
        BY <1>0, <1>5, <2>2
    <2> QED BY <2>1, <2>3, <2>4, <2>5
<1> QED BY <1>1, <1>3, <1>4, <1>5

(* What letting c units through does to the totals. *)
LEMMA PassStep ==
    ASSUME TypeOK, NEW c \in Nat, now' = now, passed' = [passed EXCEPT ![now] = @ + c]
    PROVE  /\ Since' \in [Int -> Nat]
           /\ \A a \in Int : Since'[a] = Since[a] + (IF a <= now THEN c ELSE 0)
           /\ \A a, b \in Int :
                 Units(passed', now, a, b)
                     = Units(passed, now, a, b) + (IF a <= now /\ now <= b THEN c ELSE 0)
<1>1. /\ Counted(passed, MaxNow) /\ now \in 0..MaxNow /\ now \in Nat /\ MaxNow \in Nat
      /\ now \in Int
    BY SinceTypes
<1>2. \A a, b \in Int :
          /\ Units(passed', now, a, b) \in Nat
          /\ Units(passed', now, a, b)
                 = Units(passed, now, a, b) + (IF a <= now /\ now <= b THEN c ELSE 0)
    <2>1. Adds(passed, passed', MaxNow, now, c)
        BY <1>1 DEF Adds, Counted
    <2> QED BY <1>1, <2>1, UnitsPass
<1>3. Since' = [a \in Int |-> Units(passed', now, a, now)]
    BY DEF Since, PassedIn, Units, Ticks
<1>4. \A a \in Int : Since[a] = Units(passed, now, a, now)
    BY SinceTypes
<1>5. now <= now
    BY <1>1
<1> QED BY <1>1, <1>2, <1>3, <1>4, <1>5

LEMMA WindowTake ==
    ASSUME TypeOK, WindowInv, SpanOk(passed, now),
           NEW at \in Nat, at <= now, now <= at + LockDelay,
           NEW c \in Nat, window_at(at).used + c <= PerMinute, now' = now,
           budget' = [window_at(at) EXCEPT !.used = @ + c],
           passed' = [passed EXCEPT ![now] = @ + c]
    PROVE  WindowInv' /\ SpanOk(passed', now) /\ (Spent(passed, now) => Spent(passed', now))
<1>0. /\ now \in Nat /\ now \in Int /\ WINDOW \in Nat /\ LockDelay \in Nat
      /\ LockDelay < WINDOW /\ PerMinute \in Nat
    BY ConstantTypes DEF TypeOK
<1>1. PICK s \in Nat, u \in Nat :
              /\ window_at(at) = [started |-> s, used |-> u]
              /\ s <= now /\ now < s + WINDOW + LockDelay /\ u <= PerMinute
              /\ Charged(Since, s, u)
    BY WindowAt
<1>2. PICK v \in Nat : v = u + c
    OBVIOUS
<1>3. v <= PerMinute
    BY <1>1, <1>2
<1>4. budget' = [started |-> s, used |-> v]
    BY <1>1, <1>2
<1>5. /\ Since' \in [Int -> Nat] /\ Since \in [Int -> Nat]
      /\ \A a \in Int : Since'[a] = Since[a] + (IF a <= now THEN c ELSE 0)
      /\ \A a, b \in Int :
            Units(passed', now, a, b)
                = Units(passed, now, a, b) + (IF a <= now /\ now <= b THEN c ELSE 0)
    BY PassStep, SinceTypes
<1>6. Charged(Since', s, v)
    <2>1. PICK P \in [Int -> Nat], Q \in [Int -> Nat] : P = Since /\ Q = Since'
        BY <1>5
    <2>2. \A a \in Int : Q[a] = P[a] + (IF a <= now THEN c ELSE 0)
        BY <1>5, <2>1
    <2>3. Charged(P, s, u) /\ s \in Int
        BY <1>1, <2>1
    <2>4. Charged(Q, s, u + c)
        BY <1>0, <1>1, <2>2, <2>3, ChargeWindow
    <2> QED BY <1>2, <2>1, <2>4
<1>7. \A t \in 0..MaxNow : t > now => passed'[t] = 0
    BY <1>0 DEF WindowInv, TypeOK
<1>8. WindowInv'
    <2>1. budget'.started = s /\ budget'.used = v
        BY <1>4
    <2>2. Charged(Since, s, v)'
        BY <1>6 DEF Charged
    <2>3. Charged(Since, budget.started, budget.used)'
        BY <1>6, <2>1 DEF Charged
    <2> QED BY <1>0, <1>1, <1>3, <1>7, <2>1, <2>3 DEF WindowInv
<1>9. ASSUME NEW t \in 0..now
      PROVE  Units(passed', now, t, t + WINDOW - LockDelay - 1) <= 2 * PerMinute
    <2>1. PICK b \in Int : b = t + WINDOW - LockDelay - 1
        BY <1>0
    <2>2. t \in Int /\ t <= now
        BY <1>0
    <2>3. Counted(passed, MaxNow) /\ MaxNow \in Nat /\ now \in 0..MaxNow
        BY SinceTypes
    <2>4. Units(passed, now, t, b) <= 2 * PerMinute /\ Units(passed, now, t, b) \in Nat
        <3>1. Units(passed, now, t, b) <= 2 * PerMinute
            BY <2>1 DEF SpanOk
        <3> QED BY <2>2, <2>3, <3>1, UnitsAreASum
    <2>5. Units(passed', now, t, b)
              = Units(passed, now, t, b) + (IF t <= now /\ now <= b THEN c ELSE 0)
        BY <1>5, <2>2
    <2>6. CASE now <= b
        <3>1. Units(passed', now, t, b) = Units(passed', now, t, now)
            BY <1>0, <2>2, <2>6, UnitsToNow
        <3>2. Since'[t] = Units(passed', now, t, now)
            BY <2>2 DEF Since, PassedIn, Units, Ticks
        <3>3. t >= s - WINDOW + LockDelay
            BY <1>0, <1>1, <2>1, <2>2, <2>6
        <3>4. Since'[t] <= v + PerMinute /\ Since'[t] \in Nat
            BY <1>5, <1>6, <2>2, <3>3 DEF Charged
        <3> QED BY <1>0, <1>3, <2>1, <3>1, <3>2, <3>4
    <2>7. CASE ~(now <= b)
        BY <1>0, <2>1, <2>4, <2>5, <2>7
    <2> QED BY <2>6, <2>7
<1>10. Spent(passed, now) => Spent(passed', now)
    <2>1. PICK a \in Int : a = now - WINDOW - LockDelay + 1
        BY <1>0
    <2>2. Counted(passed, MaxNow) /\ MaxNow \in Nat /\ now \in 0..MaxNow
        BY SinceTypes
    <2>3. Units(passed, now, a, now) \in Nat
        BY <1>0, <2>2, UnitsAreASum
    <2>4. Units(passed', now, a, now)
              = Units(passed, now, a, now) + (IF a <= now /\ now <= now THEN c ELSE 0)
        BY <1>0, <1>5
    <2>5. Units(passed', now, a, now) >= Units(passed, now, a, now)
          /\ Units(passed', now, a, now) \in Nat
        BY <2>3, <2>4
    <2> QED BY <1>0, <2>1, <2>3, <2>5 DEF Spent
<1> QED BY <1>8, <1>9, <1>10 DEF SpanOk

(* A step that leaves the clock, the window and the passes alone. *)
LEMMA CalmStep ==
    ASSUME TypeOK, BudgetInv, UNCHANGED <<now, budget, passed>>,
           \A q \in Requests : \/ req'[q] = req[q]
                               \/ ReadingOk(req'[q]) /\ req'[q].answer # "backpressure"
    PROVE  BudgetInv'
<1>1. WindowInv' /\ \A q : ReadingOk(q) => ReadingOk(q)'
    <2>1. Since' = Since
        BY DEF Since, PassedIn
    <2> QED BY <2>1 DEF BudgetInv, WindowInv, Charged, ReadingOk
<1>2. \A q \in Requests : ReadingOk(req[q])'
    BY <1>1 DEF BudgetInv
<1>3. BudgetHolds'
    BY DEF BudgetInv, BudgetHolds, PassedIn
<1> QED BY <1>1, <1>2, <1>3 DEF BudgetInv

LEMMA CalmActions ==
    ASSUME TypeOK, BudgetInv, NEW r \in Requests,
           \/ ArriveBot(r) \/ ArriveHuman(r) \/ Lookup(r) \/ Recheck(r) \/ Attempt(r)
           \/ KeysServed(r) \/ KeysStored(r) \/ FetchFails(r) \/ CallerGone(r) \/ LastLook(r)
                   \/ Admit(r)
           \/ Disabled(r) \/ Return(r)
    PROVE  BudgetInv'
<1>0. /\ req \in [Requests -> Request] /\ req[r] \in Request /\ ReadingOk(req[r])
      /\ now \in Nat
    BY ConstantTypes DEF TypeOK, BudgetInv
<1>1. \A q \in Requests : q # r => req'[q] = req[q]
    BY RequestsTyped
<1>2. UNCHANGED <<now, budget, passed>>
    BY DEF ArriveBot, ArriveHuman, Lookup, Recheck, Attempt, KeysServed, KeysStored,
           FetchFails, CallerGone, LastLook, Admit, Disabled, Return, rest
<1>3. SUFFICES ReadingOk(req'[r]) /\ req'[r].answer # "backpressure"
    BY <1>1, <1>2, CalmStep
<1>4. ASSUME NEW a, a # "backpressure", Finish(r, a)
      PROVE  ReadingOk(req'[r]) /\ req'[r].answer # "backpressure"
    <2>1. PICK p : p = req'[r]
        OBVIOUS
    <2>2. p.stage = "done" /\ p.answer = a
        BY <1>0, <1>4, <2>1 DEF Finish, Request
    <2> QED BY <1>4, <2>1, <2>2 DEF ReadingOk
<1>5. req[r].stage # "done" => req[r].answer = "none"
    BY <1>0 DEF ReadingOk
<1>6. ASSUME NEW p, p = req'[r], p.stage # "budget", p.answer = "none"
      PROVE  ReadingOk(req'[r]) /\ req'[r].answer # "backpressure"
    BY <1>6 DEF ReadingOk
<1>7. ASSUME NEW s \in Stages, s # "budget", Go(r, s), req[r].stage # "done"
      PROVE  ReadingOk(req'[r]) /\ req'[r].answer # "backpressure"
    <2>1. PICK p : p = req'[r]
        OBVIOUS
    <2>2. p.stage = s /\ p.answer = req[r].answer
        BY <1>0, <1>7, <2>1 DEF Go, Request
    <2> QED BY <1>5, <1>6, <1>7, <2>1, <2>2
<1>8. ASSUME Decode(r), req[r].stage # "done"
      PROVE  ReadingOk(req'[r]) /\ req'[r].answer # "backpressure"
    BY <1>4, <1>7, <1>8 DEF Decode, Stages
<1>9. CASE ArriveBot(r)
    <2>1. CASE Finish(r, "unauthenticated")
        BY <1>4, <2>1
    <2>2. ASSUME NEW kid, req' = [req EXCEPT ![r].stage = "lookup", ![r].kid = kid]
          PROVE  ReadingOk(req'[r]) /\ req'[r].answer # "backpressure"
        <3>1. PICK p : p = req'[r]
            OBVIOUS
        <3>2. p.stage = "lookup" /\ p.answer = req[r].answer
            BY <1>0, <2>2, <3>1 DEF Request
        <3>3. req[r].stage # "done"
            BY <1>9 DEF ArriveBot
        <3> QED BY <1>5, <1>6, <3>1, <3>2, <3>3
    <2> QED BY <1>9, <2>1, <2>2 DEF ArriveBot
<1>10. CASE ArriveHuman(r)
    <2>1. CASE Finish(r, "unknown_operation")
        BY <1>4, <2>1
    <2>2. ASSUME NEW c, NEW b,
                 req' = [req EXCEPT ![r].stage = "admit", ![r].cost = c, ![r].reason = b]
          PROVE  ReadingOk(req'[r]) /\ req'[r].answer # "backpressure"
        <3>1. PICK p : p = req'[r]
            OBVIOUS
        <3>2. p.stage = "admit" /\ p.answer = req[r].answer
            BY <1>0, <2>2, <3>1 DEF Request
        <3>3. req[r].stage # "done"
            BY <1>10 DEF ArriveHuman
        <3> QED BY <1>5, <1>6, <3>1, <3>2, <3>3
    <2>3. PICK operation \in {"keyed read", "read", "mutation"}, reason \in BOOLEAN :
             IF Served(operation)
             THEN req' = [req EXCEPT ![r].stage = "admit", ![r].cost = cost(operation),
                                     ![r].reason = reason]
             ELSE Finish(r, "unknown_operation")
        BY <1>10 DEF ArriveHuman
    <2> QED BY <2>1, <2>2, <2>3
<1>11. CASE Lookup(r)
    BY <1>7, <1>8, <1>11 DEF Lookup, Stages
<1>12. CASE Recheck(r)
    <2>1. PICK s \in {"last look", "floor"}, b \in BOOLEAN :
              req' = [req EXCEPT ![r].stage = s, ![r].cold = b]
        BY <1>12 DEF Recheck, Cold
    <2>2. PICK p : p = req'[r]
        OBVIOUS
    <2>3. p.stage = s /\ p.answer = req[r].answer
        BY <1>0, <2>1, <2>2 DEF Request
    <2>4. req[r].stage # "done"
        BY <1>12 DEF Recheck
    <2> QED BY <1>5, <1>6, <2>1, <2>2, <2>3, <2>4
<1>13. CASE Attempt(r)
    <2>0. req[r].stage # "done"
        BY <1>13 DEF Attempt
    <2>1. CASE req' = [req EXCEPT ![r].stage = "fetching", ![r].at = now]
        <3>1. PICK p : p = req'[r]
            OBVIOUS
        <3>2. p.stage = "fetching" /\ p.answer = req[r].answer
            BY <1>0, <2>1, <3>1 DEF Request
        <3> QED BY <1>5, <1>6, <2>0, <3>1, <3>2
    <2> QED BY <1>4, <1>7, <1>13, <2>0, <2>1 DEF Attempt, Stages
<1>14. CASE KeysServed(r)
    <2>0. req[r].stage # "done"
        BY <1>14 DEF KeysServed
    <2>1. PICK p : p = req'[r]
        OBVIOUS
    <2>2. p.stage = "served" /\ p.answer = req[r].answer
        BY <1>0, <1>14, <2>1 DEF KeysServed, Request
    <2> QED BY <1>5, <1>6, <2>0, <2>1, <2>2
<1>15. CASE KeysStored(r)
    BY <1>7, <1>15 DEF KeysStored, Stages
<1>16. CASE FetchFails(r)
    BY <1>4, <1>7, <1>16 DEF FetchFails, Stages
<1>21. CASE CallerGone(r)
    <2>1. req'[r] = Idle
        BY <1>0, <1>21 DEF CallerGone
    <2>2. Idle.stage = "none" /\ Idle.answer = "none"
        BY DEF Idle
    <2> QED BY <1>6, <2>1, <2>2
<1>17. CASE LastLook(r)
    <2>1. CASE cached_key(req[r].kid, TRUE)
        BY <1>8, <1>17, <2>1 DEF LastLook
    <2>2. CASE ~cached_key(req[r].kid, TRUE)
        <3>1. PICK b : req' = [req EXCEPT ![r].stage = "done", ![r].answer = "unknown key",
                                          ![r].flying = b]
            BY <1>17, <2>2 DEF LastLook
        <3>2. PICK p : p = req'[r]
            OBVIOUS
        <3>3. p.stage = "done" /\ p.answer = "unknown key"
            BY <1>0, <3>1, <3>2 DEF Request
        <3> QED BY <3>2, <3>3 DEF ReadingOk
    <2> QED BY <2>1, <2>2
<1>18. CASE Admit(r)
    <2>1. CASE req[r].cost # 0 /\ req' = [req EXCEPT ![r].stage = "budget", ![r].at = now]
        <3>1. PICK p : p = req'[r]
            OBVIOUS
        <3>2. p.stage = "budget" /\ p.at = now /\ p.cost = req[r].cost /\ p.answer = req[r].answer
            BY <1>0, <2>1, <3>1 DEF Request
        <3>3. p.cost = 1
            BY <1>0, <2>1, <3>2 DEF Request
        <3>4. p.answer = "none"
            BY <1>5, <1>18, <3>2 DEF Admit
        <3> QED BY <1>0, <3>1, <3>2, <3>3, <3>4, ConstantTypes DEF ReadingOk
    <2> QED BY <1>4, <1>18, <2>1 DEF Admit
<1>19. CASE Disabled(r)
    BY <1>4, <1>19 DEF Disabled
<1>20. CASE Return(r)
    <2>1. req'[r] = Idle
        BY <1>0, <1>20 DEF Return
    <2>2. Idle.stage = "none" /\ Idle.answer = "none"
        BY DEF Idle
    <2> QED BY <1>6, <2>1, <2>2
<1> QED BY <1>9, <1>10, <1>11, <1>12, <1>13, <1>14, <1>15, <1>16, <1>17, <1>18, <1>19, <1>20,
           <1>21

(* A take: of its cost when it passes, of nothing when it is refused, and    *)
(* then the window is used up and not older than WINDOW and LockDelay.        *)
LEMMA TakeStep ==
    ASSUME TypeOK, BudgetInv, NEW r \in Requests, Take(r)
    PROVE  BudgetInv'
<1>0. /\ req \in [Requests -> Request] /\ req[r] \in Request /\ ReadingOk(req[r])
      /\ now \in Nat /\ PerMinute \in Nat /\ now \in 0..MaxNow
      /\ passed \in [0..MaxNow -> Nat] /\ WindowInv /\ SpanOk(passed, now)
    BY ConstantTypes, BudgetInUnits DEF TypeOK, BudgetInv
<1>1. PICK at \in Nat : at = req[r].at /\ at <= now /\ now <= at + LockDelay
    BY <1>0 DEF Take, ReadingOk, Request
<1>2. req[r].cost = 1 /\ now' = now
    BY <1>0 DEF Take, ReadingOk, rest
<1>3. PICK s \in Nat, u \in Nat :
              /\ window_at(at) = [started |-> s, used |-> u]
              /\ s <= now /\ now < s + WINDOW + LockDelay /\ u <= PerMinute
              /\ u > 0 => now - WINDOW - LockDelay + 1 <= s
              /\ Charged(Since, s, u)
    BY <1>0, <1>1, WindowAt
<1>4. \A q : ReadingOk(q) => ReadingOk(q)'
    BY <1>2 DEF ReadingOk
<1>5. \A q \in Requests : q # r => req'[q] = req[q]
    BY RequestsTyped
<1>6. CASE u + 1 > PerMinute
    <2>1. /\ budget' = [started |-> s, used |-> u] /\ UNCHANGED passed
          /\ Finish(r, "backpressure")
        BY <1>1, <1>2, <1>3, <1>6 DEF Take
    <2>2. budget' = [window_at(at) EXCEPT !.used = @ + 0]
        BY <1>3, <2>1
    <2>3. passed' = [passed EXCEPT ![now] = @ + 0]
        BY <1>0, <2>1
    <2>4. window_at(at).used + 0 <= PerMinute
        BY <1>3
    <2>5. WindowInv' /\ SpanOk(passed', now)
        BY <1>0, <1>1, <1>2, <2>2, <2>3, <2>4, WindowTake
    <2>6. Spent(passed, now)
        <3>1. u = PerMinute
            BY <1>0, <1>3, <1>6
        <3>2. PICK a \in Int : a = now - WINDOW - LockDelay + 1
            BY <1>0, ConstantTypes
        <3>3. /\ Counted(passed, MaxNow) /\ MaxNow \in Nat /\ now \in 0..MaxNow /\ now \in Int
              /\ Since[s] = Units(passed, now, s, now) /\ s \in Int
            BY SinceTypes
        <3>4. Units(passed, now, a, now) \in Nat /\ Units(passed, now, s, now) \in Nat
            BY <3>3, UnitsAreASum
        <3>5. CASE u = 0
            BY <3>1, <3>2, <3>4, <3>5 DEF Spent
        <3>6. CASE u > 0
            <4>1. a <= s
                BY <1>3, <3>2, <3>6
            <4>2. Units(passed, now, s, now) <= Units(passed, now, a, now)
                BY <3>3, <4>1, UnitsGrow
            <4>3. Units(passed, now, s, now) >= u
                BY <1>3, <3>3 DEF Charged
            <4> QED BY <1>0, <3>1, <3>2, <3>4, <4>2, <4>3 DEF Spent
        <3> QED BY <3>5, <3>6
    <2>7. BudgetHolds'
        <3>1. passed' = passed
            BY <2>1
        <3>2. \A a, b : PassedIn(a, b)' = Units(passed', now', a, b)
            BY DEF PassedIn, Units, Ticks
        <3>3. SpanOk(passed', now') /\ Spent(passed', now')
            BY <1>2, <2>5, <2>6, <3>1
        <3> QED BY <3>2, <3>3 DEF BudgetHolds, SpanOk, Spent
    <2>8. \A b : b = req'[r] => ReadingOk(b)'
        <3>1. req'[r].stage = "done"
            BY <1>0, <2>1 DEF Finish, Request
        <3> QED BY <3>1 DEF ReadingOk
    <2>9. \A q \in Requests : ReadingOk(req[q])'
        BY <1>4, <1>5, <2>8 DEF BudgetInv
    <2> QED BY <2>5, <2>7, <2>9 DEF BudgetInv
<1>7. CASE ~(u + 1 > PerMinute)
    <2>1. /\ budget' = [window_at(at) EXCEPT !.used = @ + 1]
          /\ passed' = [passed EXCEPT ![now] = @ + 1]
          /\ Finish(r, "admitted")
        BY <1>1, <1>2, <1>3, <1>7 DEF Take
    <2>2. window_at(at).used + 1 <= PerMinute
        BY <1>0, <1>3, <1>7
    <2>3. WindowInv' /\ SpanOk(passed', now) /\ (Spent(passed, now) => Spent(passed', now))
        BY <1>0, <1>1, <1>2, <2>1, <2>2, WindowTake
    <2>4. req'[r].stage = "done" /\ req'[r].answer = "admitted"
        BY <1>0, <2>1 DEF Finish, Request
    <2>5. BudgetHolds'
        <3>1. \A q \in Requests : req'[q].answer = "backpressure" => Spent(passed', now')
            BY <1>2, <1>5, <2>3, <2>4, BudgetInUnits DEF BudgetInv
        <3>2. \A a, b : PassedIn(a, b)' = Units(passed', now', a, b)
            BY DEF PassedIn, Units, Ticks
        <3>3. SpanOk(passed', now')
            BY <1>2, <2>3
        <3> QED BY <3>1, <3>2, <3>3 DEF BudgetHolds, SpanOk, Spent
    <2>6. \A b : b = req'[r] => ReadingOk(b)'
        BY <2>4 DEF ReadingOk
    <2>7. \A q \in Requests : ReadingOk(req[q])'
        BY <1>4, <1>5, <2>6 DEF BudgetInv
    <2> QED BY <2>3, <2>5, <2>7 DEF BudgetInv
<1> QED BY <1>6, <1>7

(* A tick brings no units, and finds no request with an answer. *)
LEMMA BudgetTick ==
    ASSUME TypeOK, BudgetInv, Tick
    PROVE  BudgetInv'
<1>0. /\ now \in Nat /\ now \in Int /\ MaxNow \in Nat /\ now \in 0..MaxNow /\ now < MaxNow
      /\ now' = now + 1 /\ UNCHANGED <<budget, passed, req>>
      /\ WINDOW \in Nat /\ LockDelay \in Nat /\ PerMinute \in Nat
      /\ Counted(passed, MaxNow)
    BY ConstantTypes DEF TypeOK, Tick, Counted
<1>1. now + 1 \in 0..MaxNow /\ passed[now + 1] = 0
    <2>1. now + 1 \in 0..MaxNow /\ now + 1 > now
        BY <1>0
    <2> QED BY <2>1 DEF BudgetInv, WindowInv
<1>2. \A a, b \in Int : Units(passed, now + 1, a, b) = Units(passed, now, a, b)
    BY <1>0, <1>1, UnitsTick
<1>3. \A a \in Int : Since'[a] = Since[a]
    <2>1. SUFFICES ASSUME NEW a \in Int PROVE Since'[a] = Since[a]
        OBVIOUS
    <2>2. Since'[a] = Units(passed, now + 1, a, now + 1)
        BY <1>0 DEF Since, PassedIn, Units, Ticks
    <2>3. Since[a] = Units(passed, now, a, now)
        BY SinceTypes
    <2>4. now + 1 \in Int /\ now <= now + 1
        BY <1>0
    <2>5. Units(passed, now + 1, a, now + 1) = Units(passed, now, a, now + 1)
        BY <1>2, <2>4
    <2>6. Units(passed, now, a, now + 1) = Units(passed, now, a, now)
        BY <1>0, <2>4, UnitsToNow
    <2> QED BY <2>2, <2>3, <2>5, <2>6
<1>4. WindowInv'
    <2>1. budget.started \in Int
        BY DEF TypeOK
    <2>2. ASSUME Charged(Since, budget.started, budget.used)
          PROVE  Charged(Since, budget.started, budget.used)'
        <3>1. Since' = Since
            BY <1>3 DEF Since
        <3> QED BY <1>0, <2>2, <3>1 DEF Charged
    <2>3. budget.started <= now + 1
        BY <1>0, <2>1 DEF BudgetInv, WindowInv
    <2>4. \A t \in 0..MaxNow : t > now + 1 => passed[t] = 0
        BY <1>0 DEF BudgetInv, WindowInv
    <2> QED BY <1>0, <2>2, <2>3, <2>4 DEF BudgetInv, WindowInv
<1>5. \A r \in Requests : req[r].answer = "none"
    BY DEF Tick, BudgetInv, ReadingOk
<1>6. SpanOk(passed, now + 1)
    <2>1. SUFFICES ASSUME NEW t \in 0..(now + 1)
                   PROVE  Units(passed, now + 1, t, t + WINDOW - LockDelay - 1) <= 2 * PerMinute
        BY DEF SpanOk
    <2>2. PICK b \in Int : b = t + WINDOW - LockDelay - 1
        BY <1>0
    <2>3. t \in Int
        BY <1>0
    <2>4. Units(passed, now + 1, t, b) = Units(passed, now, t, b)
        BY <1>2, <2>3
    <2>5. CASE t \in 0..now
        <3>1. SpanOk(passed, now)
            BY BudgetInUnits DEF BudgetInv
        <3> QED BY <2>2, <2>4, <2>5, <3>1 DEF SpanOk
    <2>6. CASE t = now + 1
        <3>1. \A x \in 0..now : t <= x => passed[x] = 0
            BY <1>0, <2>6
        <3>2. Units(passed, now, t, b) = 0
            BY <1>0, <2>3, <3>1, NoUnits
        <3> QED BY <1>0, <2>2, <2>4, <3>2
    <2> QED BY <1>0, <2>5, <2>6
<1>7. BudgetHolds'
    <2>1. \A a, b : PassedIn(a, b)' = Units(passed', now', a, b)
        BY DEF PassedIn, Units, Ticks
    <2>2. SpanOk(passed', now') /\ \A r \in Requests : req'[r].answer # "backpressure"
        BY <1>0, <1>5, <1>6
    <2> QED BY <2>1, <2>2 DEF BudgetHolds, SpanOk
<1>8. ASSUME NEW r \in Requests PROVE ReadingOk(req[r])'
    <2>1. PICK p : p = req[r]
        OBVIOUS
    <2>2. ReadingOk(p)
        BY <2>1 DEF BudgetInv
    <2>3. p.stage = "budget" => p.at \in Nat
        BY <2>1 DEF TypeOK, Request
    <2>4. p.stage = "budget" => now - p.at < LockDelay
        BY <2>1 DEF Tick
    <2> QED BY <1>0, <2>1, <2>2, <2>3, <2>4 DEF ReadingOk
<1> QED BY <1>4, <1>7, <1>8 DEF BudgetInv

LEMMA BudgetStep == TypeOK /\ BudgetInv /\ [Next]_vars => BudgetInv'
<1> SUFFICES ASSUME TypeOK, BudgetInv, [Next]_vars PROVE BudgetInv'
    OBVIOUS
<1>1. CASE Rotate \/ Shutdown \/ UNCHANGED vars
    <2>1. UNCHANGED <<now, budget, passed, req>>
        BY <1>1 DEF Rotate, Shutdown, vars
    <2> QED BY <2>1, CalmStep
<1> QED BY <1>1, CalmActions, TakeStep, BudgetTick DEF Next

LEMMA BudgetInit == Init => BudgetInv
<1> SUFFICES ASSUME Init PROVE BudgetInv
    OBVIOUS
<1>0. TypeOK
    BY KeyInit
<1>1. /\ budget = [started |-> -1, used |-> 0] /\ now = 0
      /\ \A t \in 0..MaxNow : passed[t] = 0
      /\ \A r \in Requests : req[r].stage = "none" /\ req[r].answer = "none"
    BY DEF Init, Idle
<1>2. WindowInv
    BY <1>1, ConstantTypes DEF WindowInv
<1>3. SpanOk(passed, now)
    <2>1. SUFFICES ASSUME NEW t \in 0..now
                   PROVE  Units(passed, now, t, t + WINDOW - LockDelay - 1) <= 2 * PerMinute
        BY DEF SpanOk
    <2>2. PICK b \in Int : b = t + WINDOW - LockDelay - 1
        BY <1>1, ConstantTypes
    <2>3. \A x \in 0..now : t <= x => passed[x] = 0
        BY <1>1, ConstantTypes
    <2>4. t \in Int
        BY <1>1
    <2>5. Counted(passed, MaxNow) /\ now \in 0..MaxNow /\ MaxNow \in Nat
        BY <1>0, SinceTypes
    <2>6. Units(passed, now, t, b) = 0
        BY <2>3, <2>4, <2>5, NoUnits
    <2> QED BY <2>2, <2>6, ConstantTypes
<1> QED BY <1>1, <1>2, <1>3, BudgetInUnits DEF BudgetInv, ReadingOk

(* However readings of the clock and the budget's lock interleave, human      *)
(* calls pass at most twice per window (less the lock's delay) what the       *)
(* budget allows, and one is refused only when a whole budget has passed:     *)
(* take_at, for any limit, window and delay of the lock shorter than it.      *)
THEOREM BudgetHoldsAlways == Spec => []BudgetHolds
<1>1. BudgetInv => BudgetHolds
    BY DEF BudgetInv
<1> QED BY <1>1, KeyInit, BudgetInit, TypeStep, BudgetStep, PTL DEF Spec

-----------------------------------------------------------------------------
(* The credential's token cache, TokenCache: access_token and its mint lock. *)

\* A caller past the lock holds it.
LockInv ==
    \A c \in Callers : pc[c] \in {"locked", "signing", "exchanging"} => owner = c

\* An exchange is within its timeout, and no mint runs inside the hold.
MintInv ==
    \A c \in Callers :
        /\ pc[c] = "exchanging" => sentAt[c] <= clock /\ clock <= sentAt[c] + MintTimeout
        /\ pc[c] \in {"signing", "exchanging"} => holdUntil <= clock

\* The soft deadline is no later than the hard one, which Alpaca's own expiry
\* outlives unless it has passed already.
TokenInv ==
    cached # NoToken =>
        /\ cached.refresh <= cached.hard
        /\ cached.hard <= cached.expires \/ cached.hard <= clock

CacheInv == CacheTypeOK /\ LockInv /\ MintInv /\ TokenInv

-----------------------------------------------------------------------------

(* Arithmetic of the deadlines. *)
LEMMA MinMax ==
    ASSUME NEW a \in Nat, NEW b \in Nat
    PROVE  /\ Min2(a, b) \in Nat /\ Min2(a, b) <= a /\ Min2(a, b) <= b
           /\ Max2(a, b) \in Nat /\ a <= Max2(a, b) /\ b <= Max2(a, b)
           /\ saturating_sub(a, b) \in Nat
           /\ (saturating_sub(a, b) = 0 \/ saturating_sub(a, b) + b = a)
           /\ saturating_sub(a, b) <= a
BY DEF Min2, Max2, saturating_sub

(* A minted token is a token, soft before hard, and it is dead before Alpaca *)
(* lets it expire when the answer came within HardMargin of the issue.       *)
LEMMA MintedToken ==
    ASSUME NEW e \in Nat, NEW issued \in Nat, clock \in Nat,
           issued <= clock, clock <= issued + HardMargin
    PROVE  /\ Minted(e, issued) \in Token
           /\ Minted(e, issued).refresh <= Minted(e, issued).hard
           /\ \/ Minted(e, issued).hard <= Minted(e, issued).expires
              \/ Minted(e, issued).hard <= clock
<1> DEFINE l == Min2(e, MaxLifetime)
           m == saturating_sub(l, HardMargin)
           h == clock + m
           x == Max2(saturating_sub(l, RefreshMargin), l \div 2)
           r == Min2(clock + x, h)
<1>0. /\ MaxLifetime \in Nat /\ HardMargin \in Nat /\ RefreshMargin \in Nat
    BY MarginsAssumption
<1>1. l \in Nat /\ l <= e BY <1>0, MinMax
<1>2. m \in Nat /\ (m = 0 \/ m + HardMargin = l) BY <1>0, <1>1, MinMax
<1>3. h \in Nat BY <1>2
<1>4. l \div 2 \in Nat BY <1>1
<1>5. saturating_sub(l, RefreshMargin) \in Nat BY <1>0, <1>1, MinMax
<1>6. x \in Nat BY <1>4, <1>5, MinMax
<1>7. clock + x \in Nat BY <1>6
<1>8. r \in Nat /\ r <= h BY <1>3, <1>7, MinMax
<1>9. Minted(e, issued) = [kind |-> "token", refresh |-> r, hard |-> h, expires |-> issued + e]
    BY DEF Minted
<1>10. h <= issued + e \/ h <= clock
    BY <1>0, <1>1, <1>2
<1> HIDE DEF l, m, h, x, r
<1> QED BY <1>3, <1>8, <1>9, <1>10 DEF Token

(* Handing the lock on keeps the types of the lock. *)
LEMMA UnlockType ==
    ASSUME owner \in Callers \cup {NoOne}, queue \in Seq(Callers), Unlock
    PROVE  owner' \in Callers \cup {NoOne} /\ queue' \in Seq(Callers)
BY DEF Unlock
(* Every step keeps the invariant. *)
LEMMA CacheStep ==
    CacheInv /\ [CacheNext]_cacheVars => CacheInv'
<1> SUFFICES ASSUME CacheTypeOK, LockInv, MintInv, TokenInv, [CacheNext]_cacheVars PROVE CacheInv'
    BY DEF CacheInv
<1> USE DEF CacheInv, LockInv, MintInv, TokenInv, cacheVars, Goto, ReturnToken
<1>0. /\ {RefreshMargin, HardMargin, FailedBackoff, MaxHold, MaxLifetime,
          MintTimeout, MaxTime} \subseteq Nat
      /\ MintTimeout <= HardMargin /\ NoOne \notin Callers
      /\ Lifetimes \subseteq Nat /\ Hints \subseteq Nat
      /\ clock \in Nat
    BY MarginsAssumption, NoOneAssumption DEF CacheTypeOK
<1>1. CASE ClockTick
  <2>1. clock' = clock + 1 /\ clock' \in 0..MaxTime BY <1>0, <1>1 DEF ClockTick, CacheTypeOK
  <2>2. CacheTypeOK' BY <1>1, <2>1 DEF ClockTick, CacheTypeOK
  <2>3. LockInv' BY <1>1 DEF ClockTick
  <2>4. MintInv'
    <3> SUFFICES ASSUME NEW c \in Callers
                 PROVE  /\ pc[c] = "exchanging" => sentAt[c] <= clock'
                         /\ clock' <= sentAt[c] + MintTimeout
                        /\ pc[c] \in {"signing", "exchanging"} => holdUntil <= clock'
      BY <1>1 DEF ClockTick
    <3>1. sentAt[c] \in Nat /\ holdUntil \in Nat BY DEF CacheTypeOK
    <3>2. pc[c] = "exchanging" => clock < sentAt[c] + MintTimeout BY <1>1 DEF ClockTick
    <3> QED BY <1>0, <2>1, <3>1, <3>2
  <2>5. TokenInv'
    <3>1. CASE cached = NoToken BY <1>1, <3>1 DEF ClockTick
    <3>2. CASE cached # NoToken
      <4>1. cached.hard \in Nat BY <3>2 DEF CacheTypeOK, Token
      <4> QED BY <1>0, <1>1, <2>1, <3>2, <4>1 DEF ClockTick
    <3> QED BY <3>1, <3>2
  <2> QED BY <2>2, <2>3, <2>4, <2>5
<1>2. ASSUME NEW c \in Callers, Ask(c) PROVE CacheInv'
  BY <1>0, <1>2 DEF Ask, CacheTypeOK
<1>3. ASSUME NEW c \in Callers, TryLock(c) PROVE CacheInv'
  BY <1>0, <1>3 DEF TryLock, CacheTypeOK
<1>4. ASSUME NEW c \in Callers, Busy(c) PROVE CacheInv'
  <2>1. owner' \in Callers \cup {NoOne} /\ queue' \in Seq(Callers)
    <3>1. Append(queue, c) \in Seq(Callers) /\ queue \in Seq(Callers) BY DEF CacheTypeOK
    <3>2. owner' \in {owner, c} /\ queue' \in {queue, Append(queue, c)} BY <1>4 DEF Busy
    <3> QED BY <3>1, <3>2 DEF CacheTypeOK
  <2>2. /\ pc' \in {[pc EXCEPT ![c] = "idle"], [pc EXCEPT ![c] = "locked"],
                    [pc EXCEPT ![c] = "queued"]}
        /\ got' \in {got, [got EXCEPT ![c] = "cached"]}
    BY <1>4 DEF Busy
  <2>3. CacheTypeOK' BY <1>4, <2>1, <2>2 DEF Busy, CacheTypeOK
  <2>4. LockInv' BY <1>0, <1>4 DEF Busy, CacheTypeOK
  <2>5. MintInv' BY <1>4, <2>2 DEF Busy, CacheTypeOK
  <2> QED BY <1>4, <2>3, <2>4, <2>5 DEF Busy
<1>5. ASSUME NEW c \in Callers, Wake(c) PROVE CacheInv'
  BY <1>0, <1>5 DEF Wake, CacheTypeOK
<1>6. ASSUME NEW c \in Callers, Locked(c) PROVE CacheInv'
  <2>0. UNCHANGED <<clock, cached, holdUntil, sentAt, rodeUntil>> BY <1>6 DEF Locked
  <2>1. CASE Unlock /\ \E what \in {"cached", "error"} : ReturnToken(c, what)
    <3>1. owner' \in Callers \cup {NoOne} /\ queue' \in Seq(Callers)
      BY <2>1, UnlockType DEF CacheTypeOK
    <3>2. CacheTypeOK' BY <2>0, <2>1, <3>1 DEF CacheTypeOK
    <3>3. LockInv' BY <1>6, <2>1 DEF Locked, CacheTypeOK
    <3>4. MintInv' BY <2>0, <2>1 DEF CacheTypeOK
    <3> QED BY <2>0, <3>2, <3>3, <3>4
  <2>2. CASE ~InHold /\ Goto(c, "signing") /\ UNCHANGED <<got, owner, queue>>
    BY <1>0, <1>6, <2>0, <2>2 DEF Locked, CacheTypeOK, InHold
  <2> QED BY <1>6, <2>1, <2>2 DEF Locked
<1>7. ASSUME NEW c \in Callers, Exchange(c) PROVE CacheInv'
  BY <1>0, <1>7 DEF Exchange, CacheTypeOK
<1>8. ASSUME NEW c \in Callers, MintOk(c) PROVE CacheInv'
  <2>1. PICK e \in Lifetimes, issued \in sentAt[c]..clock : cached' = Minted(e, issued)
    BY <1>8 DEF MintOk
  <2>2. /\ e \in Nat /\ issued \in Nat /\ issued <= clock /\ clock <= issued + HardMargin
    BY <1>0, <1>8 DEF MintOk, CacheTypeOK
  <2>3. /\ cached' \in Token /\ cached'.refresh <= cached'.hard
        /\ cached'.hard <= cached'.expires \/ cached'.hard <= clock
    BY <1>0, <2>1, <2>2, MintedToken
  <2>4. owner' \in Callers \cup {NoOne} /\ queue' \in Seq(Callers)
    BY <1>8, UnlockType DEF MintOk, CacheTypeOK
  <2>5. CacheTypeOK' BY <1>8, <2>3, <2>4 DEF MintOk, CacheTypeOK
  <2>6. LockInv' BY <1>8 DEF MintOk, CacheTypeOK
  <2>7. MintInv' BY <1>8 DEF MintOk, CacheTypeOK
  <2> QED BY <1>8, <2>3, <2>5, <2>6, <2>7 DEF MintOk
<1>9. ASSUME NEW c \in Callers, NEW hint \in Hints, NEW limited \in BOOLEAN,
             MintFails(c, hint, limited)
      PROVE  CacheInv'
  <2> DEFINE wait == throttle_hint(hint)
             held == Min2(Max2(wait, FailedBackoff), MaxHold)
             later == Max2(FailedBackoff, wait)
  <2>1. hint \in Nat /\ wait \in Nat BY <1>0, MinMax DEF throttle_hint
  <2>2. held \in Nat /\ later \in Nat BY <1>0, <2>1, MinMax
  <2>3. holdUntil' \in Nat
    BY <1>0, <1>9, <2>2 DEF MintFails, CacheTypeOK
  <2>4. owner' \in Callers \cup {NoOne} /\ queue' \in Seq(Callers)
    BY <1>9, UnlockType DEF MintFails, CacheTypeOK
  <2>5. rodeUntil' \in Nat BY <1>0, <1>9 DEF MintFails, CacheTypeOK
  <2>6. cached' \in Token \cup {NoToken} /\ TokenInv'
    <3>1. CASE ~Usable BY <1>9, <3>1 DEF MintFails, CacheTypeOK
    <3>2. CASE Usable
      <4>1. cached \in Token /\ cached # NoToken BY <3>2 DEF Usable, CacheTypeOK
      <4>2. cached.hard \in Nat /\ clock + later \in Nat BY <1>0, <2>2, <4>1 DEF Token
      <4>3. Min2(clock + later, cached.hard) \in Nat
              /\ Min2(clock + later, cached.hard) <= cached.hard
        BY <4>2, MinMax
      <4>4. cached' = [cached EXCEPT !.refresh = Min2(clock + later, cached.hard)] /\ clock' = clock
        BY <1>9, <3>2 DEF MintFails, defer_next_refresh
      <4> HIDE DEF wait, later
      <4>5. /\ cached' \in Token /\ cached'.refresh = Min2(clock + later, cached.hard)
            /\ cached'.hard = cached.hard /\ cached'.expires = cached.expires
        BY <4>1, <4>3, <4>4 DEF Token
      <4> QED BY <4>1, <4>3, <4>4, <4>5
    <3> QED BY <3>1, <3>2
  <2>7. CacheTypeOK' BY <1>9, <2>3, <2>4, <2>5, <2>6 DEF MintFails, CacheTypeOK
  <2>8. LockInv' BY <1>9 DEF MintFails, CacheTypeOK
  <2>9. MintInv' BY <1>9 DEF MintFails, CacheTypeOK
  <2> QED BY <2>6, <2>7, <2>8, <2>9
<1>10. ASSUME NEW c \in Callers, Cancel(c) PROVE CacheInv'
  <2>1. ASSUME NEW i \in DOMAIN queue
        PROVE  SubSeq(queue, 1, i - 1) \o SubSeq(queue, i + 1, Len(queue)) \in Seq(Callers)
    <3>1. queue \in Seq(Callers) /\ i \in 1..Len(queue) BY DEF CacheTypeOK
    <3>2. SubSeq(queue, 1, i - 1) \in Seq(Callers) BY <3>1
    <3>3. SubSeq(queue, i + 1, Len(queue)) \in Seq(Callers) BY <3>1
    <3> QED BY <3>2, <3>3
  <2>2. owner' \in Callers \cup {NoOne} /\ queue' \in Seq(Callers)
    <3>1. CASE owner = c BY <1>10, <3>1, UnlockType DEF Cancel, CacheTypeOK
    <3>2. CASE owner # c BY <1>10, <2>1, <3>2 DEF Cancel, CacheTypeOK
    <3> QED BY <3>1, <3>2
  <2>3. CacheTypeOK' BY <1>10, <2>2 DEF Cancel, CacheTypeOK
  <2> QED BY <1>10, <2>3 DEF Cancel, CacheTypeOK
<1>11. CASE UNCHANGED cacheVars BY <1>11 DEF CacheTypeOK
<1> QED BY <1>1, <1>2, <1>3, <1>4, <1>5, <1>6, <1>7, <1>8, <1>9, <1>10, <1>11
        DEF CacheNext, Step

(* The invariant holds of every reachable state. *)
LEMMA CacheInvariance ==
    CacheSpec => []CacheInv
<1>1. CacheInit => CacheInv
  <2> SUFFICES ASSUME CacheInit PROVE CacheInv OBVIOUS
  <2>1. CacheTypeOK BY MarginsAssumption DEF CacheInit, CacheTypeOK
  <2> QED BY <2>1 DEF CacheInit, CacheInv, LockInv, MintInv, TokenInv
<1>2. CacheInv /\ [CacheNext]_cacheVars => CacheInv'
  BY CacheStep
<1> QED BY <1>1, <1>2, PTL DEF CacheSpec

(* Callers of one client never mint at the same time: access_token's use of *)
(* mint_lock, for any number of callers and clones and any cancellations.   *)
THEOREM OneMintHolds ==
    CacheSpec => []OneMint
<1>1. CacheInv => OneMint BY DEF CacheInv, LockInv, OneMint, Minting
<1> QED BY <1>1, CacheInvariance, PTL

(* A cached token that is handed out is alive at Alpaca, for every lifetime *)
(* Alpaca may state and all margins with MINT_HTTP_TIMEOUT at most          *)
(* TOKEN_HARD_MARGIN.                                                       *)
THEOREM CachedTokenHolds ==
    CacheSpec => CachedTokenLives
<1> DEFINE A == \A c \in Callers : got[c] # "cached" /\ got'[c] = "cached"
                                   => clock < cached.expires
<1>1. CacheInv /\ [CacheNext]_cacheVars => [A]_cacheVars
  <2> SUFFICES ASSUME CacheInv, CacheNext, NEW d \in Callers, got[d] # "cached", got'[d] = "cached"
               PROVE  clock < cached.expires
    BY DEF cacheVars
  <2>1. Fresh \/ Usable
    <3>1. CASE ClockTick BY <3>1 DEF ClockTick
    <3>2. ASSUME NEW c \in Callers, Ask(c) \/ Step(c) \/ Cancel(c)
          PROVE  Fresh \/ Usable
      BY <3>2 DEF Ask, Step, Cancel, TryLock, Busy, Wake, Locked, Exchange, MintOk,
                  MintFails, ReturnToken, CacheInv, CacheTypeOK
    <3> QED BY <3>1, <3>2 DEF CacheNext
  <2>2. cached \in Token /\ cached # NoToken BY <2>1 DEF Fresh, Usable, CacheInv, CacheTypeOK
  <2>3. /\ cached.refresh \in Nat /\ cached.hard \in Nat /\ cached.expires \in Nat
        /\ clock \in Nat
    BY <2>2, MarginsAssumption DEF Token, CacheInv, CacheTypeOK
  <2> QED BY <2>1, <2>2, <2>3 DEF Fresh, Usable, CacheInv, TokenInv
<1> QED BY <1>1, CacheInvariance, PTL DEF CacheSpec, CachedTokenLives

(* A later throttled mint never shortens the hold an earlier one set:       *)
(* access_token overwrites mint_not_before, but mints only after its end.   *)
LEMMA HoldGrows ==
    CacheInv /\ CacheNext => holdUntil' >= holdUntil
<1> SUFFICES ASSUME CacheInv, CacheNext PROVE holdUntil' >= holdUntil OBVIOUS
<1>0. holdUntil \in Nat /\ clock \in Nat BY MarginsAssumption DEF CacheInv, CacheTypeOK
<1>1. CASE ClockTick BY <1>0, <1>1 DEF ClockTick
<1>2. ASSUME NEW c \in Callers, Ask(c) \/ Cancel(c) \/ TryLock(c) \/ Busy(c)
               \/ Wake(c) \/ Locked(c) \/ Exchange(c) \/ MintOk(c)
      PROVE  holdUntil' >= holdUntil
  BY <1>0, <1>2 DEF Ask, Cancel, TryLock, Busy, Wake, Locked, Exchange, MintOk
<1>3. ASSUME NEW c \in Callers, NEW hint \in Hints, NEW limited \in BOOLEAN,
             MintFails(c, hint, limited)
      PROVE  holdUntil' >= holdUntil
  <2> DEFINE held == Min2(Max2(throttle_hint(hint), FailedBackoff), MaxHold)
  <2>1. held \in Nat
    BY MarginsAssumption, MinMax DEF throttle_hint
  <2>2. holdUntil <= clock BY <1>3 DEF MintFails, CacheInv, MintInv
  <2>3. holdUntil' = clock + held \/ holdUntil' = holdUntil BY <1>3 DEF MintFails
  <2> HIDE DEF held
  <2> QED BY <1>0, <2>1, <2>2, <2>3
<1> QED BY <1>1, <1>2, <1>3 DEF CacheNext, Step

\* The soft deadline of the cached token outlasts the backoff of the last
\* fallback, unless the token dies first.
RideInv == cached # NoToken => Min2(rodeUntil, cached.hard) <= cached.refresh

(* defer_next_refresh keeps it: the token's soft deadline moves with the     *)
(* backoff.                                                                  *)
LEMMA RideStep ==
    CacheInv /\ RideInv /\ [CacheNext]_cacheVars => RideInv'
<1> SUFFICES ASSUME CacheInv, RideInv, [CacheNext]_cacheVars PROVE RideInv' OBVIOUS
<1>0. /\ clock \in Nat /\ FailedBackoff \in Nat /\ MaxHold \in Nat /\ Hints \subseteq Nat
      /\ cached \in Token \cup {NoToken}
  BY MarginsAssumption DEF CacheInv, CacheTypeOK
<1>1. ASSUME NEW c \in Callers, MintOk(c) PROVE RideInv'
  <2>1. rodeUntil' = 0 BY <1>1 DEF MintOk
  <2>2. cached' \in Token
    <3>1. PICK e \in Lifetimes, issued \in sentAt[c]..clock : cached' = Minted(e, issued)
      BY <1>1 DEF MintOk
    <3>2. /\ e \in Nat /\ issued \in Nat /\ issued <= clock /\ clock <= issued + HardMargin
      BY <1>0, <1>1, MarginsAssumption DEF MintOk, CacheInv, MintInv, CacheTypeOK
    <3> QED BY <1>0, <3>1, <3>2, MintedToken
  <2>3. cached'.refresh \in Nat /\ cached'.hard \in Nat BY <2>2 DEF Token
  <2> QED BY <2>1, <2>3 DEF RideInv, Min2
<1>2. ASSUME NEW c \in Callers, NEW hint \in Hints, NEW limited \in BOOLEAN,
             MintFails(c, hint, limited)
      PROVE  RideInv'
  <2> DEFINE wait == throttle_hint(hint)
             later == Max2(FailedBackoff, wait)
  <2>1. CASE ~Usable BY <1>2, <2>1 DEF MintFails, RideInv
  <2>2. CASE Usable
    <3>1. wait \in Nat BY <1>0, MinMax DEF throttle_hint
    <3>2. later \in Nat /\ FailedBackoff <= later BY <1>0, <3>1, MinMax
    <3>3. cached \in Token BY <1>0, <2>2 DEF Usable
    <3>4. cached.hard \in Nat BY <3>3 DEF Token
    <3>5. /\ cached' = [cached EXCEPT !.refresh = Min2(clock + later, cached.hard)]
          /\ rodeUntil' = clock + FailedBackoff
      BY <1>2, <2>2 DEF MintFails, defer_next_refresh
    <3> HIDE DEF wait, later
    <3>6. cached'.refresh = Min2(clock + later, cached.hard) /\ cached'.hard = cached.hard
      BY <3>3, <3>5 DEF Token
    <3> QED BY <1>0, <3>2, <3>4, <3>5, <3>6 DEF RideInv, Min2
  <2> QED BY <2>1, <2>2
<1>3. ASSUME NEW c \in Callers, Ask(c) \/ Cancel(c) \/ TryLock(c) \/ Busy(c)
               \/ Wake(c) \/ Locked(c) \/ Exchange(c)
      PROVE  RideInv'
  BY <1>3 DEF Ask, Cancel, TryLock, Busy, Wake, Locked, Exchange, RideInv
<1>4. CASE ClockTick BY <1>4 DEF ClockTick, RideInv
<1>5. CASE UNCHANGED cacheVars BY <1>5 DEF cacheVars, RideInv
<1> QED BY <1>1, <1>2, <1>3, <1>4, <1>5 DEF CacheNext, Step

(* A mint starts only outside the hold and past the soft deadline.           *)
LEMMA MintIsDue ==
    CacheInv /\ RideInv /\ CacheNext =>
     \A d \in Callers : MintStarts(d) => /\ clock >= holdUntil
                                         /\ Usable => clock >= rodeUntil
<1> SUFFICES ASSUME CacheInv, RideInv, CacheNext, NEW d \in Callers,
                    pc[d] # "signing", pc'[d] = "signing"
             PROVE  clock >= holdUntil /\ (Usable => clock >= rodeUntil)
  BY DEF MintStarts
<1>1. ~Fresh /\ ~InHold
  <2>1. CASE ClockTick BY <2>1 DEF ClockTick
  <2>2. ASSUME NEW c \in Callers, Ask(c) \/ Step(c) \/ Cancel(c) PROVE ~Fresh /\ ~InHold
    BY <2>2 DEF Ask, Step, Cancel, TryLock, Busy, Wake, Locked, Exchange, MintOk, MintFails,
                ReturnToken, Goto, CacheInv, CacheTypeOK
  <2> QED BY <2>1, <2>2 DEF CacheNext
<1>2. clock \in Nat /\ holdUntil \in Nat /\ rodeUntil \in Nat
  BY MarginsAssumption DEF CacheInv, CacheTypeOK
<1>3. clock >= holdUntil BY <1>1, <1>2 DEF InHold
<1>4. ASSUME Usable PROVE clock >= rodeUntil
  <2>1. cached \in Token /\ cached # NoToken BY <1>4 DEF Usable, CacheInv, CacheTypeOK
  <2>2. cached.refresh \in Nat /\ cached.hard \in Nat BY <2>1 DEF Token
  <2> QED BY <1>1, <1>2, <1>4, <2>1, <2>2 DEF Fresh, Usable, RideInv, Min2
<1> QED BY <1>3, <1>4

(* A client's mints are spaced: inside the hold of a throttled one none      *)
(* starts, with a token to ride or without, the hold never moves back, and   *)
(* after a failed refresh none starts inside FAILED_MINT_BACKOFF while the   *)
(* token ridden can be used; for any callers, hints and lifetimes.           *)
THEOREM SpacingHolds ==
    CacheSpec => MintsAreSpaced
<1>1. CacheInit => RideInv BY DEF CacheInit, RideInv
<1>2. CacheInv /\ RideInv /\ [CacheNext]_cacheVars =>
        [/\ holdUntil' >= holdUntil
         /\ \A c \in Callers : MintStarts(c) =>
               /\ clock >= holdUntil
               /\ Usable => clock >= rodeUntil]_cacheVars
  BY HoldGrows, MintIsDue
<1>3. CacheInv /\ RideInv /\ [CacheNext]_cacheVars => RideInv'
  BY RideStep
<1> QED BY <1>1, <1>2, <1>3, CacheInvariance, PTL DEF CacheSpec, MintsAreSpaced
=============================================================================
