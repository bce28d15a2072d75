------------------------------ MODULE Admission ------------------------------
(***************************************************************************)
(* How the gateway admits a request (crates/gateway/src: routes.rs, auth.rs, *)
(* budget.rs, and admit of state.rs): the route, the caller's identity,      *)
(* verified with signing keys that Google rotates and the verifier caches,   *)
(* the deployment's checks, and the budget of the human tiers. Requests run  *)
(* concurrently; each lock and each await is a step of its own. The tiers'    *)
(* verifiers and the human budget share no state, so a behaviour follows the *)
(* requests of one tier: the bot's, whose credentials are verified and which *)
(* take no budget, or a human's, identified by the same code over keys of    *)
(* its own, which start at the handler.                                      *)
(***************************************************************************)
EXTENDS Integers, FiniteSets, FiniteSetsExt, Functions

CONSTANTS
    Requests,
    JWKS_TTL, REFRESH_FLOOR, FetchTimeout,
    WINDOW,         \* of the budget
    PerMinute,      \* per_minute
    LockDelay,      \* bound: from a reading of the clock to the budget's lock
    MaxKey,         \* bound: signing keys
    MaxNow          \* bound: time

ASSUME AdmissionAssumption ==
    /\ {JWKS_TTL, REFRESH_FLOOR, FetchTimeout, WINDOW, PerMinute, LockDelay,
        MaxKey, MaxNow} \subseteq Nat
    /\ FetchTimeout < REFRESH_FLOOR
    /\ LockDelay < WINDOW

VARIABLES
    tier,                   \* of the requests of this behaviour
    now,
    published,              \* when each signing key was published, -1 before
    keys,                   \* the verifier's keys, or none: a set and its expires_at
    last_refresh_attempt,   \* -1 before the first
    fetch_lost,             \* whether the last attempt to end brought no keys
    budget,                 \* window: its start (-1 before the first) and the units used
    shutdown,
    passed,                 \* human calls let through, by tick
    req                     \* per request: stage, what it carries, what it has read

vars == <<tier, now, published, keys, last_refresh_attempt, fetch_lost, budget, shutdown, passed, req>>

Keys == 1..MaxKey
NoKeys == [set |-> {}, expires_at |-> -1]
Cold == keys = NoKeys

\* Google publishes the newest key and the one before it.
PublishedNow == LET out == {k \in Keys : published[k] >= 0} IN
                IF out = {} THEN {} ELSE {k \in out : k >= Max(out) - 1}

Idle == [stage |-> "none", kid |-> 0, cost |-> 0, reason |-> TRUE,
         at |-> 0, cold |-> FALSE, keys |-> {}, flying |-> FALSE, answer |-> "none"]

Init ==
    /\ tier \in {"bot", "read", "write"}
    /\ now = 0 /\ published = [k \in Keys |-> IF k = 1 THEN 0 ELSE -1]
    /\ keys = NoKeys /\ last_refresh_attempt = -1 /\ fetch_lost = FALSE
    /\ budget = [started |-> -1, used |-> 0] /\ shutdown = FALSE
    /\ passed = [t \in 0..MaxNow |-> 0]
    /\ req = [r \in Requests |-> Idle]

caches == <<keys, last_refresh_attempt, fetch_lost>>
rest == <<tier, now, published, shutdown>>

Finish(r, a) == req' = [req EXCEPT ![r].stage = "done", ![r].answer = a]
Go(r, stage) == req' = [req EXCEPT ![r].stage = stage]

-----------------------------------------------------------------------------
(* The route and the credential *)

\* cost: the keyed reads a caller polls are free.
cost(operation) == IF operation = "keyed read" THEN 0 ELSE 1

\* routes: a mutation has no route under the read tier.
Served(operation) == tier = "read" => operation # "mutation"

\* A request of a bot. Its credential is missing or malformed, or names a
\* signing key, one of Google's or not (0).
ArriveBot(r) ==
    /\ tier = "bot" /\ req[r].stage = "none"
    /\ \/ Finish(r, "unauthenticated")
       \/ \E kid \in {0} \cup {k \in Keys : published[k] >= 0} :
            req' = [req EXCEPT ![r].stage = "lookup", ![r].kid = kid]
    /\ UNCHANGED <<rest, caches, budget, passed>>

\* A request of a human the tier's verifier has identified.
ArriveHuman(r) ==
    /\ tier # "bot" /\ req[r].stage = "none"
    /\ \E operation \in {"keyed read", "read", "mutation"}, reason \in BOOLEAN :
         /\ operation = "mutation" \/ reason
         /\ IF Served(operation)
            THEN req' = [req EXCEPT ![r].stage = "admit", ![r].cost = cost(operation), ![r].reason = reason]
            ELSE Finish(r, "unknown_operation")
    /\ UNCHANGED <<rest, caches, budget, passed>>

-----------------------------------------------------------------------------
(* The signing keys *)

\* cached_key(kid, allow_stale).
cached_key(kid, allow_stale) == (allow_stale \/ now < keys.expires_at) /\ kid \in keys.set

\* verify and identify with the key in hand: the token is valid and its
\* subject allowed, or refused.
Decode(r) ==
    \/ Go(r, "admit")
    \/ Finish(r, "unauthenticated")
    \/ Finish(r, "forbidden")

\* decoding_key, its first look.
Lookup(r) ==
    /\ req[r].stage = "lookup"
    /\ IF cached_key(req[r].kid, FALSE) THEN Decode(r) ELSE Go(r, "refresh")
    /\ UNCHANGED <<rest, caches, budget, passed>>

\* refresh looks again, and whether there are keys at all.
Recheck(r) ==
    /\ req[r].stage = "refresh"
    /\ req' = [req EXCEPT ![r].stage = IF cached_key(req[r].kid, FALSE) THEN "last look" ELSE "floor",
                          ![r].cold = Cold]
    /\ UNCHANGED <<rest, caches, budget, passed>>

\* Mutant: every miss fetches.
floorAlways == TRUE

\* Mutant: the keys are fetched once.
floorOnce == last_refresh_attempt < 0

\* An attempt is made once per REFRESH_FLOOR.
floor_passed == last_refresh_attempt < 0 \/ now - last_refresh_attempt >= REFRESH_FLOOR

\* Within the floor of another attempt the request goes on with the keys there
\* are, if there were any.
Attempt(r) ==
    /\ req[r].stage = "floor"
    /\ IF floor_passed
       THEN /\ last_refresh_attempt' = now
            /\ req' = [req EXCEPT ![r].stage = "fetching", ![r].at = now]
       ELSE /\ UNCHANGED last_refresh_attempt
            /\ IF req[r].cold THEN Finish(r, "unavailable") ELSE Go(r, "last look")
    /\ UNCHANGED <<rest, keys, fetch_lost, budget, passed>>

\* Google answers with the keys it publishes; the response is on its way.
KeysServed(r) ==
    /\ req[r].stage = "fetching"
    /\ req' = [req EXCEPT ![r].stage = "served", ![r].keys = PublishedNow]
    /\ UNCHANGED <<rest, caches, budget, passed>>

KeysStored(r) ==
    /\ req[r].stage = "served"
    /\ keys' = [set |-> req[r].keys, expires_at |-> now + JWKS_TTL]
    /\ fetch_lost' = FALSE
    /\ Go(r, "last look")
    /\ UNCHANGED <<rest, last_refresh_attempt, budget, passed>>

\* No answer in time, a status, a body without a usable key.
FetchFails(r) ==
    /\ req[r].stage \in {"fetching", "served"}
    /\ fetch_lost' = TRUE
    /\ IF Cold THEN Finish(r, "unavailable") ELSE Go(r, "last look")
    /\ UNCHANGED <<rest, keys, last_refresh_attempt, budget, passed>>

\* Where the future that identifies a caller awaits a lock or Google.
Awaiting == {"lookup", "refresh", "fetching", "served", "last look"}

\* The caller goes away and the future that identifies it is dropped at an
\* await: a fetch on its way is given up, and the attempt stays noted.
CallerGone(r) ==
    /\ req[r].stage \in Awaiting
    /\ IF req[r].stage \in {"fetching", "served"} THEN fetch_lost' = TRUE ELSE UNCHANGED fetch_lost
    /\ req' = [req EXCEPT ![r] = Idle]
    /\ UNCHANGED <<rest, keys, last_refresh_attempt, budget, passed>>

\* The last look takes expired keys too.
LastLook(r) ==
    /\ req[r].stage = "last look"
    /\ IF cached_key(req[r].kid, TRUE) THEN Decode(r)
       ELSE req' = [req EXCEPT ![r].stage = "done", ![r].answer = "unknown key",
                      ![r].flying = \E q \in Requests : req[q].stage \in {"fetching", "served"}]
    /\ UNCHANGED <<rest, caches, budget, passed>>

-----------------------------------------------------------------------------
(* Admission *)

\* admit: the checks in their order; the clock is read before the budget's lock.
Admit(r) ==
    /\ req[r].stage = "admit"
    /\ IF shutdown THEN Finish(r, "unavailable")
       ELSE IF ~req[r].reason THEN Finish(r, "invalid")
       ELSE IF tier = "bot" \/ req[r].cost = 0 THEN Finish(r, "admitted")
       ELSE req' = [req EXCEPT ![r].stage = "budget", ![r].at = now]
    /\ UNCHANGED <<rest, caches, budget, passed>>

\* An operation the deployment has disabled.
Disabled(r) ==
    /\ req[r].stage = "admit" /\ ~shutdown
    /\ Finish(r, "capability_disabled")
    /\ UNCHANGED <<rest, caches, budget, passed>>

\* Mutant: the units are reset and the window stays where it was.
windowUnmoved(at) ==
    IF budget.started < 0 THEN [started |-> at, used |-> 0]
    ELSE IF at - budget.started >= WINDOW THEN [budget EXCEPT !.used = 0] ELSE budget

\* The window a reading falls in; a reading older than it counts into it.
window_at(at) ==
    IF budget.started < 0 \/ at - budget.started >= WINDOW THEN [started |-> at, used |-> 0]
    ELSE budget

\* take_at, under the lock; a refusal says when the window resets.
Take(r) ==
    /\ req[r].stage = "budget"
    /\ LET w == window_at(req[r].at) IN
         IF w.used + req[r].cost > PerMinute
         THEN budget' = w /\ Finish(r, "backpressure") /\ UNCHANGED passed
         ELSE /\ budget' = [w EXCEPT !.used = @ + req[r].cost]
              /\ Finish(r, "admitted")
              /\ passed' = [passed EXCEPT ![now] = @ + req[r].cost]
    /\ UNCHANGED <<rest, caches>>

-----------------------------------------------------------------------------

Return(r) ==
    /\ req[r].stage = "done"
    /\ req' = [req EXCEPT ![r] = Idle]
    /\ UNCHANGED <<rest, caches, budget, passed>>

\* Google publishes another key.
Rotate ==
    /\ tier = "bot" /\ Cardinality({k \in Keys : published[k] >= 0}) < MaxKey
    /\ published' = [published EXCEPT ![Min({k \in Keys : published[k] < 0})] = now]
    /\ UNCHANGED <<tier, now, shutdown, caches, budget, passed, req>>

Shutdown ==
    /\ ~shutdown /\ shutdown' = TRUE
    /\ UNCHANGED <<tier, now, published, caches, budget, passed, req>>

\* Time passes in an await: of a fetch no longer than its timeout, of the
\* budget's lock no longer than LockDelay; other steps take none.
Tick ==
    /\ now < MaxNow
    /\ \A r \in Requests :
         \/ req[r].stage = "none"
         \/ req[r].stage \in {"fetching", "served"} /\ now - req[r].at < FetchTimeout
         \/ req[r].stage = "budget" /\ now - req[r].at < LockDelay
    /\ now' = now + 1
    /\ UNCHANGED <<tier, published, shutdown, caches, budget, passed, req>>

Next ==
    \/ \E r \in Requests :
         \/ ArriveBot(r) \/ ArriveHuman(r) \/ Lookup(r) \/ Recheck(r) \/ Attempt(r) \/ KeysServed(r) \/ KeysStored(r)
         \/ FetchFails(r) \/ CallerGone(r) \/ LastLook(r) \/ Admit(r) \/ Disabled(r) \/ Take(r) \/ Return(r)
    \/ Rotate \/ Shutdown \/ Tick

Spec == Init /\ [][Next]_vars

-----------------------------------------------------------------------------
(* Properties *)

\* Units of human calls let through from tick a to tick b.
PassedIn(a, b) == SumFunction([t \in {t \in 0..now : a <= t /\ t <= b} |-> passed[t]])

\* A fetch that was overtaken by a later one never puts an older key set back:
\* the keys the verifier holds never lose the newest one.
KeysNeverGoBack == [][keys.set # {} => Max(keys'.set \cup {0}) >= Max(keys.set)]_vars

\* A fetch that brought no keys holds the next one back.
FloorOfLostFetch == fetch_lost /\ last_refresh_attempt >= 0 /\ now - last_refresh_attempt < REFRESH_FLOOR

\* A token signed with one of Google's keys is refused for an unknown key only
\* while another request is fetching it, within a REFRESH_FLOOR of the key's
\* publication, once two newer keys have been published, or within a
\* REFRESH_FLOOR of an attempt that brought no keys: it failed, or its caller
\* went away in the middle, which refuses every other caller of a new key
\* until the floor is over. Without keys at all the answer is "unavailable",
\* and only then or at shutdown.
RefusedOnlyForAReason ==
    \A r \in Requests : req[r].stage = "done" =>
        /\ req[r].answer = "unknown key" /\ req[r].kid > 0 =>
              \/ req[r].flying \/ FloorOfLostFetch
              \/ now < published[req[r].kid] + REFRESH_FLOOR
              \/ \E k \in Keys : k > req[r].kid + 1 /\ published[k] >= 0
        /\ req[r].answer = "unavailable" => shutdown \/ req[r].cold

\* However the readings of the clock and the lock interleave, any WINDOW less
\* the lock's delay sees at most two windows' worth of human calls, and a human
\* call is refused only when a whole budget has passed within a WINDOW and the
\* lock's delay.
BudgetHolds ==
    /\ \A t \in 0..now : PassedIn(t, t + WINDOW - LockDelay - 1) <= 2 * PerMinute
    /\ \A r \in Requests : req[r].answer = "backpressure" =>
          PassedIn(now - WINDOW - LockDelay + 1, now) >= PerMinute
=============================================================================
