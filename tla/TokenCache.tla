----------------------------- MODULE TokenCache -----------------------------
(***************************************************************************)
(* The access token cache of one client (KmsJwtAuth, src/auth.rs): many    *)
(* callers of the client and of its clones, a cached token with a soft and *)
(* a hard deadline, a mint lock, and the hold after a throttled mint. Each *)
(* client builds its own, so two clients of one credential mint side by    *)
(* side, which Alpaca accepts; a behaviour is of one client.               *)
(*                                                                         *)
(* Time is a counter of whole units. cached, mint_lock and mint_not_before *)
(* are three locks; only the holder of mint_lock writes the other two, so  *)
(* its steps between two awaits are one action.                            *)
(***************************************************************************)
EXTENDS Integers, Sequences

CONSTANTS
    Callers,        \* futures inside access_token
    RefreshMargin,  \* TOKEN_REFRESH_MARGIN
    HardMargin,     \* TOKEN_HARD_MARGIN
    FailedBackoff,  \* FAILED_MINT_BACKOFF
    MaxHold,        \* MAX_RETRY_AFTER_HOLD
    MaxLifetime,    \* TOKEN_MAX_LIFETIME
    MintTimeout,    \* MINT_HTTP_TIMEOUT
    Lifetimes,      \* the values expires_in may take
    Hints,          \* the values Retry-After may take, 0 for none
    MaxTime         \* bound: the clock stops there

ASSUME MarginsAssumption ==
    /\ {RefreshMargin, HardMargin, FailedBackoff, MaxHold, MaxLifetime,
        MintTimeout, MaxTime} \subseteq Nat
    /\ MintTimeout <= HardMargin
    /\ FailedBackoff <= MaxHold
    /\ Lifetimes \subseteq Nat /\ Hints \subseteq Nat

VARIABLES
    clock,        \* Instant::now()
    cached,     \* the cached token, or NoToken
    owner,      \* the holder of mint_lock, or NoOne
    queue,      \* callers awaiting mint_lock, first come first served
    holdUntil,  \* end of mint_not_before
    pc,         \* where each caller is
    got,        \* what each caller's last access_token returned
    sentAt,     \* when the caller's token exchange left, 0 outside one
    rodeUntil   \* history: when the backoff of the last fallback ends

cacheVars == <<clock, cached, owner, queue, holdUntil, pc, got, sentAt, rodeUntil>>

NoToken == [kind |-> "none"]
NoOne == "no one"

ASSUME NoOneAssumption == NoOne \notin Callers

Min2(a, b) == IF a < b THEN a ELSE b
Max2(a, b) == IF a > b THEN a ELSE b
saturating_sub(a, b) == IF a > b THEN a - b ELSE 0

\* expires is the expiry Alpaca gave the token, which the client only knows
\* through expires_in.
Token == [kind : {"token"}, refresh : Nat, hard : Nat, expires : Nat]

CacheInit ==
    /\ clock = 0
    /\ cached = NoToken
    /\ owner = NoOne /\ queue = << >>
    /\ holdUntil = 0
    /\ pc = [c \in Callers |-> "idle"]
    /\ got = [c \in Callers |-> "none"]
    /\ sentAt = [c \in Callers |-> 0]
    /\ rodeUntil = 0

\* cached_before for either deadline.
Fresh == cached # NoToken /\ clock < cached.refresh
Usable == cached # NoToken /\ clock < cached.hard

Goto(c, place) == pc' = [pc EXCEPT ![c] = place]

ReturnToken(c, what) ==
    /\ Goto(c, "idle")
    /\ got' = [got EXCEPT ![c] = what]

\* Dropping the guard hands the lock to the first waiter.
Unlock ==
    IF queue = << >>
    THEN owner' = NoOne /\ UNCHANGED queue
    ELSE owner' = Head(queue) /\ queue' = Tail(queue)

-----------------------------------------------------------------------------
(* access_token *)

\* The fast path: a token before its soft deadline, without the lock.
Ask(c) ==
    /\ pc[c] = "idle"
    /\ IF Fresh THEN ReturnToken(c, "cached")
       ELSE Goto(c, "try") /\ got' = [got EXCEPT ![c] = "none"]
    /\ UNCHANGED <<clock, cached, owner, queue, holdUntil, sentAt, rodeUntil>>

\* mint_lock.try_lock().
TryLock(c) ==
    /\ pc[c] = "try"
    /\ IF owner = NoOne
       THEN owner' = c /\ Goto(c, "locked")
       ELSE Goto(c, "busy") /\ UNCHANGED owner
    /\ UNCHANGED <<clock, cached, queue, holdUntil, got, sentAt, rodeUntil>>

\* Mutant: a caller that finds a mint in flight goes on without the lock.
BusyMints(c) ==
    /\ pc[c] = "busy"
    /\ IF Usable THEN ReturnToken(c, "cached") ELSE Goto(c, "signing") /\ UNCHANGED got
    /\ UNCHANGED <<clock, cached, owner, queue, holdUntil, sentAt, rodeUntil>>

\* A mint is in flight: ride the cached token, or wait for the lock.
Busy(c) ==
    /\ pc[c] = "busy"
    /\ IF Usable
       THEN ReturnToken(c, "cached") /\ UNCHANGED <<owner, queue>>
       ELSE /\ UNCHANGED got
            /\ IF owner = NoOne
               THEN owner' = c /\ Goto(c, "locked") /\ UNCHANGED queue
               ELSE queue' = Append(queue, c) /\ Goto(c, "queued") /\ UNCHANGED owner
    /\ UNCHANGED <<clock, cached, holdUntil, sentAt, rodeUntil>>

\* The lock was handed to a waiter.
Wake(c) ==
    /\ pc[c] = "queued" /\ owner = c
    /\ Goto(c, "locked")
    /\ UNCHANGED <<clock, cached, owner, queue, holdUntil, got, sentAt, rodeUntil>>

\* mint_not_before has not elapsed.
InHold == clock < holdUntil

\* Mutant: the hold of a throttled mint is not looked at.
LockedIgnoresHold(c) ==
    /\ pc[c] = "locked"
    /\ \/ Fresh /\ ReturnToken(c, "cached") /\ Unlock
       \/ ~Fresh /\ ReturnToken(c, "error") /\ Unlock
       \/ ~Fresh /\ Goto(c, "signing") /\ UNCHANGED <<got, owner, queue>>
    /\ UNCHANGED <<clock, cached, holdUntil, sentAt, rodeUntil>>

\* Under the lock: another mint may have refreshed; inside the hold no mint
\* starts; a closed send gate (ensure_open) starts none either.
Locked(c) ==
    /\ pc[c] = "locked"
    /\ \/ /\ Fresh \/ (InHold /\ Usable)
          /\ ReturnToken(c, "cached") /\ Unlock
       \/ /\ ~Fresh
          /\ InHold => ~Usable       \* the 429 of the hold, or a closed gate
          /\ ReturnToken(c, "error") /\ Unlock
       \/ /\ ~Fresh /\ ~InHold
          /\ Goto(c, "signing") /\ UNCHANGED <<got, owner, queue>>
    /\ UNCHANGED <<clock, cached, holdUntil, sentAt, rodeUntil>>

\* sign_assertion succeeded; the token exchange leaves.
Exchange(c) ==
    /\ pc[c] = "signing"
    /\ Goto(c, "exchanging")
    /\ sentAt' = [sentAt EXCEPT ![c] = clock]
    /\ UNCHANGED <<clock, cached, owner, queue, holdUntil, got, rodeUntil>>

\* Mutant: the hard deadline is the stated expiry itself.
MintedNoMargin(expiresIn, issued) ==
    LET lifetime == Min2(expiresIn, MaxLifetime)
        hard == clock + lifetime
    IN [kind |-> "token",
        refresh |-> Min2(clock + Max2(saturating_sub(lifetime, RefreshMargin),
                                    lifetime \div 2), hard),
        hard |-> hard,
        expires |-> issued + expiresIn]

\* The deadlines mint derives from expires_in, measured from the response.
Minted(expiresIn, issued) ==
    LET lifetime == Min2(expiresIn, MaxLifetime)
        hard == clock + saturating_sub(lifetime, HardMargin)
    IN [kind |-> "token",
        refresh |-> Min2(clock + Max2(saturating_sub(lifetime, RefreshMargin),
                                    lifetime \div 2), hard),
        hard |-> hard,
        expires |-> issued + expiresIn]

\* Alpaca issued the token some time between the request and the answer.
MintOk(c) ==
    /\ pc[c] = "exchanging"
    /\ \E expiresIn \in Lifetimes, issued \in sentAt[c]..clock :
          cached' = Minted(expiresIn, issued)
    /\ ReturnToken(c, "minted") /\ Unlock
    /\ rodeUntil' = 0
    /\ sentAt' = [sentAt EXCEPT ![c] = 0]
    /\ UNCHANGED <<clock, holdUntil>>

\* throttle_hint: the header capped to the hold.
throttle_hint(h) == Min2(h, MaxHold)

\* defer_next_refresh.
defer_next_refresh(wait) ==
    [cached EXCEPT !.refresh = Min2(clock + Max2(FailedBackoff, wait), cached.hard)]

\* The mint failed: signing or exchange, throttled or not, timeouts included.
MintFails(c, hint, limited) ==
    /\ pc[c] \in {"signing", "exchanging"}
    /\ LET wait == throttle_hint(hint) IN
       /\ holdUntil' = IF limited
                       THEN clock + Min2(Max2(wait, FailedBackoff), MaxHold)
                       ELSE holdUntil
       /\ IF Usable
          THEN /\ cached' = defer_next_refresh(wait)
               /\ rodeUntil' = clock + FailedBackoff
               /\ ReturnToken(c, "cached")
          ELSE UNCHANGED <<cached, rodeUntil>> /\ ReturnToken(c, "error")
    /\ Unlock
    /\ sentAt' = [sentAt EXCEPT ![c] = 0]
    /\ UNCHANGED clock

\* Mutant: the lock is given back where access_token returns, not by a guard.
CancelKeepsLock(c) ==
    /\ pc[c] \in {"signing", "exchanging"}
    /\ Goto(c, "idle")
    /\ sentAt' = [sentAt EXCEPT ![c] = 0]
    /\ UNCHANGED <<clock, cached, owner, queue, holdUntil, got, rodeUntil>>

\* The caller's future is dropped at an await, its guard with it.
Cancel(c) ==
    /\ pc[c] \in {"queued", "signing", "exchanging"}
    /\ IF owner = c THEN Unlock
       ELSE /\ \E i \in DOMAIN queue :
                  /\ queue[i] = c
                  /\ queue' = SubSeq(queue, 1, i - 1) \o SubSeq(queue, i + 1, Len(queue))
            /\ UNCHANGED owner
    /\ Goto(c, "idle")
    /\ sentAt' = [sentAt EXCEPT ![c] = 0]
    /\ UNCHANGED <<clock, cached, holdUntil, got, rodeUntil>>

\* The clock. An exchange ends within its HTTP timeout.
ClockTick ==
    /\ clock < MaxTime
    /\ \A c \in Callers : pc[c] = "exchanging" => clock < sentAt[c] + MintTimeout
    /\ clock' = clock + 1
    /\ UNCHANGED <<cached, owner, queue, holdUntil, pc, got, sentAt, rodeUntil>>

-----------------------------------------------------------------------------

Step(c) ==
    \/ TryLock(c) \/ Busy(c) \/ Wake(c) \/ Locked(c) \/ Exchange(c) \/ MintOk(c)
    \/ \E hint \in Hints, limited \in BOOLEAN : MintFails(c, hint, limited)

CacheNext == ClockTick \/ \E c \in Callers : Ask(c) \/ Step(c) \/ Cancel(c)

CacheSpec == CacheInit /\ [][CacheNext]_cacheVars

\* A caller that is not waiting for another is polled, and a mint ends: each
\* of its round trips has a timeout.
CacheFairSpec == CacheSpec /\ \A c \in Callers : WF_cacheVars(Step(c))

-----------------------------------------------------------------------------
(* Properties *)

CacheTypeOK ==
    /\ clock \in 0..MaxTime
    /\ cached \in Token \cup {NoToken}
    /\ owner \in Callers \cup {NoOne}
    /\ queue \in Seq(Callers)
    /\ holdUntil \in Nat
    /\ pc \in [Callers -> {"idle", "try", "busy", "queued", "locked", "signing",
                           "exchanging"}]
    /\ got \in [Callers -> {"none", "cached", "minted", "error"}]
    /\ sentAt \in [Callers -> Nat]
    /\ rodeUntil \in Nat

Minting == {c \in Callers : pc[c] \in {"signing", "exchanging"}}

\* One mint at a time in a client, for all its clones and callers, and only by
\* the holder of mint_lock, through every cancellation and hand over.
OneMint == \A c \in Minting : Minting = {c} /\ owner = c

\* A token taken from the cache has not expired at Alpaca, however late the
\* mint's answer came (TOKEN_HARD_MARGIN against MINT_HTTP_TIMEOUT).
CachedTokenLives ==
    [][\A c \in Callers : got[c] # "cached" /\ got'[c] = "cached"
                          => clock < cached.expires]_cacheVars

\* A mint starts, its assertion about to be signed.
MintStarts(c) == pc[c] # "signing" /\ pc'[c] = "signing"

\* After a throttled mint none starts before its hold is over, whether there is
\* a token to ride or not, and mint_not_before, which is overwritten and not
\* extended, never moves back. After a failed refresh that fell back on the
\* cached token none starts before FAILED_MINT_BACKOFF while that token can be
\* used. (A mint that fails otherwise with no token to ride, or whose caller
\* goes away, may be followed by another at once.)
MintsAreSpaced ==
    [][/\ holdUntil' >= holdUntil
       /\ \A c \in Callers : MintStarts(c) =>
             /\ clock >= holdUntil
             /\ Usable => clock >= rodeUntil]_cacheVars

\* A caller that waits for another's mint gets its own answer in the end.
WaitersReturn == \A c \in Callers : pc[c] = "queued" ~> pc[c] = "idle"
=============================================================================
