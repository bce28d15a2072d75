---------------------------- MODULE ActionStream ----------------------------
(***************************************************************************)
(* The corporate action stream: the endpoint check and the client's         *)
(* connection (src/corporate_actions), the gateway's relay of it            *)
(* (handlers/corporate_actions.rs), and the incremental SSE decoder, which   *)
(* sees the body cut into chunks anywhere. Bytes are tokens: the two line    *)
(* endings, a comment's colon, padding, and the fields of an event. The      *)
(* consumer commits decoded events to a durable cursor and resumes from it,  *)
(* or reads a finite window again from its start; it gives up when the       *)
(* gateway's answer says a retry is of no use. It is modelled from what the  *)
(* client offers it.                                                         *)
(***************************************************************************)
EXTENDS Integers, Sequences, SequencesExt, FiniteSetsExt

CONSTANTS
    MaxFrame,   \* MAX_SSE_FRAME_BYTES, in tokens
    Logs        \* the event logs Alpaca may hold

VARIABLES
    log,        \* Alpaca's frames, oldest first; frame i is event i
    url,        \* the configured endpoint
    broken,     \* whether no connection can succeed: a revoked credential, a
                \* redirect, another content type
    window,     \* whether the replay is a finite window
    conn,       \* "closed", "open", "failed", "refused" (not worth a retry),
                \* "cut", "poisoned", "complete"
    request,    \* the request a connection was opened with
    wire,       \* what the response still holds
    decoder,    \* buffer and skip_leading_lf
    batch,      \* events decoded and not yet committed
    poison,     \* what rejected a frame, and the event it names
    cursor,     \* the durable since_id cursor, 0 without one
    committed,  \* events the consumer has committed
    relay       \* the gateway: "up" or "stopping"

streamVars == <<log, url, broken, window, conn, request, wire, decoder, batch, poison, cursor,
                committed, relay>>

\* Tokens: the fields of event i are i itself.
CR == -1
LF == -2
PAD == -3
COLON == -4

-----------------------------------------------------------------------------
(* Alpaca's log and how a frame is written *)

\* SEPARATORS: the prefixes of a separator that are not one already.
SEPARATORS == {<<LF, LF>>, <<LF, CR>>, <<LF, CR, LF>>, <<CR, CR>>, <<CR, LF, LF>>,
               <<CR, LF, CR>>, <<CR, LF, CR, LF>>}

\* Two line endings of any kind.
Separators == SEPARATORS \cup {<<CR, CR, LF>>}

Body(i, layout) ==
    CASE layout = "line" -> <<i>>
      [] layout = "two lines" -> <<i, LF, PAD>>
      [] layout = "crlf" -> <<i, CR, LF, PAD>>
      [] layout = "comment" -> <<COLON>>
      [] layout = "full" -> <<i>> \o [n \in 1..(MaxFrame - 1) |-> PAD]
      [] layout = "large" -> <<i>> \o [n \in 1..(MaxFrame + 3) |-> PAD]

Frame(i) == Body(i, log[i].layout) \o log[i].separator

RECURSIVE Written(_)
Written(i) == IF i > Len(log) THEN <<>> ELSE Frame(i) \o Written(i + 1)

\* What the fields of an event say: the SSE id and the payload's, the mutation
\* the event names and the payload's, the region and the corporate action, and
\* whether the payload parses at all, as an envelope or for its id only.
Shape ==
    [sse : {"own", "bad", "none"}, payload : {"own", "other", "none", "bad"},
     json : {"envelope", "identity", "none"}, data : BOOLEAN,
     event : {"own", "other", "none"}, action : {"own", "other", "none"},
     us : BOOLEAN, ca : BOOLEAN, utf8 : BOOLEAN]

ASSUME StreamAssumption ==
    /\ MaxFrame \in Nat \ {0}
    /\ \A l \in Logs : l # <<>> /\ \A i \in DOMAIN l : l[i].shape \in Shape

-----------------------------------------------------------------------------
(* The endpoint *)

Urls ==
    [scheme : {"https", "http"}, host : {"alpaca", "loopback", "other"},
     forbidden : BOOLEAN, development : BOOLEAN]

\* Embedded credentials, a fragment or a replay parameter of its own are
\* forbidden; a plain HTTP loopback is served in development, without
\* credentials; anything else is Alpaca over HTTPS.
parse(u) ==
    IF u.forbidden THEN "refused"
    ELSE IF u.development /\ u.scheme = "http" /\ u.host = "loopback" THEN "CredentialFree"
    ELSE IF u.scheme # "https" \/ u.host # "alpaca" THEN "refused"
    ELSE "Authenticated"

-----------------------------------------------------------------------------
(* The decoder *)

line_ending_len(s, at) ==
    IF at > Len(s) THEN 0
    ELSE IF s[at] = CR /\ at < Len(s) /\ s[at + 1] = LF THEN 2
    ELSE IF s[at] \in {CR, LF} THEN 1
    ELSE 0

\* The positions a frame may end at: two line endings follow.
Boundaries(buffer) ==
    {at \in 0..(Len(buffer) - 1) :
        LET first == line_ending_len(buffer, at + 1) IN
        first > 0 /\ line_ending_len(buffer, at + 1 + first) > 0}

SeparatorLen(buffer, at) ==
    LET first == line_ending_len(buffer, at + 1)
    IN  first + line_ending_len(buffer, at + 1 + first)

\* Mutant: the limit leaves no room for a separator cut in two.
terminatesAtOnce(buffer) == Len(buffer) <= MaxFrame

\* Past the limit only a separator may follow.
can_still_terminate_within_limit(buffer) ==
    \/ Len(buffer) <= MaxFrame
    \/ \E s \in SEPARATORS : IsPrefix(SubSeq(buffer, MaxFrame + 1, Len(buffer)), s)

\* decode_sse_frame: the fields of an event must agree where both are given.
decode_sse_frame(shape) ==
    IF ~shape.data THEN "MissingData"
    ELSE IF shape.sse = "bad" THEN "InvalidEventId"
    ELSE IF shape.json # "envelope" THEN "InvalidPayload"
    ELSE IF shape.sse = "own" /\ shape.payload \notin {"own", "none"} THEN "EventIdMismatch"
    ELSE IF shape.sse = "none" /\ shape.payload = "none" THEN "MissingEventId"
    ELSE IF shape.sse = "none" /\ shape.payload = "bad" THEN "InvalidEventId"
    ELSE IF shape.event # "none" /\ shape.action # "none" /\ shape.event # shape.action
    THEN "MutationMismatch"
    ELSE IF shape.event = "none" /\ shape.action = "none" THEN "MissingMutation"
    ELSE IF "other" \in {shape.event, shape.action} THEN "UnsupportedMutation"
    ELSE IF ~shape.us THEN "NonUsRegion"
    ELSE IF ~shape.ca THEN "InvalidAction"
    ELSE "ok"

\* The event a rejected frame names: its SSE id, or else a valid payload id.
sse_event_identity(i, shape) ==
    CASE shape.sse = "own" -> i
      [] shape.sse = "none" /\ shape.utf8 /\ shape.json # "none" /\ shape.payload = "own" -> i
      [] OTHER -> 0

Index(frame) == CHOOSE i \in 1..Len(log) : i \in ToSet(frame)
IsComment(frame) == ToSet(frame) \subseteq {CR, LF, COLON}

\* What a complete frame becomes.
Decoded(frame) ==
    IF IsComment(frame) THEN [event |-> 0, error |-> "none", named |-> 0]
    ELSE LET i == Index(frame)
             shape == log[i].shape
             error == IF shape.utf8 THEN decode_sse_frame(shape) ELSE "InvalidUtf8"
         IN  IF error = "ok" THEN [event |-> i, error |-> "none", named |-> 0]
             ELSE [event |-> 0, error |-> error, named |-> sse_event_identity(i, shape)]

Empty == [buffer |-> <<>>, skip |-> FALSE]
NoPoison == [error |-> "none", named |-> 0]
Poisoned(out, error, named) ==
    [decoder |-> Empty, out |-> out, poison |-> [error |-> error, named |-> named]]

\* Mutant: a CR at the end of the input is not remembered.
skipNever(buffer, consumed) == FALSE

\* The separator ended with a CR at the end of the input: a LF that comes next
\* belongs to it.
skip_leading_lf(buffer, consumed) == consumed = Len(buffer) /\ buffer[consumed] = CR

\* Every complete frame of the buffer, the events found so far before it.
RECURSIVE Drain(_, _)
Drain(buffer, out) ==
    IF Boundaries(buffer) = {}
    THEN IF can_still_terminate_within_limit(buffer)
         THEN [decoder |-> [buffer |-> buffer, skip |-> FALSE], out |-> out, poison |-> NoPoison]
         ELSE Poisoned(out, "FrameTooLarge", 0)
    ELSE LET at == Min(Boundaries(buffer))
             consumed == at + SeparatorLen(buffer, at)
             frame == Decoded(SubSeq(buffer, 1, at))
             rest == SubSeq(buffer, consumed + 1, Len(buffer))
             found == IF frame.event = 0 THEN out ELSE Append(out, frame.event)
         IN  IF at > MaxFrame THEN Poisoned(out, "FrameTooLarge", 0)
             ELSE IF frame.error # "none" THEN Poisoned(out, frame.error, frame.named)
             ELSE IF rest = <<>>
             THEN [decoder |-> [buffer |-> <<>>, skip |-> skip_leading_lf(buffer, consumed)],
                   out |-> found, poison |-> NoPoison]
             ELSE Drain(rest, found)

Decoders == [buffer : Seq(Int), skip : BOOLEAN]

\* push: the chunk is taken up to the buffer's limit at a time.
push[d \in Decoders, chunk \in Seq(Int), out \in Seq(Nat)] ==
    IF chunk = <<>> THEN [decoder |-> d, out |-> out, poison |-> NoPoison]
    ELSE IF d.skip /\ Head(chunk) = LF THEN push[[d EXCEPT !.skip = FALSE], Tail(chunk), out]
    ELSE LET available == MaxFrame + 4 - Len(d.buffer)
             accepted == Min({Len(chunk), available})
             drained == Drain(d.buffer \o SubSeq(chunk, 1, accepted), out)
         IN  IF available = 0 THEN Poisoned(out, "FrameTooLarge", 0)
             ELSE IF drained.poison # NoPoison THEN drained
             ELSE push[drained.decoder, SubSeq(chunk, accepted + 1, Len(chunk)), drained.out]

has_pending_frame == decoder.buffer # <<>>

-----------------------------------------------------------------------------
(* Opening the stream *)

\* ReplayQuery: which parameters a query has, and whether since lies ahead.
Queries == [since_id : BOOLEAN, since : {"none", "past", "future"}, until : BOOLEAN]

\* CorporateActionReplay::try_from: a cursor comes alone, an until only with a
\* since, and a since is not in the future.
replay(q) ==
    IF ~q.since_id /\ q.since = "none" /\ ~q.until THEN "Live"
    ELSE IF q.since_id /\ q.since = "none" /\ ~q.until THEN "SinceId"
    ELSE IF q.since_id \/ q.since = "none" THEN "refused"
    ELSE IF q.since = "future" THEN "refused"
    ELSE IF q.until THEN "Window" ELSE "Since"

\* What the consumer asks for: its window, its cursor or the bootstrap instant;
\* with a clock that is off, or with its cursor and a bound, it is refused.
Asked(q) ==
    /\ q.until = window
    /\ q.since_id = (cursor # 0 /\ q.since = "none")
    /\ q.since = "none" => cursor # 0

\* What opening the stream fails with. Those below never clear.
OpenErrors == {"Auth throttled", "Auth transport", "NotSent", "connect", "cut", "429", "5xx"}
BrokenErrors == {"Auth deterministic", "builder", "3xx", "4xx", "content type"}

\* Mutant: a connection that breaks off while it opens is final.
openingRetried(e) == e \notin BrokenErrors \cup {"cut"}

\* answer::corporate_actions: whether the failure says it may be retried.
corporate_actions(e) ==
    CASE e \in {"429", "Auth throttled"} -> TRUE
      [] e \in {"NotSent", "connect"} -> TRUE
      [] e = "builder" -> FALSE
      [] e \in {"Auth transport", "Auth deterministic"} -> e = "Auth transport"
      [] e \in {"3xx", "4xx", "content type"} -> FALSE
      [] OTHER -> TRUE

NoRequest == [scheme |-> "none", host |-> "none", credentials |-> FALSE, replay |-> "none"]

StreamInit(urls) ==
    /\ url \in urls /\ window \in BOOLEAN /\ broken \in BOOLEAN
    /\ log = <<>> /\ conn = "closed" /\ request = NoRequest
    /\ wire = <<>> /\ decoder = Empty /\ batch = <<>> /\ poison = NoPoison
    /\ cursor = 0 /\ committed = {} /\ relay = "up"

\* The client is built: Alpaca holds some log.
Build ==
    /\ log = <<>> /\ parse(url) # "refused"
    /\ log' \in Logs
    /\ UNCHANGED <<url, broken, window, conn, request, wire, decoder, batch, poison, cursor, committed,
                   relay>>

\* Where Alpaca starts: the cursor's own event is delivered again, a since
\* starts at the bootstrap instant. Nothing before the live end is delivered
\* without either.
From(position) ==
    CASE position = "SinceId" -> cursor
      [] position = "Live" -> Len(log) + 1
      [] OTHER -> 1

Opening == log # <<>> /\ conn \notin {"open", "refused"} /\ batch = <<>>

\* connect: the request carries credentials only on the authenticated
\* transport, and the replay position.
Connect(q) ==
    /\ Opening /\ relay = "up" /\ ~broken
    /\ Asked(q) /\ replay(q) # "refused"
    /\ conn' = "open"
    /\ request' = [scheme |-> url.scheme, host |-> url.host, replay |-> replay(q),
                   credentials |-> parse(url) = "Authenticated"]
    /\ wire' = Written(From(replay(q)))
    /\ decoder' = Empty /\ poison' = NoPoison
    /\ UNCHANGED <<log, url, broken, window, batch, cursor, committed, relay>>

\* A query that names no position is an invalid request; the consumer asks
\* again with another.
QueryRefused(q) ==
    /\ Opening /\ relay = "up"
    /\ Asked(q) /\ replay(q) = "refused"
    /\ conn' = "failed"
    /\ UNCHANGED <<log, url, broken, window, request, wire, decoder, batch, poison, cursor,
                   committed, relay>>

\* The stream does not open, and the consumer heeds the answer.
ConnectFails(e) ==
    /\ Opening
    /\ e \in BrokenErrors => broken
    /\ conn' = IF corporate_actions(e) THEN "failed" ELSE "refused"
    /\ UNCHANGED <<log, url, broken, window, request, wire, decoder, batch, poison, cursor,
                   committed, relay>>

\* next_batch: the first n tokens arrive and are decoded. The consumer commits
\* a batch before it asks for the next, and stops at a poison.
Chunk(n) ==
    /\ conn = "open" /\ relay = "up" /\ batch = <<>>
    /\ n \in 1..Len(wire)
    /\ \E result \in {push[decoder, SubSeq(wire, 1, n), <<>>]} :
       /\ decoder' = result.decoder
       /\ batch' = result.out
       /\ poison' = result.poison
       /\ conn' = IF result.poison = NoPoison THEN "open" ELSE "poisoned"
    /\ wire' = SubSeq(wire, n + 1, Len(wire))
    /\ UNCHANGED <<log, url, broken, window, request, cursor, committed, relay>>

\* Alpaca closes a window at its bound; a body cut inside a frame ends with it
\* pending. A window without a pending frame at its end is complete.
Eof ==
    /\ conn = "open" /\ relay = "up" /\ window /\ batch = <<>>
    /\ has_pending_frame \/ wire = <<>>
    /\ conn' = IF has_pending_frame THEN "cut" ELSE "complete"
    /\ UNCHANGED <<log, url, broken, window, request, wire, decoder, batch, poison, cursor, committed,
                   relay>>

\* A transport error, an idle timeout included.
Cut ==
    /\ conn = "open"
    /\ conn' = "cut"
    /\ UNCHANGED <<log, url, broken, window, request, wire, decoder, batch, poison, cursor, committed,
                   relay>>

\* The gateway is told to stop.
Shutdown ==
    /\ relay = "up" /\ conn = "open"
    /\ relay' = "stopping"
    /\ UNCHANGED <<log, url, broken, window, conn, request, wire, decoder, batch, poison, cursor,
                   committed>>

\* until_shutdown: the body ends in a transport error.
until_shutdown == "cut"

\* The body is interrupted; another instance of the gateway takes over.
Interrupt ==
    /\ relay = "stopping"
    /\ conn' = IF conn = "open" THEN until_shutdown ELSE conn
    /\ relay' = "up"
    /\ UNCHANGED <<log, url, broken, window, request, wire, decoder, batch, poison, cursor, committed>>

\* The consumer commits the events of a batch, those before a poison included,
\* with its cursor. A window read again does not take the cursor back.
Commit ==
    /\ batch # <<>>
    /\ committed' = committed \cup ToSet(batch)
    /\ cursor' = Max({cursor, Last(batch)})
    /\ batch' = <<>>
    /\ UNCHANGED <<log, url, broken, window, conn, request, wire, decoder, poison, relay>>

\* It crashes and loses what it had not committed.
Crash ==
    /\ batch # <<>>
    /\ batch' = <<>> /\ conn' = "closed" /\ wire' = <<>> /\ decoder' = Empty
    /\ UNCHANGED <<log, url, broken, window, request, poison, cursor, committed, relay>>

StreamNext ==
    \/ Build \/ (\E q \in Queries : Connect(q) \/ QueryRefused(q))
    \/ (\E e \in OpenErrors \cup BrokenErrors : ConnectFails(e)) \/ \E n \in 1..Len(wire) : Chunk(n)
    \/ Eof \/ Cut \/ Shutdown \/ Interrupt \/ Commit \/ Crash

\* A step in which all that the response holds arrives: Chunk(Len(wire)).
Arrives == conn = "open" /\ relay = "up" /\ batch = <<>> /\ wire # <<>> /\ wire' = <<>>

CommitNew == batch # <<>> /\ Last(batch) > cursor /\ Commit

\* The consumer reconnects, a connection does not always break before the rest
\* of the log is through, nor the consumer crash with a new event in hand.
StreamFairness ==
    /\ WF_streamVars(Build) /\ WF_streamVars(Interrupt)
    /\ SF_streamVars(conn # "poisoned" /\ conn # "complete" /\ \E q \in Queries : Connect(q))
    /\ SF_wire(Arrives) /\ WF_streamVars(Commit) /\ SF_streamVars(CommitNew)

-----------------------------------------------------------------------------
(* Properties *)

StreamTypeOK ==
    /\ conn \in {"closed", "open", "failed", "refused", "cut", "poisoned", "complete"}
    /\ Len(decoder.buffer) < MaxFrame + 4
    /\ cursor \in 0..Len(log)
    /\ decoder.skip => decoder.buffer = <<>>

IsEvent(i) == log[i].layout \notin {"comment", "large"} /\ log[i].shape.utf8
              /\ decode_sse_frame(log[i].shape) = "ok"
IsPoison(i) == log[i].layout # "comment" /\ ~IsEvent(i)
Events(n) == {i \in 1..n : IsEvent(i)}

\* However the body was cut into chunks, and through cuts, crashes and
\* restarts, what is committed is every event up to the cursor: none is
\* skipped, and none after a frame that does not decode.
NothingSkipped ==
    /\ committed \cup ToSet(batch) =
          Events(IF batch = <<>> THEN cursor ELSE Max({cursor, Last(batch)}))
    /\ \A i \in 1..Len(log) : IsPoison(i) => \A e \in committed : e < i

\* A poison is a frame that does not decode, the first one after the events
\* decoded, and names that event or none.
PoisonIsTheNextFrame ==
    poison # NoPoison /\ conn = "poisoned" =>
        LET from == IF batch = <<>> THEN cursor ELSE Last(batch)
            bad == {i \in 1..Len(log) : IsPoison(i)}
        IN  /\ bad # {} /\ Events(Min(bad)) = Events(from)
            /\ poison.named \in {0, Min(bad)}

\* A bounded replay reported complete has delivered all of the log.
WindowIsComplete == conn = "complete" => Events(Len(log)) = committed

\* Credentials go to Alpaca's stream host over HTTPS and nowhere else.
CredentialsStayHome ==
    request.credentials => request.scheme = "https" /\ request.host = "alpaca"

\* The stream is safe to consume: nothing is skipped however the body is cut, a
\* poison stops at the frame that does not decode, a window reported complete
\* is, and the credentials do not leave Alpaca's host.
StreamIsSafe ==
    StreamTypeOK /\ NothingSkipped /\ PoisonIsTheNextFrame /\ WindowIsComplete /\ CredentialsStayHome

\* Without a frame that does not decode, and with a stream that can be opened,
\* every event is committed in the end: no failure to open it that may clear
\* makes the consumer give up.
EveryEventCommitted ==
    log # <<>> /\ ~broken /\ (\A i \in 1..Len(log) : ~IsPoison(i)) ~> committed = Events(Len(log))
=============================================================================
