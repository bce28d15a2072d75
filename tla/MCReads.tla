------------------------------- MODULE MCReads -------------------------------
(* The broker reads and the corporate action stream, which share nothing: in  *)
(* a behaviour one of the two moves and the other stays where it began.       *)
EXTENDS BrokerReads, ActionStream

MinutesDef == {0, 239, 240, 569, 570, 779, 780, 959, 960, 1019, 1020, 1199, 1200, 1439}

Good == [sse |-> "own", payload |-> "own", json |-> "envelope", data |-> TRUE, event |-> "own",
         action |-> "own", us |-> TRUE, ca |-> TRUE, utf8 |-> TRUE]
\* One or two fields away from a good frame, and the pairs that name an event.
Shapes ==
    {Good} \cup {[Good EXCEPT !.data = FALSE], [Good EXCEPT !.us = FALSE],
        [Good EXCEPT !.ca = FALSE]}
    \cup {[Good EXCEPT !.event = e, !.action = a] : e, a \in {"own", "other", "none"}}
    \cup {[Good EXCEPT !.sse = s, !.payload = p, !.json = j, !.utf8 = u] :
            s \in {"own", "bad"}, p \in {"own", "other", "none", "bad"},
            j \in {"envelope", "identity", "none"}, u \in BOOLEAN}
    \cup {[Good EXCEPT !.sse = "none", !.payload = p, !.json = j] :
            p \in {"own", "none", "bad"}, j \in {"envelope", "identity", "none"}}
Firsts ==
    [shape : {Good}, layout : {"line", "two lines", "crlf", "comment", "full"}, separator : Separators]
    \cup {[shape |-> Good, layout |-> "large", separator |-> <<CR, LF, CR, LF>>]}
CleanLogs ==
    {<<first, second>> : first \in Firsts,
        second \in {[shape |-> Good, layout |-> "full", separator |-> <<CR, LF, CR>>],
                    [shape |-> [Good EXCEPT !.us = FALSE], layout |-> "line",
                     separator |-> <<CR, CR>>]}}
PoisonLogs ==
    {<<[shape |-> h, layout |-> "line", separator |-> <<LF, LF>>],
       [shape |-> Good, layout |-> "line", separator |-> <<LF, LF>>]>> : h \in Shapes}
LogsDef == CleanLogs \cup PoisonLogs

Refused == {u \in Urls : parse(u) = "refused" /\ u.scheme = "https" /\ u.development}

Init ==
    \/ ReadInit(Ops) /\ StreamInit({CHOOSE u \in Refused : TRUE}) /\ window /\ broken
    \/ ReadInit({"none"}) /\ StreamInit({u \in Urls : u.development = (u.host # "alpaca")})

Next == (ReadNext /\ UNCHANGED streamVars) \/ (StreamNext /\ UNCHANGED readVars)

Spec == Init /\ [][Next]_<<readVars, streamVars>> /\ StreamFairness
=============================================================================
