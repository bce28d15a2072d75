------------------------------ MODULE MCWallet ------------------------------
(* An instance for TLC of the wallet writes, two calls side by side with one  *)
(* pinned and one free destination, and of the five polls. They share         *)
(* nothing: in a behaviour one of the two moves and the other stays where it  *)
(* began.                                                                     *)
EXTENDS WalletWrites, DeadlinePoll

VARIABLE part   \* which of the two moves, "writes" or "polls"

Writes == part = "writes"
Polling == part = "polls"

MCInit ==
    /\ Init /\ PollInit
    /\ \/ Writes /\ poll = "transfer" /\ policy = "Return" /\ status = "absent"
                 /\ network = "own"
       \/ Polling /\ whitelist = <<>>

WritesStep(A) == Writes /\ A /\ UNCHANGED <<pollVars, part>>
PollStep(A) == Polling /\ A /\ UNCHANGED <<vars, part>>

MCSpec ==
    /\ MCInit /\ [][WritesStep(Next) \/ PollStep(PollNext)]_<<vars, pollVars, part>>
    /\ WF_vars(WritesStep(ScanStart))
    /\ \A b \in 1..MaxSends : SF_vars(WritesStep(ScanBlock /\ watcher.next = b))
    /\ WF_pollVars(PollStep(Tick)) /\ WF_pollVars(PollStep(Prompt))

\* Every poll ends, whatever Alpaca answers.
EveryPollEnds == Polling => PollEnds
=============================================================================
