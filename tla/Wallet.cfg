SPECIFICATION MCSpec
CONSTANTS
    Calls = {c1, c2}
    Addresses = {pinned, free}
    Pinned = {pinned}
    HasTravelRule = TRUE
    Counterparties = {partner}
    NoOne = NoOne
    Amounts = {1}
    Start = 1
    MaxEntries = 3
    MaxSends = 1
    UntilComplete = 2
    Polls = {"transfer", "deposit", "tx_hash", "request", "redemption"}
    Timeout = 5
    Interval = 2
    MaxRetries = 2
    Delays = {0, 1, 3}
    MaxHold = 3
    Hints = {0, 1, 9}
INVARIANTS AnswersAreTrue LanesApart EndsByDeadline AnswerHolds
PROPERTIES DepositFound EveryPollEnds
CHECK_DEADLOCK FALSE
