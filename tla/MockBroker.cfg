CONSTANTS
    Keys = {k1}
    NoKey = NoKey
    Symbols = {s1}
    Crypto = Crypto
    Quantities = {2}
    Sizes = {2, 6}
    Prices = {3}
    NoPrice = NoPrice
    Micro = 2
    Cent = 4
    MaxOrders = 2
    MaxDelay = 2
    MaxFaults = 1
    MaxChanges = 2
SPECIFICATION Spec
INVARIANT BooksBalance
PROPERTY IsBrokerBook
