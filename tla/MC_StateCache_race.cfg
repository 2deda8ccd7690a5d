\* The validator's ValidateTx calls GetOrNewStateObject on the live State
\* for a sender the block's transactions credit.
CONSTANTS
    Addrs = {a1, a2}
    MaxBal = 2
    MaxCredits = 3
    Absent = Absent
    None = None
    NoSnap = NoSnap
    Credited = {a1, a2}
    Senders = {a1, a2}
    Funded = {a1, a2}
SPECIFICATION Spec
PROPERTY LedgerRefined
