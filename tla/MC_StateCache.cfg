\* The live State under the block processor, crediting a1 and a2, and a
\* validator that reads every account and creates the object of a sender,
\* a3, that never held a balance and that no transaction of the block credits.
CONSTANTS
    Addrs = {a1, a2, a3}
    MaxBal = 2
    MaxCredits = 2
    Absent = Absent
    None = None
    NoSnap = NoSnap
    Credited = {a1, a2}
    Senders = {a3}
    Funded = {a1, a2}
SPECIFICATION Spec
INVARIANT TypeOK
PROPERTY LedgerRefined
