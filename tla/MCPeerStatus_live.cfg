CONSTANTS
    Validity <- MCValidity
    MaxTime <- MCMaxTime
    QueueCap <- MCQueueCap
    NetworkAdversary = FALSE
    Setups <- MCSetupsAll
    OwnerCalls = 1
    NotBefore <- MCNotBefore
    NotAfter <- MCNotAfter
    NoStatus = NoStatus

SPECIFICATION Spec
\* A context setup that throws leaves the peer side nothing to do once the
\* clock has run out.
CHECK_DEADLOCK FALSE

INVARIANT UncheckedOnlyAnonymous
