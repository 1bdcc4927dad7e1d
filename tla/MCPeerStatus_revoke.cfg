CONSTANTS
    Validity <- MCValidity
    MaxTime <- MCMaxTime
    QueueCap <- MCQueueCap
    NetworkAdversary = FALSE
    Setups <- MCSetupsKeyed
    OwnerCalls = 0
    NotBefore <- MCNotBefore
    NotAfter <- MCNotAfter
    NoStatus = NoStatus

SPECIFICATION Spec

PROPERTY RevocationReachesManager
