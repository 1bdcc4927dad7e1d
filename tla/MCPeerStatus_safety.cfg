\* Safety of the verify path against a tampering/replaying status transport.
CONSTANTS
    Validity <- MCValidity
    MaxTime <- MCMaxTimeSafety
    QueueCap <- MCQueueCap
    NetworkAdversary = TRUE
    Setups <- MCSetupsKeyed
    OwnerCalls = 0
    NotBefore <- MCNotBefore
    NotAfter <- MCNotAfter
    NoStatus = NoStatus
SPECIFICATION Spec
INVARIANT TypeOK
INVARIANT AcceptOnlyAuthenticFreshGood
INVARIANT CacheHoldsIssued
 
