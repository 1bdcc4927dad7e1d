\* A handler that disconnects, followed by the rest of bevRead.
CONSTANTS
    Frames <- MCUndecodableFrames
    MaxFrames = 3
    TxHigh = 6
    SidSpace = 4
    Sources <- MCSources
    Trunc = Trunc
    NoMsg = NoMsg
SPECIFICATION Spec
\* The connection ends when it is deleted (cleanup) or the process dies.
CHECK_DEADLOCK FALSE
INVARIANT NoUseAfterReset
