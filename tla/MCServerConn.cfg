\* Header checks, segment reassembly, the channel handlers and
\* back-pressure, for any 3 frames a client sends.
CONSTANTS
    Frames <- MCFrames
    MaxFrames = 3
    TxHigh = 3
    SidSpace = 4
    Sources <- MCSources
    Trunc = Trunc
    NoMsg = NoMsg
SPECIFICATION Spec
\* The connection ends when it is deleted (cleanup).
CHECK_DEADLOCK FALSE
INVARIANT TypeOK ChannelMapsConsistent
PROPERTY ImplementsMessageStream
PROPERTY ReadResumes
