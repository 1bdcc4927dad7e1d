\* A client that asks for stapling.
CONSTANTS
    Tokens <- MCTokens
    Conns = {c1, c2, c3}
    NoStatus = NoStatus
SYMMETRY Symmetry
SPECIFICATION Spec
\* Every connection has had its one handshake and has been closed.
CHECK_DEADLOCK FALSE
INVARIANT StapleOnRequest
