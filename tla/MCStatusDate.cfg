CONSTANTS
    Years <- MCYears
    NoTime = NoTime

SPECIFICATION Spec

\* The conversion of one date ends once it has been read back.
CHECK_DEADLOCK FALSE

INVARIANT CalendarExact
