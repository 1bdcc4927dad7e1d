---------------------------- MODULE MCStatusDate ----------------------------
(* Model-checking instance of StatusDate.  The years since the epoch reach  *)
(* past 2000 (a leap century) and 2100 (a century that is not leap); the    *)
(* early years reach back before 1970, where ASN.1 UTCTime still goes       *)
(* (years 1950-1969).                                                       *)
EXTENDS StatusDate

MCYears      == 1970 .. 2104
MCEarlyYears == 1960 .. 1972
=============================================================================
