----------------------------- MODULE StatusDate -----------------------------
(***************************************************************************)
(* StatusDate (certstatus.h): the conversions between an ASN.1 time, a     *)
(* broken-down UTC time (std::tm), a time_t and the status string          *)
(* "Www Mmm DD HH:MM:SS YYYY UTC" carried beside every OCSP token.         *)
(*                                                                         *)
(* One date goes through the path a status date takes:                     *)
(*   asn1TimeToTimeT (ASN1_TIME_to_tm, then tmToTimeTUTC)                  *)
(*   toString        (gmtime, then strftime)                               *)
(*   toTimeT         (std::get_time, then tmToTimeTUTC)                    *)
(* dateConsistent compares the string and the signed token's dates, so the *)
(* two must agree.  A broken-down time is a record of the std::tm fields   *)
(* the format carries; the string is that record (strftime and get_time of *)
(* the same format are inverse on it).                                     *)
(***************************************************************************)
EXTENDS Integers, Sequences

CONSTANTS
    Years,      \* calendar years whose dates are converted
    NoTime      \* model value: a null ASN1_TIME pointer

VARIABLES
    tm,         \* the ASN.1 time, broken down (or NoTime)
    t,          \* StatusDate::t
    s,          \* StatusDate::s, as the fields strftime wrote
    back,       \* toTimeT(s)
    phase       \* which conversion runs next

vars == <<tm, t, s, back, phase>>

\* A time_t is 64 bits wide in the code; TLC's integers are 32.  A time_t
\* is kept exactly as <<days, second of the day>>: secs = days*86400 + sod
\* with 0 <= sod < 86400.
TimeT(days, h, m, sec) == <<days, (h * 60 + m) * 60 + sec>>

NoValue == <<"none">>   \* not computed yet
-----------------------------------------------------------------------------
(* Calendar reference (proleptic Gregorian, as gmtime and OpenSSL use).    *)

IsLeap(y) == (y % 4 = 0 /\ y % 100 # 0) \/ y % 400 = 0

YearLen(y) == IF IsLeap(y) THEN 366 ELSE 365

MonthLen(y, m) ==
    CASE m = 1               -> IF IsLeap(y) THEN 29 ELSE 28
      [] m \in {3, 5, 8, 10} -> 30
      [] OTHER               -> 31

\* Days from 1970-01-01 to the first of January of year y.
RECURSIVE DaysBeforeYear(_)
DaysBeforeYear(y) ==
    CASE y = 1970 -> 0
      [] y > 1970 -> DaysBeforeYear(y - 1) + YearLen(y - 1)
      [] OTHER    -> DaysBeforeYear(y + 1) - YearLen(y)

\* Days from the first of January to the first of month m (0-based).
RECURSIVE DaysBeforeMonth(_, _)
DaysBeforeMonth(y, m) ==
    IF m = 0 THEN 0 ELSE DaysBeforeMonth(y, m - 1) + MonthLen(y, m - 1)

\* Seconds since the epoch of a broken-down UTC time.
CalendarSeconds(x) ==
    TimeT(DaysBeforeYear(x.year) + DaysBeforeMonth(x.year, x.mon) + x.mday - 1,
          x.hour, x.min, x.sec)

\* std::gmtime: the broken-down UTC time of a time_t.
RECURSIVE YearOfDay(_, _)
YearOfDay(d, y) ==
    CASE d < DaysBeforeYear(y)      -> YearOfDay(d, y - 1)
      [] d >= DaysBeforeYear(y + 1) -> YearOfDay(d, y + 1)
      [] OTHER                      -> y

Gmtime(secs) ==
    LET d   == secs[1]
        sod == secs[2]
        y   == YearOfDay(d, 1970 + d \div 365)
        doy == d - DaysBeforeYear(y)
        m   == CHOOSE k \in 0 .. 11 :
                   DaysBeforeMonth(y, k) <= doy
                   /\ doy < DaysBeforeMonth(y, k) + MonthLen(y, k)
    IN  [year |-> y, mon |-> m, mday |-> doy - DaysBeforeMonth(y, m) + 1,
         hour |-> sod \div 3600, min |-> (sod % 3600) \div 60, sec |-> sod % 60]

-----------------------------------------------------------------------------
(* The code: certstatus.h                                                   *)

\* C's integer division truncates toward zero.
CDiv(a, b) == IF a >= 0 THEN a \div b ELSE -((-a) \div b)

kMonthStartDays == <<0, 31, 59, 90, 120, 151, 181, 212, 243, 273, 304, 334>>

\* Mutant: the leap day added from February on instead of after it.
TmToTimeTUTCFromFeb(x) ==
    LET year == x.year
        days == (year - 1970) * 365 + CDiv(year - 1969, 4)
                - CDiv(year - 1901, 100) + CDiv(year - 1601, 400)
                + kMonthStartDays[x.mon + 1]
                + (IF x.mon >= 1 /\ IsLeap(year) THEN 1 ELSE 0)
                + x.mday - 1
    IN  TimeT(days, x.hour, x.min, x.sec)

\* StatusDate::tmToTimeTUTC
TmToTimeTUTC(x) ==
    LET year == x.year
        days == (year - 1970) * 365 + CDiv(year - 1969, 4)
                - CDiv(year - 1901, 100) + CDiv(year - 1601, 400)
                + kMonthStartDays[x.mon + 1]
                + (IF x.mon > 1 /\ IsLeap(year) THEN 1 ELSE 0)
                + x.mday - 1
    IN  TimeT(days, x.hour, x.min, x.sec)

\* The dates converted: the first and the last days of every month of Years,
\* at the first and the last second of the day.
Dates ==
    { x \in [year: Years, mon: 0 .. 11, mday: {1, 28, 29, 30, 31},
             hour: {0, 23}, min: {0, 59}, sec: {0, 59}] :
        /\ x.mday <= MonthLen(x.year, x.mon)
        /\ x.hour = 0 <=> x.min = 0
        /\ x.min = 0 <=> x.sec = 0 }

Init ==
    /\ tm \in Dates \cup {NoTime}
    /\ t = NoValue
    /\ s = NoTime
    /\ back = NoValue
    /\ phase = "asn1"

\* StatusDate(const ASN1_TIME*): asn1TimeToTimeT returns 0 for a null time.
AsnToTimeT ==
    /\ phase = "asn1"
    /\ t' = IF tm = NoTime THEN TimeT(0, 0, 0, 0) ELSE TmToTimeTUTC(tm)
    /\ phase' = "string"
    /\ UNCHANGED <<tm, s, back>>

\* StatusDate::toString: strftime(CERT_TIME_FORMAT, gmtime(&time)).
ToString ==
    /\ phase = "string"
    /\ s' = Gmtime(t)
    /\ phase' = "parse"
    /\ UNCHANGED <<tm, t, back>>

\* StatusDate::toTimeT: std::get_time with CERT_TIME_FORMAT, then
\* tmToTimeTUTC.
ToTimeT ==
    /\ phase = "parse"
    /\ back' = TmToTimeTUTC(s)
    /\ phase' = "done"
    /\ UNCHANGED <<tm, t, s>>

Next == AsnToTimeT \/ ToString \/ ToTimeT

Spec == Init /\ [][Next]_vars

-----------------------------------------------------------------------------
(* Properties                                                              *)

\* asn1TimeToTimeT gives the number of seconds since the epoch of the
\* calendar date it is handed (tmToTimeTUTC's leap-day arithmetic).
CalendarExact ==
    (phase # "asn1" /\ tm # NoTime) => t = CalendarSeconds(tm)

=============================================================================
