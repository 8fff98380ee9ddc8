------------------------------ MODULE DateTime ------------------------------
(***************************************************************************)
(* Dates and times: the datetime part of cstrbuf.h and timeut.h.           *)
(*                                                                         *)
(* A time_t is a day since 1970-01-01 and a second of that day, so that    *)
(* the numbers stay small; a timestamp has milliseconds as well.  mktime,  *)
(* gmtime and localtime are the C library's, in a zone WEST seconds west   *)
(* of UTC without daylight saving.                                         *)
(***************************************************************************)
EXTENDS CstrParts, TLC

CONSTANTS WEST,
          MS, NS, ULONG    \* milliseconds in a second, nanoseconds in a
                           \* millisecond and 2^64, scaled down
\* A zone is at most a day from UTC; an unsigned long has room for a few seconds of nanoseconds.
ASSUME ZoneAssumption == WEST \in Int /\ -86400 <= WEST /\ WEST <= 86400
ASSUME UnitAssumption == /\ MS \in Nat \ {0} /\ NS \in Nat \ {0} /\ ULONG \in Nat
                         /\ 8 * MS * NS <= ULONG

\* Division of C, towards zero.
Quot(a, b) == IF a >= 0 THEN a \div b ELSE -((-a) \div b)
Rem(a, b) == a - b * Quot(a, b)

\* Mutant: the rule as the comment in getlocaltime_safe has it.
LeapByComment(y) ==
    IF y % 4 # 0 THEN 0 ELSE IF y % 100 # 0 THEN 1 ELSE IF y % 400 # 0 THEN 1 ELSE 0
TM_YEAR_IS_LEAP(y) ==
    IF y % 4 # 0 THEN 0 ELSE IF y % 100 # 0 THEN 1 ELSE IF y % 400 # 0 THEN 0 ELSE 1
YEAR_IS_LEAPYEAR(y) ==
    IF y % 4 # 0 THEN 0 ELSE IF y % 100 # 0 THEN 1 ELSE IF y % 400 # 0 THEN 0 ELSE 1

mdays(y) == <<31, 28 + YEAR_IS_LEAPYEAR(y), 31, 30, 31, 30, 31, 31, 30, 31, 30, 31>>

\* The days that the loop takes off for the years from 1970 to y.
DaysTo(y) == 365 * (y - 1970) + Cardinality({z \in 1970..(y - 1) : YEAR_IS_LEAPYEAR(z) = 1})

\* The year in which the first loop stops: the first that the days do not fill.
YearOf(days) ==
    IF days < 0 THEN 1970
    ELSE CHOOSE y \in (1970 + days \div 366)..(1970 + days \div 365) :
            DaysTo(y) <= days /\ days < DaysTo(y + 1)

\* The second loop: the months that a day of the year is behind, and the days left.
Rounds == [m \in 1..11 |-> m]
MonthOff(acc, m, year) ==
    IF acc[1] = m - 1 /\ acc[2] >= mdays(year)[m] THEN <<m, acc[2] - mdays(year)[m]>> ELSE acc
MonthsTaken(year, yday) == FoldLeft(LAMBDA acc, m : MonthOff(acc, m, year), <<0, yday>>, Rounds)

getlocaltime_safe(t, tz, dst) ==
    LET sum == t.sec - tz + 3600 * dst
        day == t.day + sum \div 86400
        behind == day < 0 /\ sum % 86400 # 0
        days == IF behind THEN day + 1 ELSE day
        seconds == IF behind THEN (sum % 86400) - 86400 ELSE sum % 86400
        year == YearOf(days)
        yday == days - DaysTo(year)
        mon == MonthsTaken(year, yday)
    IN  [year |-> year, mon |-> mon[1] + 1, day |-> mon[2] + 1,
         hour |-> Quot(seconds, 3600), min |-> Quot(Rem(seconds, 3600), 60),
         sec |-> Rem(Rem(seconds, 3600), 60),
         wday |-> Rem(days + 4, 7), yday |-> yday]

time_is_valid(year, mon, day, hour, min, sec) ==
    /\ year \in 1900..9999 /\ mon \in 1..12 /\ day \in 1..31
    /\ hour \in 0..24 /\ min \in 0..59 /\ sec \in 0..60
    /\ CASE mon \in {1, 3, 5, 7, 8, 10, 12} -> TRUE
         [] mon \in {4, 6, 9, 11} -> day < 31
         [] OTHER -> day < 29 \/ (day = 29 /\ TM_YEAR_IS_LEAP(year) = 1)

-----------------------------------------------------------------------------
(* The C library *)

\* The day of a date of the Gregorian calendar.
DayOf(y, m, d) ==
    LET a == IF m <= 2 THEN y - 1 ELSE y        \* years begin in March
        yday == (153 * ((m + 9) % 12) + 2) \div 5 + d - 1
    IN  365 * a + a \div 4 - a \div 100 + a \div 400 + yday - 719468

mktime(y, m, d, h, mi, s) ==
    LET sum == 3600 * h + 60 * mi + s + WEST
    IN  [day |-> DayOf(y, m, d) + sum \div 86400, sec |-> sum % 86400]
ErrorTime == [day |-> -1, sec |-> 86399]        \* (time_t) -1

CivilYear(n) == CHOOSE y \in (1968 + n \div 366)..(1971 + n \div 365) :
                    DayOf(y, 1, 1) <= n /\ n < DayOf(y + 1, 1, 1)
CivilMonth(n, y) == CHOOSE m \in 1..12 :
                        DayOf(y, m, 1) <= n /\ n < DayOf(y + m \div 12, (m % 12) + 1, 1)
Civil(n) ==
    LET y == CivilYear(n)
        m == CivilMonth(n, y)
    IN  [year |-> y, mon |-> m, day |-> n - DayOf(y, m, 1) + 1]

\* The zone's clock: the date, and the second of the day.
localtime(t) ==
    LET sum == t.sec - WEST
    IN  [date |-> Civil(t.day + sum \div 86400), sec |-> sum % 86400]

-----------------------------------------------------------------------------
(* Text *)

\* %0wd
Dec(n, w) == [i \in 1..w |-> ToString((n \div 10^(w - i)) % 10)]
DateText(y, m, d) == Dec(y, 4) \o <<"-">> \o Dec(m, 2) \o <<"-">> \o Dec(d, 2)
TimeText(h, m, s) == Dec(h, 2) \o <<":">> \o Dec(m, 2) \o <<":">> \o Dec(s, 2)

\* Fields that are -1 are left out.
cstr_datetime_print(dt) ==
    LET date == IF dt.year = -1 THEN <<>> ELSE DateText(dt.year, dt.month, dt.day)
        time == IF dt.hour = -1 THEN <<>>
                ELSE (IF date = <<>> THEN <<>> ELSE <<" ">>) \o TimeText(dt.hour, dt.minute, dt.second)
        ms == IF dt.millisecond = -1 THEN <<>> ELSE <<".">> \o Dec(dt.millisecond, 3)
        ZoneText(sign, z) == <<sign>> \o Dec(z \div 100, 2) \o <<":">> \o Dec(z % 100, 2)
        zone == CASE dt.timezone = -1 -> <<>>
                  [] dt.timezone < -1 -> ZoneText("W", -dt.timezone)
                  [] OTHER -> ZoneText("+", dt.timezone)
    IN  date \o time \o ms \o zone

\* The clock in UTC, cut to a buffer of 24.
format_nowtimeofday(now) ==
    LET loc == getlocaltime_safe(now, 0, 0)
    IN  First(DateText(loc.year, loc.mon, loc.day) \o <<" ">>
                \o TimeText(loc.hour, loc.min, loc.sec) \o <<" ", "U", "T", "C">>, 23)

atoi(s) == FoldLeft(LAMBDA n, c : 10 * n + Digit[c], 0, s)

ZoneHours(h, m, sign) == 100 * h * sign + m     \* mutant: the sign is the hours'
ZoneNumber(h, m, sign) == (100 * h + m) * sign

\* -1 for what is no zone, and for one minute west of Greenwich.
cstr_parse_timezone(tz) ==
    LET sign == CASE tz[1] \in {"+", "E"} -> 1 [] tz[1] \in {"-", "W"} -> -1 [] OTHER -> 0
        h == atoi(SubSeq(tz, 2, 3))
        m == atoi(SubSeq(tz, 5, 6))
        shape == /\ Len(tz) = 6 /\ tz[4] \in {":", "."}
                 /\ \A i \in {2, 3, 5, 6} : isdigit(tz[i])
    IN  IF sign # 0 /\ shape THEN IF h <= 23 /\ m <= 59 THEN ZoneNumber(h, m, sign) ELSE -1 ELSE -1

\* Where the zone of a timestamp begins, 0 if it has none: the first + or E or W, or
\* a last - that looks like one.
ZoneAt(s) ==
    LET At(c) == SelectInSeq(s, LAMBDA x : x = c)
        minus == SelectLastInSeq(s, LAMBDA x : x = "-")
    IN  CASE At("+") > 0 -> At("+")
          [] At("+") = 0 /\ At("E") > 0 -> At("E")
          [] At("+") = 0 /\ At("E") = 0 /\ At("W") > 0 -> At("W")
          [] OTHER -> IF minus > 0 /\ minus + 3 <= Len(s) THEN IF s[minus + 3] \in {":", "."}
                                                              THEN minus ELSE 0 ELSE 0

Failed == [ok |-> FALSE]

\* The fields of a text of 10, 19 or 23 characters, whose separators are where the
\* first and the last of their kind have to be.
FieldsOf(s) ==
    LET n == Len(s)
        Seps(part, c) == <<SelectInSeq(part, LAMBDA x : x = c), SelectLastInSeq(part, LAMBDA x : x = c)>>
        hms == From(s, 11)
        Part(i, w, given) == IF given THEN First(From(s, i - 1), w) ELSE [k \in 1..w |-> "0"]
    IN  [shape |-> /\ n \in {10, 19, 23}
                   /\ n > 10 => SelectInSeq(s, LAMBDA x : x = " ") = 11
                   /\ Seps(First(s, 10), "-") = <<5, 8>>
                   /\ n > 10 => Seps(hms, ":") = <<3, 6>>
                   /\ n = 23 => SelectInSeq(From(hms, 5), LAMBDA x : x = ".") = 4,
         date |-> <<Part(1, 4, TRUE), Part(6, 2, TRUE), Part(9, 2, TRUE)>>,
         time |-> <<Part(12, 2, n > 10), Part(15, 2, n > 10), Part(18, 2, n > 10)>>,
         ms |-> Part(21, 3, n = 23)]

\* What is left of a text in front of its zone, without blanks or quotes around it.
Stripped(s) ==
    LET t == cstr_LRtrim_whitespace(s)
        a == SelectInSeq(t, LAMBDA x : x = "'")
        b == SelectLastInSeq(t, LAMBDA x : x = "'")
    IN  IF a = 0 THEN t ELSE SubSeq(t, a + 1, b - 1)

\* The timestamp and the date and time that a text says; the zone is not applied.
cstr_parse_timestamp(s) ==
    LET at == ZoneAt(s)
        zone == IF at = 0 THEN -1 ELSE cstr_parse_timezone(From(s, at - 1))
        text == Stripped(IF at = 0 THEN s ELSE First(s, at - 1))
        p == FieldsOf(text)
        d == [i \in 1..3 |-> atoi(p.date[i])]
        h == [i \in 1..3 |-> atoi(p.time[i])]
        digits == \A i \in 1..3 : /\ cstr_isdigit(p.date[i], Len(p.date[i]))
                                  /\ cstr_isdigit(p.time[i], 2) /\ cstr_isdigit(p.ms, 3)
        tsec == mktime(d[1], d[2], d[3], h[1], h[2], h[3])
        timed == Len(text) > 10
    IN  IF at > 0 /\ zone = -1 THEN Failed
        ELSE IF ~p.shape THEN Failed
        ELSE IF ~digits THEN Failed
        ELSE IF ~time_is_valid(d[1], d[2], d[3], h[1], h[2], h[3]) \/ tsec = ErrorTime THEN Failed
        ELSE [ok |-> TRUE, stamp |-> [t |-> tsec, ms |-> atoi(p.ms)],
              dt |-> [year |-> d[1], month |-> d[2], day |-> d[3],
                      hour |-> IF timed THEN h[1] ELSE -1, minute |-> h[2], second |-> h[3],
                      millisecond |-> IF Len(text) = 23 THEN atoi(p.ms) ELSE -1,
                      timezone |-> zone]]

\* The text of a timestamp, Null if there is none.  A timestamp before 1970 is a huge
\* unsigned number here, of a year that time_is_valid refuses.
cstr_timestamp_to_datetime(stamp) ==
    LET d == localtime(stamp.t).date
        s == localtime(stamp.t).sec
        h == s \div 3600
        m == (s % 3600) \div 60
        text == DateText(d.year, d.mon, d.day) \o <<" ">> \o TimeText(h, m, s % 60)
    IN  IF stamp.t.day < 0 THEN Null
        ELSE IF ~time_is_valid(d.year, d.mon, d.day, h, m, s % 60) THEN Null
        ELSE IF stamp.ms = 0 THEN text ELSE text \o <<".">> \o Dec(stamp.ms, 3)

-----------------------------------------------------------------------------
(* Zones and differences *)

\* Seconds west of UTC: gmtime's fields read as local time, less the time itself.
timezone_compute(t) ==
    LET gmt == Civil(t.day)
        ut == mktime(gmt.year, gmt.mon, gmt.day, 0, 0, t.sec)
    IN  86400 * (ut.day - t.day) + ut.sec - t.sec

\* Sign, hours and minutes east of UTC.
timezone_format(tz) ==
    CASE tz < 0 -> <<"+", -Quot(tz, 3600), -Quot(Rem(tz, 3600), 60)>>
      [] tz > 0 -> <<"-", Quot(tz, 3600), Quot(Rem(tz, 3600), 60)>>
      [] OTHER -> <<"+", 0, 0>>

\* Arithmetic of unsigned long, read as a signed number in the end.
Wrapped(n) == IF n % ULONG >= ULONG \div 2 THEN (n % ULONG) - ULONG ELSE n % ULONG

difftime_msec(old, new) ==
    LET sec == new[1] - old[1]
        nsec == new[2] - old[2]
        ms(n) == (n % ULONG) \div NS
    IN  Wrapped(CASE sec > 0 /\ nsec >= 0 -> sec * MS + ms(nsec)
                  [] sec > 0 /\ nsec < 0 -> (sec - 1) * MS + ms(nsec + MS * NS)
                  [] sec < 0 /\ nsec <= 0 -> sec * MS + ms(nsec)
                  [] sec < 0 /\ nsec > 0 -> (sec + 1) * MS + ms(nsec - MS * NS)
                  [] OTHER -> ms(nsec))
=============================================================================
