--------------------------------- MODULE Rtc ---------------------------------
(***************************************************************************)
(* The clock (kernel/time/rtc.c) from 2000 to 2099: what rtc_read_datetime *)
(* makes of the CMOS registers, the weekday kmain prints and the timestamp *)
(* SC_TIME returns. A step is a day of the hardware or a call; the driver  *)
(* is called at least once a day. A timestamp is split into days and the   *)
(* seconds of the day, which loses nothing.                                *)
(***************************************************************************)
EXTENDS Integers, Sequences

CONSTANTS
    Years,   \* last two-digit year the hardware runs to
    Times    \* times of day at which the driver is called

VARIABLES
    date,              \* the hardware's date: year 0 .. 99, month, day
    days,              \* days since 1 January 1970
    binary,            \* bit 2 of register B: registers hold no BCD
    current_datetime,  \* what the driver read last
    read_at            \* days when it did

rtcVars == <<date, days, binary, current_datetime, read_at>>

-----------------------------------------------------------------------------
(* The hardware *)

MonthDays(y, m) ==
    CASE m = 2 -> IF y % 4 = 0 THEN 29 ELSE 28
      [] m \in {4, 6, 9, 11} -> 30
      [] OTHER -> 31

Tomorrow(d) ==
    IF d.day < MonthDays(d.year, d.month) THEN [d EXCEPT !.day = @ + 1]
    ELSE IF d.month < 12 THEN [d EXCEPT !.day = 1, !.month = @ + 1]
    ELSE [year |-> d.year + 1, month |-> 1, day |-> 1]

\* A register's contents.
Register(v) == IF binary THEN v ELSE (v \div 10) * 16 + (v % 10)

-----------------------------------------------------------------------------
(* The driver *)

\* (v & 0x0F) + (v / 16) * 10
FromBcd(v) == (v % 16) + (v \div 16) * 10

\* The hour keeps bit 7, which marks the afternoon on a 12-hour clock.
HourFromBcd(v) == (v % 16) + ((v \div 16) % 8) * 10 + (IF v >= 128 THEN 128 ELSE 0)

\* rtc_read_datetime; the century is not read.
rtc_read_datetime(t) ==
    LET get(v) == IF binary THEN Register(v) ELSE FromBcd(Register(v))
    IN  [century |-> current_datetime.century,
         year |-> get(date.year), month |-> get(date.month), day |-> get(date.day),
         hour |-> IF binary THEN Register(t[1]) ELSE HourFromBcd(Register(t[1])),
         minute |-> get(t[2]), second |-> get(t[3])]

\* is_leap_year: the year is one, and its extra day is still to come.
is_leap_year(year, month) == IF year % 4 = 0 /\ month \in {1, 2} THEN 1 ELSE 0

\* get_weekday_from_date: 0 is Sunday; 6 is century_code_array[3], since the
\* function sets the century to 21.
get_weekday_from_date(dt) ==
    LET month_code == <<0, 3, 3, 6, 1, 4, 6, 2, 5, 0, 3, 5>>[dt.month]
    IN  (((dt.year + dt.year \div 4) % 7) + month_code + 6 + dt.day
            - is_leap_year(dt.year, dt.month)) % 7

\* Division in C rounds towards 0.
Div(a, b) == IF a < 0 THEN -((-a) \div b) ELSE a \div b

\* Mutant of dttots: January and February stay in their year.
dttots_same_year(dt) ==
    LET year == dt.century * 100 + dt.year
        month == (IF dt.month <= 2 THEN dt.month + 12 ELSE dt.month) - 3
    IN  [days |-> dt.day + (153 * month + 2) \div 5 + 365 * year
                    + Div(year, 4) - Div(year, 100) + Div(year, 400) - 719468,
         secs |-> dt.hour * 3600 + dt.minute * 60 + dt.second]

\* dttots: years that begin in March.
dttots(dt) ==
    LET early == dt.month <= 2
        full_year == dt.century * 100 + dt.year - (IF early THEN 1 ELSE 0)
        month == (IF early THEN dt.month + 12 ELSE dt.month) - 3
    IN  [days |-> dt.day + (153 * month + 2) \div 5 + 365 * full_year
                    + Div(full_year, 4) - Div(full_year, 100) + Div(full_year, 400) - 719468,
         secs |-> dt.hour * 3600 + dt.minute * 60 + dt.second]

\* Mutant of tstodt: a year ends in February without a new one beginning.
tstodt_same_year(ts) ==
    LET z == ts.days + 719468
        doe == z % 146097
        yoe == (doe - doe \div 1460 + doe \div 36524 - doe \div 146096) \div 365
        doy == doe - (365 * yoe + yoe \div 4 - yoe \div 100)
        mp == (5 * doy + 2) \div 153
        full_year == yoe + (z \div 146097) * 400
    IN  [century |-> full_year \div 100, year |-> full_year % 100,
         month |-> IF mp < 10 THEN mp + 3 ELSE mp - 9,
         day |-> doy - (153 * mp + 2) \div 5 + 1,
         hour |-> ts.secs \div 3600, minute |-> (ts.secs % 3600) \div 60, second |-> ts.secs % 60]

\* tstodt: eras of 400 years.
tstodt(ts) ==
    LET z == ts.days + 719468
        doe == z % 146097
        yoe == (doe - doe \div 1460 + doe \div 36524 - doe \div 146096) \div 365
        doy == doe - (365 * yoe + yoe \div 4 - yoe \div 100)
        mp == (5 * doy + 2) \div 153
        month == IF mp < 10 THEN mp + 3 ELSE mp - 9
        full_year == yoe + (z \div 146097) * 400 + (IF month <= 2 THEN 1 ELSE 0)
    IN  [century |-> full_year \div 100, year |-> full_year % 100, month |-> month,
         day |-> doy - (153 * mp + 2) \div 5 + 1,
         hour |-> ts.secs \div 3600, minute |-> (ts.secs % 3600) \div 60, second |-> ts.secs % 60]

-----------------------------------------------------------------------------

\* init_rtc reads the clock, on the first day of the century or at the end of a
\* year; 10957 days lead from 1970 to 2000.
RtcInit ==
    /\ \/ /\ date = [year |-> 0, month |-> 1, day |-> 1]
          /\ days = 10957
       \/ \E y \in 0 .. Years :
             /\ date = [year |-> y, month |-> 12, day |-> 31]
             /\ days = 10956 + 365 * (y + 1) + (y + 4) \div 4
    /\ binary \in BOOLEAN
    /\ current_datetime = [century |-> 0, year |-> date.year, month |-> date.month, day |-> date.day,
                           hour |-> 0, minute |-> 0, second |-> 0]
    /\ read_at = days

\* A day passes.
Day ==
    /\ read_at = days
    /\ Tomorrow(date).year <= Years
    /\ date' = Tomorrow(date)
    /\ days' = days + 1
    /\ UNCHANGED <<binary, current_datetime, read_at>>

\* now(), from sys_time or from kmain, who prints the weekday as well, in
\* which the century becomes 21.
Now(t, print) ==
    /\ current_datetime' = IF print THEN [rtc_read_datetime(t) EXCEPT !.century = 21]
                           ELSE rtc_read_datetime(t)
    /\ read_at' = days
    /\ UNCHANGED <<date, days, binary>>

RtcNext == Day \/ \E t \in Times, print \in BOOLEAN : Now(t, print)

RtcSpec == RtcInit /\ [][RtcNext]_rtcVars

-----------------------------------------------------------------------------
(* Properties *)

\* get_weekday_from_date names the right day throughout the century, leap
\* years included: 1 January 1970 was a Thursday, 4.
WeekdayRight ==
    get_weekday_from_date(current_datetime) = (read_at + 4) % 7

\* dttots counts every day once: when the clock goes from one day to the next
\* the timestamp grows by a day, over ends of months and years, for both values
\* the century can have. (Year 0 of century 21 is no leap year, so that the count
\* stands still behind 29 February 2000.)
TimestampStep ==
    Day /\ date # [year |-> 0, month |-> 2, day |-> 29] =>
        \A c \in {0, 21} :
            dttots([current_datetime EXCEPT !.century = c, !.year = date'.year,
                                            !.month = date'.month, !.day = date'.day]).days
          = dttots([current_datetime EXCEPT !.century = c, !.year = date.year,
                                            !.month = date.month, !.day = date.day]).days + 1

\* tstodt inverts the count of days since 1970 and the seconds of the day.
TstodtRight ==
    LET dt == tstodt([days |-> read_at, secs |-> dttots(current_datetime).secs])
    IN  dt = [current_datetime EXCEPT !.century = 20]

\* Weekday and tstodt are right on every day of the century (time/rtc.c,
\* get_weekday_from_date and tstodt).
ClockRight == WeekdayRight /\ TstodtRight

\* dttots counts every day once.
TimestampAdvances == [][TimestampStep]_rtcVars
=============================================================================
