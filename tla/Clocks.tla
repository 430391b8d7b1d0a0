------------------------------- MODULE Clocks -------------------------------
(***************************************************************************)
(* The clocks that show a date or a time of day: that of a virtual machine *)
(* with its setup bytes (drivers/virtual/vcmos/vcmos.c) and the functions  *)
(* of INT 1A that use it (drivers/virtual/vbios/misc.c), and the kernel's  *)
(* date (kernel/misc/time.c).  Both use the table days_per_month.          *)
(*                                                                         *)
(* rtc_update() is called by the timer interrupt between any two           *)
(* instructions of the other functions of a virtual clock.  The model      *)
(* stops, with clash_c = "torn", where an update carries into a register   *)
(* that a call has already read or written: the hour is that before the    *)
(* update, the minute that after it.                                       *)
(*                                                                         *)
(* The kernel's date is read from the real clock once, counted from then   *)
(* on, and expanded into a year, a month and a day where it is shown.      *)
(* Days are counted instead of seconds.                                    *)
(***************************************************************************)
EXTENDS Integers, Sequences, FiniteSets

CONSTANTS
    TimesOfDay,     \* <<hour, minute, second>>: what programs set the clock to
    DatesOfYear,    \* <<year, month, day>>
    MaxUpdates,     \* updates after the clock has been set
    MaxCalls,       \* calls of the program
    Starts,         \* <<year, month, day>>: when the kernel is started
    MaxDays         \* how long it runs

VARIABLES
    cmos,           \* the registers
    op,             \* a call in progress: what it does and the registers left to do
    irq8,           \* interrupts requested by rtc_update() that the program has not taken
    true_time,      \* seconds since midnight, counted from what was set, or Unknown
    updates, calls, clash_c,
    date,           \* the kernel's: days since 1970
    today,          \* the day that it really is
    days            \* days since the kernel was started

cvars == <<cmos, op, irq8, true_time, updates, calls, clash_c>>
dvars == <<date, today, days>>

Unknown == -1
NoOp == [what |-> "none", todo |-> <<>>, time |-> <<>>, at |-> Unknown]
Clock == {"hour", "min", "sec"}

BCD_TO_BIN(v) == (v % 16) + (v \div 16) * 10
BIN_TO_BCD(v) == (v \div 10) * 16 + (v % 10)

\* What a register holds, and how a number is put into it.
Get(c, v) == IF "binary" \in c.control THEN v ELSE BCD_TO_BIN(v)
Put(c, v) == IF "binary" \in c.control THEN v ELSE BIN_TO_BCD(v)

leap_year(y) == y % 4 = 0 /\ (y % 100 # 0 \/ y % 400 = 0)

\* The code's table gives April 31 days and May 30.
days_per_month == <<<<31, 28, 31, 31, 30, 30, 31, 31, 30, 31, 30, 31>>,
                    <<31, 29, 31, 31, 30, 30, 31, 31, 30, 31, 30, 31>>>>

-----------------------------------------------------------------------------
(* rtc_update()                                                             *)

\* The table is indexed with months from 1: January has the days of February,
\* December those of the next row, or of what follows the table.
LastDays(y, mo) ==
    IF mo < 12 THEN {days_per_month[IF leap_year(y) THEN 2 ELSE 1][mo + 1]}
    ELSE IF leap_year(y) THEN {0, 99} ELSE {31}

\* The date after the last second of a day; last is the last day of the month.
Tomorrow(c, last) ==
    LET dm == Get(c, c.dom) + 1
        mo == Get(c, c.mon)
        y == Get(c, c.year)
        month == dm > last
        year == month /\ mo + 1 > 12
        century == year /\ y + 1 > 99
    IN  [c EXCEPT !.dow = Put(c, (Get(c, c.dow) + 1) % 7),
                  !.dom = Put(c, IF month THEN 1 ELSE dm),
                  !.mon = Put(c, IF year THEN 1 ELSE IF month THEN mo + 1 ELSE mo),
                  !.year = Put(c, IF century THEN 0 ELSE IF year THEN y + 1 ELSE y),
                  !.cent = IF century THEN BIN_TO_BCD(BCD_TO_BIN(@) + 1) ELSE @]

\* Mutant: the minutes are not carried over.
Ticked_minutes(c, last) ==
    LET s == Get(c, c.sec) + 1
        mi == IF s % 60 = 0 THEN Get(c, c.min) + 1 ELSE Get(c, c.min)
    IN  [c EXCEPT !.sec = Put(c, IF s % 60 = 0 THEN 0 ELSE s),
                  !.min = Put(c, mi % 60)]

\* The registers one second later.
Ticked(c, last) ==
    LET s == Get(c, c.sec) + 1
        minute == s % 60 = 0
        mi == IF minute THEN Get(c, c.min) + 1 ELSE Get(c, c.min)
        hour == minute /\ mi % 60 = 0
        h == IF hour THEN Get(c, c.hour) + 1 ELSE Get(c, c.hour)
        day == hour /\ h % 24 = 0
        d == IF day THEN Tomorrow(c, last) ELSE c
    IN  [d EXCEPT !.sec = Put(c, IF minute THEN 0 ELSE s),
                  !.min = Put(c, IF hour THEN 0 ELSE mi),
                  !.hour = Put(c, IF day THEN 0 ELSE h)]

AlarmMatches(c) == c.hour = c.ahour /\ c.min = c.amin /\ c.sec = c.asec

\* The flags of register C and the interrupt.
Flagged(c) ==
    [c EXCEPT !.flags = (IF "UIE" \in c.control THEN {"UF"} ELSE {})
                        \cup (IF "AIE" \in c.control /\ AlarmMatches(c) THEN {"AF"} ELSE {})]

rtc_update ==
    /\ updates < MaxUpdates /\ updates' = updates + 1
    /\ IF "SET" \in cmos.control THEN UNCHANGED <<cmos, irq8, true_time, clash_c>>
       ELSE /\ \E last \in LastDays(Get(cmos, cmos.year), Get(cmos, cmos.mon)) :
                    cmos' = Flagged(Ticked(cmos, last))
            /\ irq8' = (irq8 \/ cmos'.flags # {})
            /\ true_time' = IF true_time = Unknown THEN Unknown ELSE (true_time + 1) % 86400
            /\ clash_c' = IF op.todo # <<>> /\ \E r \in Clock : /\ \A i \in DOMAIN op.todo : op.todo[i] # r
                                                          /\ cmos'[r] # cmos[r]
                          THEN "torn" ELSE clash_c
    /\ UNCHANGED op

-----------------------------------------------------------------------------
(* The ports and the calls.                                                 *)

\* vcmos_out(): the program changes a bit of register B, or a register of the
\* clock; vcmos_in(): it reads register C, which clears it.
vcmos_out_control(bit) ==
    /\ op = NoOp
    /\ cmos' = [cmos EXCEPT !.control = IF bit \in @ THEN @ \ {bit} ELSE @ \cup {bit}]
    /\ true_time' = IF bit = "binary" THEN Unknown ELSE true_time
    /\ UNCHANGED <<op, irq8, updates, clash_c>>

vcmos_out_setup(v) ==
    /\ op = NoOp /\ cmos' = [cmos EXCEPT !.setup = v, !.written = TRUE]
    /\ UNCHANGED <<op, irq8, true_time, updates, clash_c>>

vcmos_in_flags ==
    /\ op = NoOp /\ irq8 /\ cmos' = [cmos EXCEPT !.flags = {}] /\ irq8' = FALSE
    /\ UNCHANGED <<op, true_time, updates, clash_c>>

\* set_vcmos_byte(), with recalc_checksum()
set_vcmos_byte(v) ==
    /\ op = NoOp /\ cmos' = [cmos EXCEPT !.setup = v, !.sum = v, !.written = FALSE]
    /\ UNCHANGED <<op, irq8, true_time, updates, clash_c>>

\* Functions 2 and 3 of INT 1A: get_bcd_time(), set_bcd_time(), one register
\* after the other.
get_bcd_time ==
    /\ op = NoOp
    /\ op' = [what |-> "get", todo |-> <<"hour", "min", "sec">>, time |-> <<>>, at |-> Unknown]
    /\ UNCHANGED <<cmos, irq8, true_time, updates, clash_c>>

set_bcd_time(t) ==
    /\ op = NoOp
    /\ op' = [what |-> "set", todo |-> <<"hour", "min", "sec">>, time |-> t, at |-> Unknown]
    /\ UNCHANGED <<cmos, irq8, true_time, updates, clash_c>>

\* Mutant: the mode of the clock is not looked at.
Returned_raw(r) == BCD_TO_BIN(cmos[r])

\* What get_bcd_time() returns of a register, as a number.
Returned(r) == BCD_TO_BIN(IF "binary" \in cmos.control THEN BIN_TO_BCD(cmos[r]) ELSE cmos[r])

Seconds(t) == t[1] * 3600 + t[2] * 60 + t[3]

bcd_time_step ==
    /\ op # NoOp /\ op.todo # <<>>
    /\ LET r == Head(op.todo)
           last == Len(op.todo) = 1
       IN  IF op.what = "get"
           THEN /\ op' = [op EXCEPT !.todo = Tail(@), !.time = Append(@, Returned(r)),
                                    !.at = IF last THEN true_time ELSE @]
                /\ UNCHANGED <<cmos, true_time>>
           ELSE /\ op' = [op EXCEPT !.todo = Tail(@)]
                /\ cmos' = [cmos EXCEPT ![r] = Put(cmos, op.time[4 - Len(op.todo)])]
                /\ true_time' = IF last THEN Seconds(op.time) ELSE Unknown
    /\ UNCHANGED <<irq8, updates, clash_c>>

bcd_time_done ==
    /\ op # NoOp /\ op.todo = <<>> /\ op' = NoOp
    /\ updates' = IF op.what = "set" THEN 0 ELSE updates
    /\ UNCHANGED <<cmos, irq8, true_time, clash_c>>

\* Functions 4 and 5: in binary mode set_bcd_date() converts what it is given,
\* and get_bcd_date() converts a number that is binary already.
set_bcd_date(d) ==
    /\ op = NoOp
    /\ cmos' = [cmos EXCEPT !.year = Put(cmos, d[1]), !.mon = Put(cmos, d[2]), !.dom = Put(cmos, d[3])]
    /\ UNCHANGED <<op, irq8, true_time, updates, clash_c>>

\* Functions 6 and 7.
set_alarm(t) ==
    /\ op = NoOp /\ cmos.control \cap {"SET", "AIE"} = {}
    /\ cmos' = [cmos EXCEPT !.ahour = Put(cmos, t[1]), !.amin = Put(cmos, t[2]),
                            !.asec = Put(cmos, t[3]), !.control = @ \cup {"AIE"}]
    /\ UNCHANGED <<op, irq8, true_time, updates, clash_c>>

reset_alarm ==
    /\ op = NoOp /\ cmos' = [cmos EXCEPT !.control = @ \ {"AIE"}]
    /\ UNCHANGED <<op, irq8, true_time, updates, clash_c>>

-----------------------------------------------------------------------------
\* create_vcmos(): the time is that of the real clock, in BCD.
CInit ==
    /\ \E t \in TimesOfDay, d \in DatesOfYear :
        /\ cmos = [sec |-> BIN_TO_BCD(t[3]), min |-> BIN_TO_BCD(t[2]), hour |-> BIN_TO_BCD(t[1]),
                   asec |-> 0, amin |-> 0, ahour |-> 0, dow |-> 0, cent |-> 25,
                   dom |-> BIN_TO_BCD(d[3]), mon |-> BIN_TO_BCD(d[2]), year |-> BIN_TO_BCD(d[1]),
                   control |-> {}, flags |-> {}, setup |-> 0, sum |-> 0, written |-> FALSE]
        /\ true_time = t[1] * 3600 + t[2] * 60 + t[3]
    /\ op = NoOp /\ irq8 = FALSE /\ updates = 0 /\ calls = 0 /\ clash_c = "none"

CNext ==
    /\ clash_c = "none"
    /\ \/ (rtc_update \/ bcd_time_step \/ bcd_time_done) /\ UNCHANGED calls
       \/ /\ calls < MaxCalls /\ calls' = calls + 1
          /\ \/ \E bit \in {"SET", "UIE", "binary"} : vcmos_out_control(bit)
             \/ \E v \in {0, 1} : vcmos_out_setup(v) \/ set_vcmos_byte(v)
             \/ vcmos_in_flags \/ reset_alarm \/ get_bcd_time
             \/ \E t \in TimesOfDay : set_bcd_time(t) \/ set_alarm(t)
             \/ \E d \in DatesOfYear : set_bcd_date(d)

CSpec == CInit /\ [][CNext]_cvars

-----------------------------------------------------------------------------
Shown == <<Get(cmos, cmos.hour), Get(cmos, cmos.min), Get(cmos, cmos.sec)>>

\* The clock shows what it was set to and the seconds since then, over every
\* carry and in both of its modes; a call returns what it shows; the checksum
\* is that of the setup bytes unless the program has written one itself.
ClockKeepsTime ==
    clash_c = "none" =>
        /\ true_time # Unknown => Seconds(Shown) = true_time
        /\ op.at # Unknown => Seconds(op.time) = op.at
        /\ cmos.written \/ cmos.sum = cmos.setup

-----------------------------------------------------------------------------
(* The kernel's date.                                                       *)

\* What the calendar is: the reference.
MonthLength(y, m) ==
    CASE m = 2 -> IF leap_year(y) THEN 29 ELSE 28
      [] m \in {4, 6, 9, 11} -> 30
      [] OTHER -> 31
NextDay(t) ==
    IF t[3] < MonthLength(t[1], t[2]) THEN <<t[1], t[2], t[3] + 1>>
    ELSE IF t[2] < 12 THEN <<t[1], t[2] + 1, 1>> ELSE <<t[1] + 1, 1, 1>>

\* Mutant: February is not put last.
mktime_plain(year, mon, day) ==
    year \div 4 - year \div 100 + year \div 400 + (367 * mon) \div 12 + day + year * 365 - 719499

\* mktime(): the months are counted from March.
mktime(year, mon, day) ==
    LET m == IF mon - 2 <= 0 THEN mon + 10 ELSE mon - 2
        y == IF mon - 2 <= 0 THEN year - 1 ELSE year
    IN  y \div 4 - y \div 100 + y \div 400 + (367 * m) \div 12 + day + y * 365 - 719499

\* update_cmos_date(), from what the real clock holds: years of two digits.
update_cmos_date(t) ==
    LET y == 1900 + BCD_TO_BIN(BIN_TO_BCD(t[1] % 100))
    IN  mktime(IF y < 1970 THEN y + 100 ELSE y, BCD_TO_BIN(BIN_TO_BCD(t[2])), BCD_TO_BIN(BIN_TO_BCD(t[3])))

\* The loops of expand_time(): years, then months, are taken off the days.
RECURSIVE TakeYears(_, _), TakeMonths(_, _, _)
TakeYears(cal, year) ==
    LET nxt == IF leap_year(year) THEN 366 ELSE 365
    IN  IF cal < nxt THEN <<year, cal>> ELSE TakeYears(cal - nxt, year + 1)
TakeMonths(cal, year, month) ==
    LET nxt == days_per_month[IF leap_year(year) THEN 2 ELSE 1][month]
    IN  IF cal < nxt THEN <<year, month, cal + 1>> ELSE TakeMonths(cal - nxt, year, month + 1)

expand_time(cal) == LET y == TakeYears(cal, 1970) IN TakeMonths(y[2], y[1], 1)

\* tm->day_of_week, from Monday.  The published formula also adds the year.
day_of_week(t) ==
    LET m == IF t[2] <= 2 THEN t[2] + 12 ELSE t[2]
        y == IF t[2] <= 2 THEN t[1] - 1 ELSE t[1]
    IN  (t[3] + 2 * m + (3 * (m + 1)) \div 5 + y \div 4 - y \div 100 + y \div 400) % 7

-----------------------------------------------------------------------------
DInit == \E t \in Starts : date = update_cmos_date(t) /\ today = t /\ days = 0

\* A day of cmos_timer()'s seconds.
DNext ==
    /\ days < MaxDays /\ days' = days + 1
    /\ date' = date + 1 /\ today' = NextDay(today)

DSpec == DInit /\ [][DNext]_dvars

\* The date shown is the day it is, and a kernel started today shows the same
\* date as one that has been running: through leap years, the turn of the
\* century and of the two-digit year; except that all of May is shown one day
\* late.  The day of the week is right in years divisible by 7.
DateIsRight ==
    /\ date = update_cmos_date(today)
    /\ today[2] # 5 => expand_time(date) = today
    /\ today[2] \notin {1, 2, 5} /\ today[1] % 7 = 0 => day_of_week(today) = (date + 3) % 7
=============================================================================
