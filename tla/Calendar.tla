------------------------------ MODULE Calendar ------------------------------
(***************************************************************************)
(* Dates in the kernel's C library, kernel/libc/time.c: the conversions    *)
(* between days since 1970 and dates, gmtime, mktime and strftime.  The    *)
(* state is a day of a calendar that goes on by the rule of leap years;    *)
(* every day the library is asked about it.  Day 0 of the calendar is the  *)
(* first of January 1970, a Thursday.                                      *)
(*                                                                         *)
(* / and % of C truncate: Quotient and Remainder.  The hardware counter    *)
(* behind time() is left out.                                              *)
(***************************************************************************)
EXTENDS Integers, Sequences, FiniteSets

CONSTANTS Walks,                \* pairs of years: from the first day of one to the last of the other
          TimeSpan,             \* days around 1970 whose seconds fit the checker's integers
          TextSizes             \* sizes of strftime's buffer

ASSUME CalendarConstants ==
    /\ Walks \subseteq Int \X Int
    /\ {TimeSpan} \union TextSizes \subseteq Nat

VARIABLES day,  \* days since 1970-01-01
          date  \* the date of that day: year, month, day, weekday and day of the year
calendarVars == <<day, date>>

SecondsPerDay == 86400
Quotient(a, b) == IF a >= 0 THEN a \div b ELSE -((-a) \div b)
Remainder(a, b) == a - b * Quotient(a, b)

-----------------------------------------------------------------------------
(* Days and dates; months count from 1 here, as in the code.               *)
IsLeapYear(year) ==
    Remainder(year, 4) = 0 /\ (Remainder(year, 100) # 0 \/ Remainder(year, 400) = 0)
NormalYearDays == <<31, 28, 31, 30, 31, 30, 31, 31, 30, 31, 30, 31>>
DaysInMonth(year, month) ==
    IF month = 2 /\ IsLeapYear(year) THEN 29 ELSE NormalYearDays[month]

DaysFromCivil(year0, month, mday) ==
    LET year == IF month <= 2 THEN year0 - 1 ELSE year0
        era == Quotient(IF year >= 0 THEN year ELSE year - 399, 400)
        yearOfEra == year - era * 400
        dayOfYear == (153 * (month + (IF month > 2 THEN -3 ELSE 9)) + 2) \div 5 + mday - 1
        dayOfEra == yearOfEra * 365 + yearOfEra \div 4 - yearOfEra \div 100 + dayOfYear
    IN era * 146097 + dayOfEra - 719468

YearOfEra(dayOfEra) ==
    (dayOfEra - dayOfEra \div 1460 + dayOfEra \div 36524 - dayOfEra \div 146096) \div 365
MonthAndDay(year, dayOfYear) ==
    LET part == (5 * dayOfYear + 2) \div 153
        month == part + (IF part < 10 THEN 3 ELSE -9)
    IN [year |-> IF month <= 2 THEN year + 1 ELSE year,
        month |-> month,
        mday |-> dayOfYear - (153 * part + 2) \div 5 + 1]
CivilOfEra(era, yearOfEra, dayOfEra) ==
    MonthAndDay(yearOfEra + era * 400,
                dayOfEra - (365 * yearOfEra + yearOfEra \div 4 - yearOfEra \div 100))
CivilFromDays(days0) ==
    LET days == days0 + 719468
        era == Quotient(IF days >= 0 THEN days ELSE days - 146096, 146097)
        dayOfEra == days - era * 146097
    IN CivilOfEra(era, YearOfEra(dayOfEra), dayOfEra)

RECURSIVE DaysBefore(_, _)
DaysBefore(year, month) ==
    IF month = 1 THEN 0 ELSE DaysInMonth(year, month - 1) + DaysBefore(year, month - 1)
DayOfYear(year, month, mday) == DaysBefore(year, month) + mday - 1

-----------------------------------------------------------------------------
(* gmtime and mktime. *)
BrokenDown(civil, wday, seconds) ==
    [year |-> civil.year, month |-> civil.month, mday |-> civil.mday,
     hour |-> Quotient(seconds, 3600),
     min |-> Quotient(Remainder(seconds, 3600), 60),
     sec |-> Remainder(Remainder(seconds, 3600), 60),
     wday |-> IF wday < 0 THEN wday + 7 ELSE wday,
     yday |-> DayOfYear(civil.year, civil.month, civil.mday)]
BreakDays(days, seconds) == BrokenDown(CivilFromDays(days), Remainder(days + 4, 7), seconds)
\* Mutant: a time before 1970 keeps the day its division gives.
BreakTimeNoBorrow(value) ==
    BreakDays(Quotient(value, SecondsPerDay), Remainder(value, SecondsPerDay))
BreakTime(value) ==
    LET days == Quotient(value, SecondsPerDay)
        seconds == Remainder(value, SecondsPerDay)
    IN IF seconds < 0 THEN BreakDays(days - 1, seconds + SecondsPerDay)
       ELSE BreakDays(days, seconds)

\* mktime: the month is brought into its year, a day below 1 is taken for 1.
RECURSIVE NormalMonth(_, _)
NormalMonth(year, month) ==
    CASE month < 1 -> NormalMonth(year - 1, month + 12)
      [] month > 12 -> NormalMonth(year + 1, month - 12)
      [] OTHER -> [year |-> year, month |-> month]
MakeTime(tm) ==
    LET ym == NormalMonth(tm.year, tm.month)
        mday == IF tm.mday <= 0 THEN 1 ELSE tm.mday
    IN DaysFromCivil(ym.year, ym.month, mday) * SecondsPerDay
       + tm.hour * 3600 + tm.min * 60 + tm.sec

-----------------------------------------------------------------------------
(* strftime. *)
Figures == <<"0", "1", "2", "3", "4", "5", "6", "7", "8", "9">>
RECURSIVE DecimalDigits(_)
DecimalDigits(n) ==
    IF n < 10 THEN <<Figures[n + 1]>>
    ELSE Append(DecimalDigits(n \div 10), Figures[(n % 10) + 1])
Decimal(value, width, padding) ==
    LET digits == DecimalDigits(IF value < 0 THEN -value ELSE value)
        pad == [i \in 1 .. (IF width > Len(digits) THEN width - Len(digits) ELSE 0) |-> padding]
    IN (IF value < 0 THEN <<"-">> ELSE <<>>) \o pad \o digits
WeekdayShort == <<<<"S", "u", "n">>, <<"M", "o", "n">>, <<"T", "u", "e">>, <<"W", "e", "d">>,
                  <<"T", "h", "u">>, <<"F", "r", "i">>, <<"S", "a", "t">>>>
MonthShort == <<<<"J", "a", "n">>, <<"F", "e", "b">>, <<"M", "a", "r">>, <<"A", "p", "r">>,
                <<"M", "a", "y">>, <<"J", "u", "n">>, <<"J", "u", "l">>, <<"A", "u", "g">>,
                <<"S", "e", "p">>, <<"O", "c", "t">>, <<"N", "o", "v">>, <<"D", "e", "c">>>>
Time(tm) ==
    Decimal(tm.hour, 2, "0") \o <<":">> \o Decimal(tm.min, 2, "0") \o <<":">>
    \o Decimal(tm.sec, 2, "0")
Item(specifier, tm) ==
    CASE specifier = "Y" -> Decimal(tm.year, 4, "0")
      [] specifier = "y" -> Decimal(Remainder(tm.year, 100), 2, "0")
      [] specifier = "m" -> Decimal(tm.month, 2, "0")
      [] specifier = "d" -> Decimal(tm.mday, 2, "0")
      [] specifier = "e" -> Decimal(tm.mday, 2, " ")
      [] specifier = "H" -> Decimal(tm.hour, 2, "0")
      [] specifier = "I" -> Decimal(IF Remainder(tm.hour, 12) = 0 THEN 12
                                    ELSE Remainder(tm.hour, 12), 2, "0")
      [] specifier = "M" -> Decimal(tm.min, 2, "0")
      [] specifier = "S" -> Decimal(tm.sec, 2, "0")
      [] specifier = "j" -> Decimal(tm.yday + 1, 3, "0")
      [] specifier = "w" -> Decimal(tm.wday, 1, "0")
      [] specifier = "a" -> WeekdayShort[tm.wday + 1]
      [] specifier \in {"b", "h"} -> MonthShort[tm.month]
      [] specifier = "p" -> IF tm.hour < 12 THEN <<"A", "M">> ELSE <<"P", "M">>
      [] specifier = "x" -> Decimal(tm.month, 2, "0") \o <<"/">> \o Decimal(tm.mday, 2, "0")
                            \o <<"/">> \o Decimal(Remainder(tm.year, 100), 2, "0")
      [] specifier = "X" -> Time(tm)
      [] specifier = "c" -> WeekdayShort[tm.wday + 1] \o <<" ">> \o MonthShort[tm.month]
                            \o <<" ">> \o Decimal(tm.mday, 2, " ") \o <<" ">> \o Time(tm)
                            \o <<" ">> \o Decimal(tm.year, 4, "0")
      [] OTHER -> <<specifier>>

\* The text so far, or a failure: the character that would leave no room for
\* the end is not stored.
RECURSIVE AppendItems(_, _, _, _, _)
AppendItems(format, at, size, tm, out) ==
    LET percent == format[at] = "%"
        n == IF percent THEN at + 2 ELSE at + 1
        text == IF percent THEN Item(format[at + 1], tm) ELSE <<format[at]>>
    IN CASE at > Len(format) -> [fits |-> TRUE, text |-> out]
         [] at = Len(format) /\ percent -> [fits |-> FALSE, text |-> out]
         [] OTHER -> IF Len(out) + Len(text) + 1 > size THEN [fits |-> FALSE, text |-> out]
                     ELSE AppendItems(format, n, size, tm, out \o text)
Formatted(r, size) == [written |-> IF size > 0 /\ r.fits THEN Len(r.text) ELSE 0, text |-> r.text]
Strftime(format, size, tm) == Formatted(AppendItems(format, 1, size, tm, <<>>), size)

-----------------------------------------------------------------------------
(* The walk. *)
Leap(year) == year % 4 = 0 /\ (year % 100 # 0 \/ year % 400 = 0)
LengthOf(year, month) ==
    CASE month = 2 -> IF Leap(year) THEN 29 ELSE 28
      [] month \in {4, 6, 9, 11} -> 30
      [] OTHER -> 31
DaysOfYears(first, last) ==
    365 * (last - first + 1) + Cardinality({y \in first .. last : Leap(y)})
FirstOfYear(year) ==
    IF year >= 1970 THEN DaysOfYears(1970, year - 1) ELSE -DaysOfYears(year, 1969)

CalendarInit ==
    \E walk \in Walks :
       /\ day = FirstOfYear(walk[1])
       /\ date = [year |-> walk[1], month |-> 1, mday |-> 1, wday |-> (4 + day) % 7, yday |-> 0]
CalendarRests ==
    /\ day = 0
    /\ date = [year |-> 1970, month |-> 1, mday |-> 1, wday |-> 4, yday |-> 0]
NextDate(d) ==
    LET week == (d.wday + 1) % 7 IN
    CASE d.mday < LengthOf(d.year, d.month) -> [d EXCEPT !.mday = @ + 1, !.wday = week, !.yday = @ + 1]
      [] d.mday = LengthOf(d.year, d.month) /\ d.month < 12 ->
            [d EXCEPT !.mday = 1, !.month = @ + 1, !.wday = week, !.yday = @ + 1]
      [] OTHER -> [year |-> d.year + 1, month |-> 1, mday |-> 1, wday |-> week, yday |-> 0]
NextDay ==
    /\ \E walk \in Walks : date.year \in walk[1] .. walk[2]
    /\ day' = day + 1
    /\ date' = NextDate(date)

-----------------------------------------------------------------------------
(* The library's date of every day is the calendar's, and back: around     *)
(* leap days, centuries, eras and the epoch, and for the seconds at both   *)
(* ends of a day.  mktime brings fields that are out of range to the same  *)
(* time, but for a day of the month below 1: the C standard counts back    *)
(* into the month before, mktime takes it for the first (time.c:450).      *)
Shown(tm) == [year |-> tm.year, month |-> tm.month, mday |-> tm.mday, wday |-> tm.wday,
              yday |-> tm.yday]
MonthBack(tm) ==
    [tm EXCEPT !.month = @ - 1,
               !.mday = @ + LengthOf(IF tm.month = 1 THEN tm.year - 1 ELSE tm.year,
                                     IF tm.month = 1 THEN 12 ELSE tm.month - 1)]
Shifts(tm) == {[tm EXCEPT !.month = @ + 12, !.year = @ - 1],
               [tm EXCEPT !.month = @ - 24, !.year = @ + 2],
               [tm EXCEPT !.hour = @ - 25, !.mday = @ + 1, !.min = @ + 60],
               [tm EXCEPT !.hour = @ + 72, !.mday = @ - 3],
               MonthBack(tm)}
DaysSkipped(tm) == IF tm.mday < 1 THEN 1 - tm.mday ELSE 0
TimeTrue(t, tm) ==
    /\ Shown(tm) = date
    /\ tm.hour * 3600 + tm.min * 60 + tm.sec = t - day * SecondsPerDay
    /\ tm.min \in 0..59 /\ tm.sec \in 0..59
    /\ MakeTime(tm) = t
    /\ \A shifted \in Shifts(tm) :
          MakeTime(shifted) = t + DaysSkipped(shifted) * SecondsPerDay
DatesTrue ==
    /\ Shown(BreakDays(day, 0)) = date
    /\ DaysFromCivil(date.year, date.month, date.mday) = day
    /\ day \in -TimeSpan .. TimeSpan =>
          \A s \in {0, 43201, SecondsPerDay - 1} :
             TimeTrue(day * SecondsPerDay + s, BreakTime(day * SecondsPerDay + s))

(* strftime's text says the date it was given, whatever the buffer: it     *)
(* returns 0 or the length of the whole text (time.c).                     *)
Figure(c) == (CHOOSE i \in 1..10 : Figures[i] = c) - 1
DateFormat == <<"%", "Y", "-", "%", "m", "-", "%", "d", " ", "%", "j", "%", "w">>
Two(text, i) == 10 * Figure(text[i]) + Figure(text[i + 1])
SaysDate(text) ==
    /\ 100 * Two(text, 1) + Two(text, 3) = date.year
    /\ Two(text, 6) = date.month /\ Two(text, 9) = date.mday
    /\ 10 * Two(text, 12) + Figure(text[14]) = date.yday + 1
    /\ Figure(text[15]) = date.wday
TextTrue(r, size) ==
    /\ r.written = IF size > 15 THEN 15 ELSE 0
    /\ r.written > 0 => SaysDate(r.text)
TextsTrue ==
    date.year \in 1000 .. 9999 =>
        \A size \in TextSizes : TextTrue(Strftime(DateFormat, size, BreakDays(day, 0)), size)
=============================================================================
