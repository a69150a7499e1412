------------------------------ MODULE Calendar ------------------------------
(***************************************************************************)
(* The calendar functions of the date picker: days of a month, reading and *)
(* writing a date by a format, and the 42 cells of the page of a month.    *)
(* Months count from 0, as in JavaScript, and weekdays from Sunday = 0.    *)
(* Times of the day are left out: every date the picker makes is at        *)
(* midnight.                                                               *)
(***************************************************************************)
EXTENDS Integers, Sequences

Months == 0 .. 11
Cells == 0 .. 41

Day(y, m, d) == [y |-> y, m |-> m, d |-> d]

IsLeapYear(y) == (y % 4 = 0 /\ y % 100 # 0) \/ y % 400 = 0

DaysInMonth(y, m) ==
    CASE m = 1 -> IF IsLeapYear(y) THEN 29 ELSE 28
      [] m \in {3, 5, 8, 10} -> 30
      [] OTHER -> 31

IsDate(t) ==
    /\ t \in [y : Int, m : Months, d : 1 .. 31]
    /\ t.d <= DaysInMonth(t.y, t.m)

-----------------------------------------------------------------------------
(* JavaScript's Date, as far as the picker uses it.                        *)

\* Months beyond the year: the year takes them.
OfMonth(y, m, d) == Day(y + (m \div 12), m % 12, d)

\* One month's worth of days beyond the month.
Carry(t) ==
    IF t.d < 1
    THEN LET p == OfMonth(t.y, t.m - 1, 1)
         IN [p EXCEPT !.d = t.d + DaysInMonth(p.y, p.m)]
    ELSE IF t.d > DaysInMonth(t.y, t.m)
    THEN OfMonth(t.y, t.m + 1, t.d - DaysInMonth(t.y, t.m))
    ELSE t

\* Days beyond the month, which are at most 99: three months and a few days.
Normal(t) == Carry(Carry(Carry(t)))

SetDate(t, d) == Normal([t EXCEPT !.d = d])
SetMonth(t, m) == Normal(OfMonth(t.y, m, t.d))
SetFullYear(t, y) == Normal([t EXCEPT !.y = y])

\* new Date(y, m, d), where a year below 100 is one of the 20th century.
MakeDate(y, m, d) == Normal(OfMonth(IF y \in 0 .. 99 THEN 1900 + y ELSE y, m, d))

DaysBefore(y, m) ==
    LET common == <<0, 31, 59, 90, 120, 151, 181, 212, 243, 273, 304, 334>>
    IN common[m + 1] + IF m > 1 /\ IsLeapYear(y) THEN 1 ELSE 0

\* getDay: days since the beginning of year 1, which was a Monday.
Weekday(t) ==
    LET p == t.y - 1
    IN (365 * p + (p \div 4) - (p \div 100) + (p \div 400) + DaysBefore(t.y, t.m) + t.d) % 7

-----------------------------------------------------------------------------
(* DPGlobal: a format is the sequence of its fields, a text the sequence   *)
(* of its parts, where 0 stands for a part that does not begin with a      *)
(* number other than 0.  ("dd" reads and writes like "d", "mm" like "m".)  *)

Fields == {"d", "m", "yy", "yyyy"}
Numbers == 0 .. 9999

\* What the text says of the fields fs, or a default if the format lacks them.
Part(text, format, fs, default) ==
    LET places == {i \in DOMAIN format : format[i] \in fs}
        last == CHOOSE i \in places : \A j \in places : j <= i
    IN IF places = {} THEN default ELSE IF text[last] = 0 THEN 1 ELSE text[last]

\* "yy" is a year from 2000 on.
FullYears(text, format) ==
    [i \in DOMAIN format |->
        IF format[i] # "yy" THEN text[i] ELSE 2000 + IF text[i] = 0 THEN 1 ELSE text[i]]

YearPart(text, format, today) == Part(FullYears(text, format), format, {"yy", "yyyy"}, today.y)

\* Mutant: the month is not brought to JavaScript's count.
ParseMonthOff(text, format, today) ==
    IF Len(text) # Len(format) THEN today
    ELSE MakeDate(YearPart(text, format, today),
                  Part(text, format, {"m"}, today.m + 1),
                  Part(text, format, {"d"}, today.d))

\* parseDate: what the format lacks is today's; a text with too few or too many
\* parts is today.
ParseDate(text, format, today) ==
    IF Len(text) # Len(format) THEN today
    ELSE MakeDate(YearPart(text, format, today),
                  Part(text, format, {"m"}, today.m + 1) - 1,
                  Part(text, format, {"d"}, today.d))

\* formatDate; a year has four digits, of which "yy" writes the last two.
FormatDate(t, format) ==
    [i \in DOMAIN format |->
        CASE format[i] = "d" -> t.d
          [] format[i] = "m" -> t.m + 1
          [] format[i] = "yy" -> t.y % 100
          [] format[i] = "yyyy" -> t.y]

-----------------------------------------------------------------------------
(* fill: the page of the month of v, in weeks that begin on weekStart.     *)

\* Mutant: the days since weekStart are not brought to 0 .. 6.
FirstCellNoWrap(v, weekStart) ==
    LET p == MakeDate(v.y, v.m - 1, 28)
        last == SetDate(p, DaysInMonth(p.y, p.m))
    IN SetDate(last, last.d - (Weekday(last) - weekStart))

\* The last weekStart of the month before, ...
FirstCell(v, weekStart) ==
    LET p == MakeDate(v.y, v.m - 1, 28)
        last == SetDate(p, DaysInMonth(p.y, p.m))
    IN SetDate(last, last.d - ((Weekday(last) - weekStart + 7) % 7))

\* ... from which the cells go on day by day.
Page(v, weekStart) ==
    LET first == FirstCell(v, weekStart)
    IN [i \in Cells |-> SetDate(first, first.d + i)]

\* The class of a cell: is it before or after the month of the page?
CellClass(v, c) ==
    CASE (c.m < v.m /\ c.y = v.y) \/ c.y < v.y -> "old"
      [] (c.m > v.m /\ c.y = v.y) \/ c.y > v.y -> "new"
      [] OTHER -> ""

\* fillDow: the weekday that heads the column j.
ColumnHead(weekStart, j) == (weekStart + j) % 7

\* The years on the page of a decade: one before it and one after it, too.
YearCell(v, i) == (v.y \div 10) * 10 - 1 + i
=============================================================================
