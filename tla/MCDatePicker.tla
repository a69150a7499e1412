---------------------------- MODULE MCDatePicker ----------------------------
(* A leap year and the turn of a year.  What the user can type or the app    *)
(* set: month ends, a day too many, parts that are no number, and too few    *)
(* or too many parts, which stand for today.                                 *)
EXTENDS DatePicker

MCToday == Day(2024, 0, 31)

Config(format, weekStart, minMode, startMode, isInput) ==
    [format |-> format, weekStart |-> weekStart, minMode |-> minMode,
     startMode |-> startMode, isInput |-> isInput]

MCConfigs ==
    { Config(<<"m", "d", "yyyy">>, 0, 0, 0, TRUE),
      Config(<<"m", "yyyy">>, 6, 1, 0, FALSE),
      Config(<<"d", "m", "yy">>, 1, 1, 2, TRUE) }

MCTexts == { <<2, 30, 2024>>, <<2, 2024>>, <<31, 0, 24>>, <<12, 31, 2023>> }

\* What the app sets without a text: days that not every month has.
MCDates == { Day(2023, 11, 31), Day(2024, 1, 29) }

\* The cells go on day by day, as fill walks them: from each month of some years
\* around the turn of centuries.
NextDay(t) == SetDate(t, t.d + 1)
ASSUME WalkAssumption ==
    \A y \in {1900, 1999, 2000, 2023, 2024, 2100}, m \in Months, weekStart \in 0 .. 6 :
        LET page == Page(Day(y, m, 1), weekStart)
        IN \A i \in 0 .. 40 : page[i + 1] = NextDay(page[i])
=============================================================================
