----------------------------- MODULE DatePicker -----------------------------
(***************************************************************************)
(* The date picker of the saved LanHu page (bootstrap-datepicker, with the *)
(* changes of the page's authors): one input, or element, and its popup.   *)
(* Everything runs on the page's one thread, so each handler is one step;  *)
(* what can go wrong is between the dates, the text, the page drawn in the *)
(* popup and the handlers on the window.                                   *)
(*                                                                         *)
(* onRender, with which an app may disable days, only takes clicks away    *)
(* and is left out; so are the other pickers of the page.                  *)
(***************************************************************************)
EXTENDS Calendar

CONSTANTS Configs,   \* options an app may give the picker
          Today,     \* the date of today
          Texts,     \* texts the user may type and the app may set
          Dates,     \* dates the app may set
          PickDays,  \* days of a month the user may click
          Years,     \* bound on the years of the pages and of the dates, ...
          SomeMonths, \* ... and on their months
          MaxShows   \* bound on the calls of show

ViewModes == 0 .. 2

\* A text that says no more days than Normal carries.
Readable(s, format) ==
    /\ s \in Seq(Numbers)
    /\ Len(s) = Len(format) => \A i \in DOMAIN s : format[i] = "d" => s[i] <= 99

ASSUME PickerAssumption ==
    /\ Configs \subseteq [format : Seq(Fields), weekStart : 0 .. 6, minMode : ViewModes,
                          startMode : ViewModes, isInput : BOOLEAN]
    /\ IsDate(Today)
    /\ \A c \in Configs, s \in Texts : Readable(s, c.format)
    /\ \A t \in Dates : IsDate(t)
    /\ PickDays \subseteq 1 .. 31
    /\ Years \subseteq 1000 .. 9999 /\ SomeMonths \subseteq Months
    /\ MaxShows \in Nat

VARIABLES config,     \* the picker's options
          date,       \* this.date
          viewDate,   \* this.viewDate
          viewMode,   \* this.viewMode: 0 days, 1 months, 2 years
          panel,      \* the part of the popup that is not hidden
          strayed,    \* history: the app has changed the mode while the popup is hidden
          drawn,      \* the dates by which fill drew the popup last
          text,       \* the input's value, or the element's data
          behind,     \* has update(newDate) changed the date and not the text?
          shown,      \* is the popup visible?
          resizes,    \* handlers of the window's resize event
          mousedowns, \* handlers of the document's mousedown event
          over,       \* there is no room for the popup below the input
          above,      \* the popup is placed above the input
          scrolled    \* history: scrolled since then, while the popup is visible

dates == <<date, viewDate, drawn, text, behind>>
modes == <<viewMode, panel, strayed>>
window == <<shown, resizes, mousedowns, over, above, scrolled>>
pickerVars == <<config, dates, modes, window>>

InReach(t) == t.y \in Years /\ t.m \in SomeMonths
FirstOf(t) == MakeDate(t.y, t.m, 1)
Parsed(s) == ParseDate(s, config.format, Today)

\* fill draws the popup; set writes the text.
Fill == drawn' = [view |-> viewDate', date |-> date']
Set == text' = FormatDate(date', config.format) /\ behind' = FALSE

\* The constructor, for an input or element whose text is there already.
PickerInit ==
    /\ config \in Configs
    /\ text \in Texts
    /\ date = Parsed(text)
    /\ InReach(date)
    /\ viewDate = FirstOf(date)
    /\ drawn = [view |-> viewDate, date |-> date]
    /\ behind = FALSE
    /\ viewMode = config.startMode
    /\ panel = config.startMode
    /\ strayed = FALSE
    /\ shown = FALSE
    /\ resizes = 0
    /\ mousedowns = 0
    /\ over \in BOOLEAN
    /\ above = FALSE
    /\ scrolled = FALSE

-----------------------------------------------------------------------------
(* The popup.                                                              *)

\* place
Place == above' = over /\ scrolled' = FALSE

\* show: on focus or a click, or called by the app.  Each call adds a handler of
\* either event.
Show ==
    /\ mousedowns < MaxShows
    /\ shown' = TRUE
    /\ Place
    /\ resizes' = resizes + 1
    /\ mousedowns' = mousedowns + 1
    /\ strayed' = FALSE
    /\ UNCHANGED <<config, dates, viewMode, panel, over>>

\* Mutant: the next time, the popup opens where it was left.
HideKeepsMode ==
    /\ shown' = FALSE
    /\ resizes' = 0
    /\ scrolled' = FALSE
    /\ UNCHANGED <<config, dates, modes, mousedowns, over, above>>

\* hide: off('resize', this.place) finds every handler made of place; there is
\* no handler made of hide, so those of mousedown stay.
Hide ==
    /\ shown' = FALSE
    /\ resizes' = 0
    /\ viewMode' = config.startMode
    /\ panel' = config.startMode
    /\ strayed' = FALSE
    /\ scrolled' = FALSE
    /\ UNCHANGED <<config, dates, mousedowns, over, above>>

\* The mouse goes down outside of any popup: each handler hides this one.
MouseDown == mousedowns > 0 /\ Hide

\* The window is resized, which makes or takes room: each handler places the
\* popup.
Resize ==
    /\ over' \in BOOLEAN
    /\ IF resizes > 0 THEN above' = over' /\ scrolled' = FALSE ELSE UNCHANGED <<above, scrolled>>
    /\ UNCHANGED <<config, dates, modes, shown, resizes, mousedowns>>

\* The page is scrolled, which makes or takes room, too: nothing places the popup.
Scroll ==
    /\ over' \in BOOLEAN
    /\ scrolled' = shown
    /\ UNCHANGED <<config, dates, modes, shown, resizes, mousedowns, above>>

\* showMode(dir), where 0 stands for a call without dir.
ShowMode(dir) ==
    LET up == IF viewMode + dir < 2 THEN viewMode + dir ELSE 2
    IN /\ viewMode' = IF dir = 0 THEN viewMode
                      ELSE IF up > config.minMode THEN up ELSE config.minMode
       /\ panel' = viewMode'

-----------------------------------------------------------------------------
(* Dates from outside.                                                     *)

\* setValue, called by the app with the date t or with a text that says it.
SetTo(t) ==
    /\ date' = t
    /\ InReach(date')
    /\ Set
    /\ viewDate' = FirstOf(date')
    /\ Fill
    /\ UNCHANGED <<config, modes, window>>
SetValue(s) == SetTo(Parsed(s))
SetValueDate(t) == SetTo(t)

\* update, on keyup: the input has a new text.
Keyup(s) ==
    /\ config.isInput
    /\ shown
    /\ text' = s
    /\ behind' = FALSE
    /\ date' = Parsed(s)
    /\ InReach(date')
    /\ viewDate' = FirstOf(date')
    /\ Fill
    /\ UNCHANGED <<config, modes, window>>

\* update(newDate), called by the app: the text is left as it was.
Update(s) ==
    /\ date' = Parsed(s)
    /\ InReach(date')
    /\ behind' = TRUE
    /\ viewDate' = FirstOf(date')
    /\ Fill
    /\ UNCHANGED <<config, text, modes, window>>

\* update(), called by the app: the text, whoever wrote it, is read again.
UpdateFromText ==
    /\ date' = Parsed(text)
    /\ InReach(date')
    /\ behind' = FALSE
    /\ viewDate' = FirstOf(date')
    /\ Fill
    /\ UNCHANGED <<config, text, modes, window>>

-----------------------------------------------------------------------------
(* Clicks in the popup.                                                    *)

ClickSwitch ==
    /\ shown
    /\ ShowMode(1)
    /\ UNCHANGED <<config, dates, strayed, window>>

\* What "prev" and "next" do to the page: months, years or decades.
Turned(k) ==
    CASE viewMode = 0 -> SetMonth(viewDate, viewDate.m + k)
      [] viewMode = 1 -> SetFullYear(viewDate, viewDate.y + k)
      [] viewMode = 2 -> SetFullYear(viewDate, viewDate.y + 10 * k)

\* The arrows: k is -1 for "prev" and 1 for "next".
ClickArrow(k) ==
    /\ shown
    /\ viewDate' = Turned(k)
    /\ InReach(viewDate')
    /\ UNCHANGED date
    /\ Fill
    /\ Set
    /\ UNCHANGED <<config, modes, window>>

\* A month or a year is chosen: it is the page's and the date's.
Choose ==
    /\ InReach(viewDate')
    /\ date' = viewDate'
    /\ ShowMode(-1)
    /\ Fill
    /\ Set
    /\ UNCHANGED <<config, strayed, window>>

ClickMonth(m) ==
    /\ shown /\ panel = 1
    /\ viewDate' = SetMonth(viewDate, m)
    /\ Choose

ClickYear(i) ==
    /\ shown /\ panel = 2
    /\ viewDate' = SetFullYear(viewDate, YearCell(drawn.view, i))
    /\ Choose

\* The cells that are drawn, ...
DrawnPage == Page(drawn.view, config.weekStart)

\* Mutant: the class of the cell is not looked at.
PickedHere(class, d, last) ==
    MakeDate(viewDate.y, viewDate.m, IF last < d THEN last ELSE d)

\* ... and what a click makes of the text and the class of one: a date, whose
\* day is not to be beyond last.
Picked(class, d, last) ==
    MakeDate(viewDate.y,
             CASE class = "old" -> viewDate.m - 1 [] class = "new" -> viewDate.m + 1
               [] OTHER -> viewDate.m,
             IF last < d THEN last ELSE d)

\* Mutant: the page is turned to the very day.
ClickDayExact(i) ==
    /\ shown /\ panel = 0
    /\ LET c == DrawnPage[i]
           class == CellClass(drawn.view, c)
       IN /\ c.d \in PickDays
          /\ date' = Picked(class, c.d, 31)
          /\ viewDate' = Picked(class, c.d, 31)
    /\ InReach(date')
    /\ Fill
    /\ Set
    /\ UNCHANGED <<config, modes, window>>

ClickDay(i) ==
    /\ shown /\ panel = 0
    /\ LET c == DrawnPage[i]
           class == CellClass(drawn.view, c)
       IN /\ c.d \in PickDays
          /\ date' = Picked(class, c.d, 31)
          /\ viewDate' = Picked(class, c.d, 28)
    /\ InReach(date')
    /\ Fill
    /\ Set
    /\ UNCHANGED <<config, modes, window>>

\* $.fn.datepicker(method, value), by which the app calls any of the methods but
\* those that take an event (click, mousedown) or add to the popup what the
\* constructor has added (fillDow, fillMonths).
CallPlace == Place /\ UNCHANGED <<config, dates, modes, shown, resizes, mousedowns, over>>
CallSet ==
    /\ UNCHANGED <<config, date, viewDate, drawn, modes, window>>
    /\ Set
CallFill ==
    /\ UNCHANGED <<config, date, viewDate, text, behind, modes, window>>
    /\ Fill
CallShowMode(dir) ==
    /\ ShowMode(dir)
    /\ strayed' = IF shown THEN strayed ELSE TRUE
    /\ UNCHANGED <<config, dates, window>>

\* (A step of more than 2 modes ends where one of 2 does.)
Call ==
    \/ Show \/ Hide \/ CallPlace \/ CallSet \/ CallFill \/ UpdateFromText
    \/ \E dir \in -2 .. 2 : CallShowMode(dir)
    \/ \E s \in Texts : SetValue(s) \/ Update(s)
    \/ \E t \in Dates : SetValueDate(t)

Click ==
    \/ ClickSwitch
    \/ \E k \in {-1, 1} : ClickArrow(k)
    \/ \E m \in Months : ClickMonth(m)
    \/ \E i \in 0 .. 11 : ClickYear(i)
    \/ \E i \in Cells : ClickDay(i)

PickerNext == Call \/ Click \/ MouseDown \/ Resize \/ Scroll \/ \E s \in Texts : Keyup(s)

PickerSpec == PickerInit /\ [][PickerNext]_pickerVars

-----------------------------------------------------------------------------
PickerTypeOK ==
    /\ config \in Configs
    /\ IsDate(date) /\ InReach(date)
    /\ IsDate(viewDate) /\ InReach(viewDate)
    /\ Readable(text, config.format)
    /\ viewMode \in ViewModes
    /\ resizes \in Nat /\ mousedowns \in Nat
    /\ shown \in BOOLEAN /\ behind \in BOOLEAN /\ over \in BOOLEAN /\ above \in BOOLEAN
    /\ strayed \in BOOLEAN /\ scrolled \in BOOLEAN

\* What is drawn is what the next click is read by: the page, the highlighted
\* date and the panel are those of the fields, whatever changed them.
DrawnInv ==
    /\ drawn = [view |-> viewDate, date |-> date]
    /\ panel = viewMode

\* A picker opens in the mode it was made for, unless the app itself has changed
\* the mode since the popup was hidden; and it never shows a finer mode than the
\* app asked for, provided it was not made to open in one (lines 312-340).
ModeInv ==
    /\ ~shown /\ ~strayed => viewMode = config.startMode
    /\ config.startMode >= config.minMode => viewMode >= config.minMode

\* The popup follows the window while it is visible: hiding takes the handlers of
\* all the calls of show away, and showing adds one and places it (lines 353-381).
\* It is where there is room for it, until the page is scrolled under it.
PlacedInv ==
    /\ shown <=> resizes > 0
    /\ shown /\ ~scrolled => above = over

PickerInv == PickerTypeOK /\ viewDate.d <= 28 /\ DrawnInv /\ ModeInv /\ PlacedInv

\* Clicking a day picks the date the cell stands for, also in the weeks that
\* belong to the month before or after, across the turn of a year (lines 488-503
\* draw what lines 581-590 read back).
ClickPicksCell ==
    LET page == DrawnPage
    IN \A i \in Cells : Picked(CellClass(drawn.view, page[i]), page[i].d, 31) = page[i]

\* The page has every day of its month, in columns under the weekday that heads
\* them, wherever the week starts (lines 451-458 and 477-508).
PageWhole ==
    LET page == DrawnPage
    IN /\ {Day(viewDate.y, viewDate.m, d) : d \in 1 .. DaysInMonth(viewDate.y, viewDate.m)}
             \subseteq {page[i] : i \in Cells}
       /\ \A i \in Cells : Weekday(page[i]) = ColumnHead(config.weekStart, i % 7)

\* An arrow turns to the neighbouring page, by one month, year or decade: a page
\* on day 29, 30 or 31 would skip the shorter months (lines 549-553 and 590).
StepsOnePage ==
    [][\A k \in {-1, 1} : ClickArrow(k) =>
          LET step == CASE viewMode = 0 -> 1 [] viewMode = 1 -> 12 [] OTHER -> 120
          IN /\ 12 * viewDate'.y + viewDate'.m = 12 * viewDate.y + viewDate.m + step * k
             /\ viewDate'.d = viewDate.d]_pickerVars

\* A format from which a date can be read back.
Whole(format) == \A fs \in {{"d"}, {"m"}, {"yy", "yyyy"}} :
    \E i \in DOMAIN format : format[i] \in fs

\* The text is the date's: what a click, the app or the user has made of one reads
\* back as the other, so that the next keyup does not move the date (lines 397-449
\* and 681-732).  A format without a day does not: today's day may be beyond the
\* month chosen.  Nor does "yy" in 2000 ("00" is taken for 1) and outside 20xx.
TextAgrees ==
    /\ ~behind
    /\ Whole(config.format)
    /\ (\E i \in DOMAIN config.format : config.format[i] = "yy") => date.y \in 2001 .. 2099
    => Parsed(text) = date
=============================================================================
