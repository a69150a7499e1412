CONSTANTS
    Configs <- MCConfigs
    Today <- MCToday
    Texts <- MCTexts
    Dates <- MCDates
    PickDays = {1, 31}
    Years = {2014, 2023, 2024}
    SomeMonths = {0, 1, 2, 3, 11}
    MaxShows = 2
SPECIFICATION PickerSpec
INVARIANTS PickerInv ClickPicksCell PageWhole TextAgrees
PROPERTIES StepsOnePage
