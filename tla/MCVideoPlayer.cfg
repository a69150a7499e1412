CONSTANTS
    EndActions = {"stop", "loop", "destroy"}
    MaxPlays = 2
    MaxSeeks = 2
    MaxTimers = 2
SPECIFICATION Spec
INVARIANTS ControlInReach PauseHolds SliderThaws IInv
PROPERTIES SeekNeedsReady DestroyedStaysQuiet
