CONSTANTS
    Callers = {c1, c2, c3}
    OnError = {c1}
    Nobody = Nobody
    MaxEvents = 2
    NoteVer = 2
    MaxRuns = 2
SPECIFICATION PageFairSpec
INVARIANTS PageInv AnsweredOnce NoteSeen
PROPERTIES QueueServed
CHECK_DEADLOCK FALSE
