CONSTANT MaxNotes = 2
SPECIFICATION Spec
INVARIANTS StatusBarAgrees FollowsDevice ButtonToggles
