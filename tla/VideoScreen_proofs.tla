-------------------------- MODULE VideoScreen_proofs --------------------------
(* Proofs about VideoScreen, for any bound on the notifications under way.   *)
EXTENDS VideoScreen, TLAPS

LEMMA TargetFacts ==
  /\ \A d \in Orientations : Mirrored(d) \in Orientations
  /\ ButtonTarget \in Orientations
  BY DEF Mirrored, Orientations, ButtonTarget

\* What a change of orientation establishes by itself, whoever makes it.
LEMMA ChangeFacts ==
  ASSUME IInv, NEW o \in Orientations, NEW who \in {"device", "button"},
         ChangeTo(o, who), parent # "none"
  PROVE  /\ orientation' = o
         /\ parent' \in {"super", "window"}
         /\ full' \in BOOLEAN /\ statusHidden' \in BOOLEAN
         /\ changed' \in {changed, who}
         /\ changed' # "init" => (full' <=> o \in Landscape)
         /\ full' <=> parent' = "window"
         /\ statusHidden' <=> parent' = "window"
  <1>1. CASE o = orientation
    BY <1>1 DEF IInv, TypeOK, ChangeTo, screen, FullInv, StatusBarAgrees
  <1>2. CASE o # orientation
    <2>1. /\ orientation' = o /\ changed' = who
          /\ full' = (o \in Landscape) /\ statusHidden' = (o \in Landscape)
          /\ parent' = IF o \in Landscape THEN "window" ELSE "super"
      BY <1>2 DEF ChangeTo
    <2>2. /\ full' \in BOOLEAN
          /\ full' <=> o \in Landscape
      <3>1. full' = (o \in Landscape)
        BY <2>1
      <3>2. full' \in BOOLEAN
        BY <3>1
      <3>3. full' <=> o \in Landscape
        BY <3>1, Zenon
      <3>. QED
        BY <3>2, <3>3
    <2>3. /\ statusHidden' \in BOOLEAN
          /\ statusHidden' <=> o \in Landscape
      <3>1. statusHidden' = (o \in Landscape)
        BY <2>1
      <3>2. statusHidden' \in BOOLEAN
        BY <3>1
      <3>3. statusHidden' <=> o \in Landscape
        BY <3>1, Zenon
      <3>. QED
        BY <3>2, <3>3
    <2>4. /\ parent' \in {"super", "window"}
          /\ parent' = "window" <=> o \in Landscape
      BY <2>1
    <2>. QED
      BY <2>1, <2>2, <2>3, <2>4
  <1>. QED
    BY <1>1, <1>2

LEMMA InitIInv == Init => IInv
  <1>. SUFFICES ASSUME Init PROVE IInv
    OBVIOUS
  <1>1. TypeOK
    <2>1. device \in Orientations /\ orientation \in Orientations
      BY DEF Init
    <2>2. notes \in 0 .. MaxNotes
      BY NotesAssumption DEF Init
    <2>3. parent \in {"super", "window", "none"} /\ changed \in {"init", "device", "button"}
      BY DEF Init
    <2>4. /\ full \in BOOLEAN /\ statusHidden \in BOOLEAN
          /\ item \in BOOLEAN /\ listening \in BOOLEAN
      BY DEF Init
    <2>. QED
      BY <2>1, <2>2, <2>3, <2>4 DEF TypeOK
  <1>2. ListeningInv /\ FullInv
    BY DEF Init, ListeningInv, FullInv
  <1>3. StatusBarAgrees
    BY DEF Init, StatusBarAgrees
  <1>4. changed = "init"
    BY DEF Init
  <1>5. FollowsDevice
    BY <1>4 DEF FollowsDevice
  <1>. QED
    BY <1>1, <1>2, <1>3, <1>5 DEF IInv

LEMMA StepIInv ==
  ASSUME IInv, [Next]_vars
  PROVE  IInv'
  <1>. USE NotesAssumption
  <1>0. TypeOK /\ ListeningInv /\ FullInv /\ StatusBarAgrees /\ FollowsDevice
    BY DEF IInv
  <1>1. CASE Rotate
    BY <1>0, <1>1 DEF Rotate, screen, IInv, TypeOK, ListeningInv, FullInv, StatusBarAgrees,
                      FollowsDevice
  <1>2. CASE OrientationDidChange
    <2>1. /\ notes > 0 /\ notes' = notes - 1 /\ listening
          /\ parent # "none"
          /\ UNCHANGED <<device, item, listening>>
      BY <1>0, <1>2 DEF OrientationDidChange, ListeningInv, TypeOK
    <2>2. CASE device = "unknown"
      <3>1. UNCHANGED screen
        BY <1>2, <2>2 DEF OrientationDidChange
      <3>. QED
        BY <1>0, <2>1, <2>2, <3>1 DEF screen, IInv, TypeOK, ListeningInv, FullInv,
                                      StatusBarAgrees, FollowsDevice
    <2>3. CASE device # "unknown"
      <3>1. ChangeTo(Mirrored(device), "device")
        BY <1>2, <2>3 DEF OrientationDidChange
      <3>2. Mirrored(device) \in Orientations
        BY <1>0, TargetFacts DEF TypeOK
      <3>3. /\ orientation' = Mirrored(device)
            /\ parent' \in {"super", "window"}
            /\ full' \in BOOLEAN /\ statusHidden' \in BOOLEAN
            /\ changed' = changed \/ changed' = "device"
            /\ changed' # "init" => (full' <=> Mirrored(device) \in Landscape)
            /\ full' <=> parent' = "window"
            /\ statusHidden' <=> parent' = "window"
        BY <2>1, <3>1, <3>2, ChangeFacts
      <3>. QED
        BY <1>0, <2>1, <3>2, <3>3 DEF IInv, TypeOK, ListeningInv, FullInv, StatusBarAgrees,
                                      FollowsDevice, Mirrored
    <2>. QED
      BY <2>2, <2>3
  <1>3. CASE ClickChangeScreen
    <2>1. /\ parent # "none"
          /\ ChangeTo(ButtonTarget, "button")
          /\ UNCHANGED <<device, notes, item, listening>>
      BY <1>3 DEF ClickChangeScreen
    <2>2. ButtonTarget \in Orientations
      BY TargetFacts
    <2>3. /\ orientation' = ButtonTarget
          /\ parent' \in {"super", "window"}
          /\ full' \in BOOLEAN /\ statusHidden' \in BOOLEAN
          /\ changed' = changed \/ changed' = "button"
          /\ changed' # "init" => (full' <=> ButtonTarget \in Landscape)
          /\ full' <=> parent' = "window"
          /\ statusHidden' <=> parent' = "window"
      BY <2>1, <2>2, ChangeFacts
    <2>4. changed' = "device" => orientation' = orientation
      BY <2>1, <2>3, <1>0 DEF ChangeTo, screen
    <2>5. TypeOK'
      BY <1>0, <2>1, <2>2, <2>3 DEF TypeOK
    <2>6. ListeningInv'
      BY <1>0, <2>1, <2>3 DEF ListeningInv
    <2>7. FullInv' /\ StatusBarAgrees'
      BY <2>3 DEF FullInv, StatusBarAgrees
    <2>8. FollowsDevice'
      <3>1. CASE changed' = "device"
        <4>1. orientation' = orientation /\ changed = "device"
          BY <2>3, <2>4, <3>1
        <4>. QED
          BY <1>0, <2>1, <4>1 DEF FollowsDevice, Mirrored
      <3>. QED
        BY <3>1 DEF FollowsDevice
    <2>. QED
      BY <2>5, <2>6, <2>7, <2>8 DEF IInv
  <1>4. CASE Play
    BY <1>0, <1>4 DEF Play, screen, IInv, TypeOK, ListeningInv, FullInv, StatusBarAgrees,
                      FollowsDevice
  <1>5. CASE Destroy
    <2>1. /\ ~item' /\ ~listening' /\ notes' = 0 /\ parent' = "none" /\ ~statusHidden'
          /\ UNCHANGED <<device, orientation, full, changed>>
      BY <1>5 DEF Destroy
    <2>2. item' \in BOOLEAN /\ listening' \in BOOLEAN /\ statusHidden' \in BOOLEAN
      BY <1>5 DEF Destroy
    <2>3. TypeOK'
      BY <1>0, <2>1, <2>2 DEF TypeOK
    <2>4. ListeningInv' /\ FullInv' /\ StatusBarAgrees'
      BY <1>0, <2>1 DEF ListeningInv, FullInv, StatusBarAgrees
    <2>5. FollowsDevice'
      BY <2>1 DEF FollowsDevice
    <2>. QED
      BY <2>3, <2>4, <2>5 DEF IInv
  <1>6. CASE UNCHANGED vars
    BY <1>0, <1>6 DEF vars, IInv, TypeOK, ListeningInv, FullInv, StatusBarAgrees,
                      FollowsDevice, Mirrored
  <1>. QED
    BY <1>1, <1>2, <1>3, <1>4, <1>5, <1>6 DEF Next

\* The invariant of the full screen mode (orientationDidChange,
\* changeToOrientation, destroyPlayer).
THEOREM Invariance == Spec => []IInv
  <1>1. Init => IInv
    BY InitIInv
  <1>2. IInv /\ [Next]_vars => IInv'
    BY StepIInv
  <1>. QED
    BY <1>1, <1>2, PTL DEF Spec

\* View, flag and status bar agree in every order of turns, touches and
\* destroyPlayer.
THEOREM ScreenAgrees == Spec => []StatusBarAgrees
  BY Invariance, PTL DEF IInv

\* The picture follows the device, however late its notifications are.
THEOREM DeviceFollowed == Spec => []FollowsDevice
  BY Invariance, PTL DEF IInv

\* Once the orientation has changed, the full screen button is never dead.
THEOREM ButtonAlive == Spec => []ButtonToggles
  <1>1. IInv => ButtonToggles
    BY DEF IInv, FullInv, ButtonToggles, ButtonTarget, Landscape
  <1>. QED
    BY <1>1, Invariance, PTL
=============================================================================
