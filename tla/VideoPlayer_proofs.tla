-------------------------- MODULE VideoPlayer_proofs --------------------------
(* Proofs about VideoPlayer, for any end actions an app chooses from and any  *)
(* bounds.  The invariant is proved conjunct by conjunct, each with one step   *)
(* per action; what the helpers of several handlers leave of the types comes   *)
(* first.                                                                      *)
EXTENDS VideoPlayer, TLAPS

\* A seek stops the player, and is one more that is under way.
LEMMA SeekType ==
  ASSUME TypeOK, Seek
  PROVE  rate' \in {0, 1} /\ seeks' \in 0 .. MaxSeeks
  <1>. USE PlayerAssumption
  <1>1. CASE HasItem
    BY <1>1 DEF Seek, TypeOK
  <1>2. CASE ~HasItem
    BY <1>2 DEF Seek, TypeOK
  <1>. QED
    BY <1>1, <1>2

\* The bars are shown or hidden, and stay what they are unless a video plays.
LEMMA BarsType ==
  ASSUME TypeOK
  PROVE  /\ HideBars => bars' \in BOOLEAN
         /\ ShowBars => bars' \in BOOLEAN /\ hideTimer' \in BOOLEAN
  <1>1. ASSUME HideBars PROVE bars' \in BOOLEAN
    BY <1>1 DEF HideBars, TypeOK
  <1>2. ASSUME ShowBars PROVE bars' \in BOOLEAN /\ hideTimer' \in BOOLEAN
    <2>1. CASE state = "playing"
      BY <1>2, <2>1 DEF ShowBars, TimeHide
    <2>2. CASE state # "playing"
      BY <1>2, <2>2 DEF ShowBars, TypeOK
    <2>. QED
      BY <2>1, <2>2
  <1>. QED
    BY <1>1, <1>2

\* What is destroyed leaves the flags alone but for the notification under way.
LEMMA DestroyType ==
  ASSUME TypeOK, NEW s, DestroyIn(s)
  PROVE  /\ item' = "none" /\ rate' \in {0, 1}
         /\ ended' \in BOOLEAN /\ onScreen' \in BOOLEAN
  BY DEF TypeOK, DestroyIn

\* The types, action by action.
LEMMA TypeStep ==
  ASSUME IInv, [Next]_vars
  PROVE  TypeOK'
  <1>. USE PlayerAssumption DEF playback, controls, slider, app, around
  <1>0. TypeOK /\ ReadyInv /\ PauseInv
    BY DEF IInv
  <1>1. CASE Play
    <2>1. plays' \in 0 .. MaxPlays
      BY <1>0, <1>1 DEF Play, TypeOK
    <2>. QED
      BY <1>0, <1>1, <2>1 DEF Play, TypeOK
  <1>2. CASE Pause
    <2>1. /\ rate' = 0 /\ state' = "paused"
          /\ manualPaused' \in BOOLEAN
      BY <1>2 DEF Pause, PauseEffect
    <2>2. UNCHANGED <<item, seeks, ended, controls, slider, around>>
      BY <1>2 DEF Pause
    <2>. QED
      BY <1>0, <2>1, <2>2 DEF TypeOK
  <1>3. CASE Resume
    <2>1. /\ rate' = 1 /\ state' = "playing"
          /\ manualPaused' \in BOOLEAN
      BY <1>3 DEF Resume, ResumeEffect
    <2>2. UNCHANGED <<item, seeks, ended, controls, slider, around>>
      BY <1>3 DEF Resume
    <2>. QED
      BY <1>0, <2>1, <2>2 DEF TypeOK
  <1>4. CASE Destroy
    <2>1. /\ item' = "none" /\ rate' \in {0, 1}
          /\ ended' \in BOOLEAN /\ onScreen' \in BOOLEAN
      BY <1>0, <1>4, DestroyType DEF Destroy
    <2>. QED
      BY <1>0, <1>4, <2>1 DEF Destroy, TypeOK
  <1>5. CASE StatusReady
    BY <1>0, <1>5 DEF StatusReady, TypeOK
  <1>6. CASE StatusFailed
    <2>1. /\ item' = "none" /\ rate' \in {0, 1} /\ state' = "failed"
          /\ ended' \in BOOLEAN /\ onScreen' \in BOOLEAN
      BY <1>0, <1>6, DestroyType DEF StatusFailed
    <2>. QED
      BY <1>0, <1>6, <2>1 DEF StatusFailed, TypeOK
  <1>7. CASE Tick
    BY <1>0, <1>7 DEF Tick, TypeOK
  <1>8. CASE ReachEnd
    BY <1>0, <1>8 DEF ReachEnd, TypeOK
  <1>9. CASE SeekDone
    <2>1. seeks' \in 0 .. MaxSeeks
      BY <1>0, <1>9 DEF SeekDone, TypeOK
    <2>2. /\ manualPaused' \in BOOLEAN
          /\ UNCHANGED <<item, ended, controls, slider, around>>
      BY <1>9 DEF SeekDone
    <2>3. rate' \in {0, 1}
      BY <1>0, <1>9 DEF SeekDone, TypeOK
    <2>4. state' \in {"playing", "buffering"}
      BY <1>9 DEF SeekDone
    <2>. QED
      BY <1>0, <2>1, <2>2, <2>3, <2>4 DEF TypeOK
  <1>10. CASE PlayToEndStop
    <2>1. /\ state' = "finished" /\ ended' \in BOOLEAN
          /\ bars' \in BOOLEAN /\ replay' \in BOOLEAN
      BY <1>10 DEF PlayToEndStop
    <2>2. UNCHANGED <<item, rate, manualPaused, seeks, touches, hideTimer, slider, around>>
      BY <1>10 DEF PlayToEndStop
    <2>. QED
      BY <1>0, <2>1, <2>2 DEF TypeOK
  <1>11. CASE PlayToEndLoop
    <2>1. rate' \in {0, 1} /\ seeks' \in 0 .. MaxSeeks
      BY <1>0, <1>11, SeekType DEF PlayToEndLoop, Replay
    <2>. QED
      BY <1>0, <1>11, <2>1 DEF PlayToEndLoop, Replay, TimeHide, TypeOK
  <1>12. CASE PlayToEndDestroy
    <2>1. /\ item' = "none" /\ rate' \in {0, 1} /\ state' = "finished"
          /\ ended' \in BOOLEAN /\ onScreen' \in BOOLEAN
      BY <1>0, <1>12, DestroyType DEF PlayToEndDestroy
    <2>. QED
      BY <1>0, <1>12, <2>1 DEF PlayToEndDestroy, TypeOK
  <1>13. CASE ResignActive
    <2>1. rate' \in {0, 1} /\ state' \in {state, "paused"}
      BY <1>0, <1>13 DEF ResignActive, TypeOK
    <2>2. active' \in BOOLEAN
      BY <1>13 DEF ResignActive
    <2>3. UNCHANGED <<item, manualPaused, seeks, ended, controls, slider, app, plays,
                      onScreen>>
      BY <1>13 DEF ResignActive
    <2>. QED
      BY <1>0, <2>1, <2>2, <2>3 DEF TypeOK
  <1>14. CASE BecomeActive
    BY <1>0, <1>14 DEF BecomeActive, HasItem, TypeOK
  <1>15. CASE DragTimer
    <2>1. dragTimers' \in 0 .. MaxTimers
      BY <1>0, <1>15 DEF DragTimer, TypeOK
    <2>2. dragging' \in BOOLEAN
      BY <1>15 DEF DragTimer
    <2>. QED
      BY <1>0, <1>15, <2>1, <2>2 DEF DragTimer, TypeOK
  <1>16. CASE HideTimer
    <2>1. bars' \in BOOLEAN /\ hideTimer' \in BOOLEAN
      BY <1>0, <1>16, BarsType DEF HideTimer
    <2>. QED
      BY <1>0, <1>16, <2>1 DEF HideTimer, TypeOK
  <1>17. CASE ClickPause
    <2>1. /\ rate' = 0 /\ state' = "paused"
          /\ manualPaused' \in BOOLEAN /\ hideTimer' \in BOOLEAN
      BY <1>17 DEF ClickPause, PauseEffect, TimeHide
    <2>2. UNCHANGED <<item, seeks, ended, touches, bars, replay, slider, around>>
      BY <1>17 DEF ClickPause
    <2>. QED
      BY <1>0, <2>1, <2>2 DEF TypeOK
  <1>18. CASE ClickResume
    <2>1. /\ rate' = 1 /\ state' = "playing"
          /\ manualPaused' \in BOOLEAN /\ hideTimer' \in BOOLEAN
      BY <1>18 DEF ClickResume, ResumeEffect, TimeHide
    <2>2. UNCHANGED <<item, seeks, ended, touches, bars, replay, slider, around>>
      BY <1>18 DEF ClickResume
    <2>. QED
      BY <1>0, <2>1, <2>2 DEF TypeOK
  <1>19. CASE ClickWaiting
    BY <1>0, <1>19 DEF ClickWaiting, TimeHide, TypeOK
  <1>20. CASE ClickChangeScreen
    BY <1>0, <1>20 DEF ClickChangeScreen, TimeHide, TypeOK
  <1>21. CASE ClickReplay
    <2>1. rate' \in {0, 1} /\ seeks' \in 0 .. MaxSeeks
      BY <1>0, <1>21, SeekType DEF ClickReplay, Replay
    <2>2. bars' \in BOOLEAN /\ replay' \in BOOLEAN /\ hideTimer' \in BOOLEAN
      BY <1>21 DEF ClickReplay, Replay, TimeHide
    <2>3. UNCHANGED <<item, state, manualPaused, ended, touches, slider, around>>
      BY <1>21 DEF ClickReplay
    <2>. QED
      BY <1>0, <2>1, <2>2, <2>3 DEF TypeOK
  <1>22. CASE TapSlider
    <2>1. rate' \in {0, 1} /\ seeks' \in 0 .. MaxSeeks
      BY <1>0, <1>22, SeekType DEF TapSlider
    <2>. QED
      BY <1>0, <1>22, <2>1 DEF TapSlider, TimeHide, TypeOK
  <1>23. CASE DragSlider
    BY <1>0, <1>23 DEF DragSlider, TimeHide, TypeOK
  <1>24. CASE EndDrag
    <2>1. rate' \in {0, 1} /\ seeks' \in 0 .. MaxSeeks
      BY <1>0, <1>24, SeekType DEF EndDrag
    <2>2. dragTimers' \in 0 .. MaxTimers
      BY <1>0, <1>24 DEF EndDrag, TypeOK
    <2>3. finger' \in BOOLEAN
      BY <1>24 DEF EndDrag
    <2>. QED
      BY <1>0, <1>24, <2>1, <2>2, <2>3 DEF EndDrag, TimeHide, TypeOK
  <1>25. CASE TapPicture
    <2>1. bars' \in BOOLEAN /\ hideTimer' \in BOOLEAN
      <3>1. CASE bars
        <4>1. HideBars /\ UNCHANGED hideTimer
          BY <1>25, <3>1 DEF TapPicture
        <4>. QED
          BY <1>0, <4>1, BarsType DEF TypeOK
      <3>2. CASE ~bars
        BY <1>0, <1>25, <3>2, BarsType DEF TapPicture
      <3>. QED
        BY <3>1, <3>2
    <2>. QED
      BY <1>0, <1>25, <2>1 DEF TapPicture, TypeOK
  <1>26. CASE PanPicture
    <2>1. bars' \in BOOLEAN /\ hideTimer' \in BOOLEAN /\ panning' \in BOOLEAN
      BY <1>0, <1>26, BarsType DEF PanPicture
    <2>. QED
      BY <1>0, <1>26, <2>1 DEF PanPicture, TypeOK
  <1>27. CASE PanSeek
    <2>1. rate' \in {0, 1} /\ seeks' \in 0 .. MaxSeeks
      BY <1>0, <1>27, SeekType DEF PanSeek
    <2>2. bars' \in BOOLEAN /\ hideTimer' \in BOOLEAN /\ panning' \in BOOLEAN
      BY <1>0, <1>27, BarsType DEF PanSeek
    <2>. QED
      BY <1>0, <1>27, <2>1, <2>2 DEF PanSeek, TypeOK
  <1>28. CASE HoldThumb
    BY <1>0, <1>28 DEF HoldThumb, TypeOK
  <1>29. CASE UNCHANGED vars
    BY <1>0, <1>29 DEF vars, TypeOK
  <1>. QED
    BY <1>1, <1>2, <1>3, <1>4, <1>5, <1>6, <1>7, <1>8, <1>9, <1>10, <1>11, <1>12,
       <1>13, <1>14, <1>15, <1>16, <1>17, <1>18, <1>19, <1>20, <1>21, <1>22, <1>23,
       <1>24, <1>25, <1>26, <1>27, <1>28, <1>29 DEF Next, App, Media, PlayToEnd, System,
       Buttons, Gestures, Thumb

\* The controls on screen can begin a seek only when the item is ready.
LEMMA ReadyStep ==
  ASSUME IInv, [Next]_vars
  PROVE  ReadyInv'
  <1>. USE DEF playback, controls, slider, app, around,
           HasItem, Sees, CanTouchBars, Seek, TimeHide, ShowBars, HideBars, DestroyIn, Replay,
           PauseEffect, ResumeEffect
  <1>0. TypeOK /\ ReadyInv /\ PauseInv
    BY DEF IInv
  <1>1. CASE Play
    BY <1>0, <1>1 DEF Play, ReadyInv
  <1>2. CASE Pause
    BY <1>0, <1>2 DEF Pause, ReadyInv
  <1>3. CASE Resume
    BY <1>0, <1>3 DEF Resume, ReadyInv
  <1>4. CASE Destroy
    BY <1>0, <1>4 DEF Destroy, ReadyInv
  <1>5. CASE StatusReady
    BY <1>0, <1>5 DEF StatusReady, ReadyInv
  <1>6. CASE StatusFailed
    BY <1>0, <1>6 DEF StatusFailed, ReadyInv
  <1>7. CASE Tick
    BY <1>0, <1>7 DEF Tick, ReadyInv
  <1>8. CASE ReachEnd
    BY <1>0, <1>8 DEF ReachEnd, ReadyInv
  <1>9. CASE SeekDone
    BY <1>0, <1>9 DEF SeekDone, ReadyInv
  <1>10. CASE PlayToEndStop
    BY <1>0, <1>10 DEF PlayToEndStop, ReadyInv
  <1>11. CASE PlayToEndLoop
    BY <1>0, <1>11 DEF PlayToEndLoop, ReadyInv
  <1>12. CASE PlayToEndDestroy
    BY <1>0, <1>12 DEF PlayToEndDestroy, ReadyInv
  <1>13. CASE ResignActive
    BY <1>0, <1>13 DEF ResignActive, ReadyInv
  <1>14. CASE BecomeActive
    BY <1>0, <1>14 DEF BecomeActive, ReadyInv
  <1>15. CASE DragTimer
    BY <1>0, <1>15 DEF DragTimer, ReadyInv
  <1>16. CASE HideTimer
    BY <1>0, <1>16 DEF HideTimer, ReadyInv
  <1>17. CASE ClickPause
    BY <1>0, <1>17 DEF ClickPause, ReadyInv
  <1>18. CASE ClickResume
    BY <1>0, <1>18 DEF ClickResume, ReadyInv
  <1>19. CASE ClickWaiting
    BY <1>0, <1>19 DEF ClickWaiting, ReadyInv
  <1>20. CASE ClickChangeScreen
    BY <1>0, <1>20 DEF ClickChangeScreen, ReadyInv
  <1>21. CASE ClickReplay
    BY <1>0, <1>21 DEF ClickReplay, ReadyInv
  <1>22. CASE TapSlider
    BY <1>0, <1>22 DEF TapSlider, ReadyInv
  <1>23. CASE DragSlider
    BY <1>0, <1>23 DEF DragSlider, ReadyInv
  <1>24. CASE EndDrag
    BY <1>0, <1>24 DEF EndDrag, ReadyInv
  <1>25. CASE TapPicture
    BY <1>0, <1>25 DEF TapPicture, ReadyInv
  <1>26. CASE PanPicture
    BY <1>0, <1>26 DEF PanPicture, ReadyInv
  <1>27. CASE PanSeek
    BY <1>0, <1>27 DEF PanSeek, ReadyInv
  <1>28. CASE HoldThumb
    BY <1>0, <1>28 DEF HoldThumb, ReadyInv
  <1>29. CASE UNCHANGED vars
    BY <1>0, <1>29 DEF vars, ReadyInv
  <1>. QED
    BY <1>1, <1>2, <1>3, <1>4, <1>5, <1>6, <1>7, <1>8, <1>9, <1>10, <1>11, <1>12,
       <1>13, <1>14, <1>15, <1>16, <1>17, <1>18, <1>19, <1>20, <1>21, <1>22, <1>23,
       <1>24, <1>25, <1>26, <1>27, <1>28, <1>29 DEF Next, App, Media, PlayToEnd, System,
       Buttons, Gestures, Thumb

\* A pause is the user's or the system's, and the bars stay while it lasts.
LEMMA PauseStep ==
  ASSUME IInv, [Next]_vars
  PROVE  PauseInv'
  <1>. USE DEF playback, controls, slider, app, around,
           HasItem, Sees, CanTouchBars, Seek, TimeHide, ShowBars, HideBars, DestroyIn, Replay,
           PauseEffect, ResumeEffect
  <1>0. TypeOK /\ ReadyInv /\ PauseInv
    BY DEF IInv
  <1>1. CASE Play
    BY <1>0, <1>1 DEF Play, PauseInv, ReadyInv, TypeOK
  <1>2. CASE Pause
    BY <1>0, <1>2 DEF Pause, PauseInv, ReadyInv, TypeOK
  <1>3. CASE Resume
    BY <1>0, <1>3 DEF Resume, PauseInv, ReadyInv, TypeOK
  <1>4. CASE Destroy
    BY <1>0, <1>4 DEF Destroy, PauseInv, ReadyInv, TypeOK
  <1>5. CASE StatusReady
    BY <1>0, <1>5 DEF StatusReady, PauseInv, ReadyInv, TypeOK
  <1>6. CASE StatusFailed
    BY <1>0, <1>6 DEF StatusFailed, PauseInv, ReadyInv, TypeOK
  <1>7. CASE Tick
    BY <1>0, <1>7 DEF Tick, PauseInv, ReadyInv, TypeOK
  <1>8. CASE ReachEnd
    BY <1>0, <1>8 DEF ReachEnd, PauseInv, ReadyInv, TypeOK
  <1>9. CASE SeekDone
    BY <1>0, <1>9 DEF SeekDone, PauseInv, ReadyInv, TypeOK
  <1>10. CASE PlayToEndStop
    BY <1>0, <1>10 DEF PlayToEndStop, PauseInv, ReadyInv, TypeOK
  <1>11. CASE PlayToEndLoop
    BY <1>0, <1>11 DEF PlayToEndLoop, PauseInv, ReadyInv, TypeOK
  <1>12. CASE PlayToEndDestroy
    BY <1>0, <1>12 DEF PlayToEndDestroy, PauseInv, ReadyInv, TypeOK
  <1>13. CASE ResignActive
    BY <1>0, <1>13 DEF ResignActive, PauseInv, ReadyInv, TypeOK
  <1>14. CASE BecomeActive
    BY <1>0, <1>14 DEF BecomeActive, PauseInv, ReadyInv, TypeOK
  <1>15. CASE DragTimer
    BY <1>0, <1>15 DEF DragTimer, PauseInv, ReadyInv, TypeOK
  <1>16. CASE HideTimer
    BY <1>0, <1>16 DEF HideTimer, PauseInv, ReadyInv, TypeOK
  <1>17. CASE ClickPause
    BY <1>0, <1>17 DEF ClickPause, PauseInv, ReadyInv, TypeOK
  <1>18. CASE ClickResume
    BY <1>0, <1>18 DEF ClickResume, PauseInv, ReadyInv, TypeOK
  <1>19. CASE ClickWaiting
    BY <1>0, <1>19 DEF ClickWaiting, PauseInv, ReadyInv, TypeOK
  <1>20. CASE ClickChangeScreen
    BY <1>0, <1>20 DEF ClickChangeScreen, PauseInv, ReadyInv, TypeOK
  <1>21. CASE ClickReplay
    BY <1>0, <1>21 DEF ClickReplay, PauseInv, ReadyInv, TypeOK
  <1>22. CASE TapSlider
    BY <1>0, <1>22 DEF TapSlider, PauseInv, ReadyInv, TypeOK
  <1>23. CASE DragSlider
    BY <1>0, <1>23 DEF DragSlider, PauseInv, ReadyInv, TypeOK
  <1>24. CASE EndDrag
    BY <1>0, <1>24 DEF EndDrag, PauseInv, ReadyInv, TypeOK
  <1>25. CASE TapPicture
    BY <1>0, <1>25 DEF TapPicture, PauseInv, ReadyInv, TypeOK
  <1>26. CASE PanPicture
    BY <1>0, <1>26 DEF PanPicture, PauseInv, ReadyInv, TypeOK
  <1>27. CASE PanSeek
    BY <1>0, <1>27 DEF PanSeek, PauseInv, ReadyInv, TypeOK
  <1>28. CASE HoldThumb
    BY <1>0, <1>28 DEF HoldThumb, PauseInv, ReadyInv, TypeOK
  <1>29. CASE UNCHANGED vars
    BY <1>0, <1>29 DEF vars, PauseInv, ReadyInv, TypeOK
  <1>. QED
    BY <1>1, <1>2, <1>3, <1>4, <1>5, <1>6, <1>7, <1>8, <1>9, <1>10, <1>11, <1>12,
       <1>13, <1>14, <1>15, <1>16, <1>17, <1>18, <1>19, <1>20, <1>21, <1>22, <1>23,
       <1>24, <1>25, <1>26, <1>27, <1>28, <1>29 DEF Next, App, Media, PlayToEnd, System,
       Buttons, Gestures, Thumb

\* Of what the invariant says of the slider, only the thumb and the timers of
\* its drags change anything.
LEMMA SliderStep ==
  ASSUME SliderThaws, TypeOK, [Next]_vars
  PROVE  SliderThaws'
  <1>. USE PlayerAssumption
  <1>. DEFINE drag == <<finger, dragging, dragTimers>>
  <1>1. CASE HoldThumb \/ DragSlider
    BY <1>1 DEF HoldThumb, DragSlider, SliderThaws
  <1>2. CASE EndDrag
    BY <1>2 DEF EndDrag, SliderThaws, TypeOK
  <1>3. CASE DragTimer
    BY <1>3 DEF DragTimer, SliderThaws
  <1>4. CASE UNCHANGED drag
    BY <1>4 DEF SliderThaws
  <1>5. App => UNCHANGED drag
    BY DEF App, Play, Pause, Resume, Destroy, slider
  <1>6. Media \/ PlayToEnd => UNCHANGED drag
    BY DEF Media, PlayToEnd, StatusReady, StatusFailed, Tick, ReachEnd, SeekDone,
           PlayToEndStop, PlayToEndLoop, PlayToEndDestroy, slider
  <1>7. System => DragTimer \/ UNCHANGED drag
    BY DEF System, ResignActive, BecomeActive, HideTimer, slider
  <1>8. Buttons => UNCHANGED drag
    BY DEF Buttons, ClickPause, ClickResume, ClickWaiting, ClickChangeScreen,
         ClickReplay, slider
  <1>9. Gestures => Thumb \/ UNCHANGED drag
    BY DEF Gestures, TapSlider, TapPicture, PanPicture, PanSeek, slider
  <1>10. UNCHANGED vars => UNCHANGED drag
    BY DEF vars, slider
  <1>. QED
    BY <1>1, <1>2, <1>3, <1>4, <1>5, <1>6, <1>7, <1>8, <1>9, <1>10 DEF Next, Thumb

LEMMA InitIInv == Init => IInv
  <1>. SUFFICES ASSUME Init PROVE IInv
    OBVIOUS
  <1>1. TypeOK
    <2>1. /\ endAction \in {"stop", "loop", "destroy"}
          /\ item = "none" /\ rate = 0 /\ state = "buffering"
      BY PlayerAssumption DEF Init
    <2>2. plays \in 0 .. MaxPlays /\ seeks \in 0 .. MaxSeeks /\ dragTimers \in 0 .. MaxTimers
      BY PlayerAssumption DEF Init
    <2>3. /\ apiCalls \in BOOLEAN /\ active \in BOOLEAN /\ onScreen \in BOOLEAN
          /\ manualPaused \in BOOLEAN /\ ended \in BOOLEAN
      BY DEF Init
    <2>4. /\ touches \in BOOLEAN /\ bars \in BOOLEAN /\ replay \in BOOLEAN
          /\ hideTimer \in BOOLEAN
          /\ finger \in BOOLEAN /\ dragging \in BOOLEAN /\ panning \in BOOLEAN
      BY DEF Init
    <2>. QED
      BY <2>1, <2>2, <2>3, <2>4 DEF TypeOK
  <1>2. ReadyInv
    BY DEF Init, ReadyInv
  <1>3. PauseInv
    BY DEF Init, PauseInv
  <1>4. SliderThaws
    BY DEF Init, SliderThaws
  <1>. QED
    BY <1>1, <1>2, <1>3, <1>4 DEF IInv

\* The invariant of the player, whatever the user, the app, the system, the
\* seeks and the timers do, in any order.
THEOREM Invariance == Spec => []IInv
  <1>1. Init => IInv
    BY InitIInv
  <1>2. ASSUME IInv, [Next]_vars PROVE IInv'
    BY <1>2, TypeStep, ReadyStep, PauseStep, SliderStep DEF IInv
  <1>. QED
    BY <1>1, <1>2, PTL DEF Spec

\* Counts, states and flags stay in their ranges.
THEOREM TypeCorrect == Spec => []TypeOK
  BY Invariance, PTL DEF IInv

\* A video the user paused can be played on: the bars or the replay button are
\* there (lines 839-856).
THEOREM PlayOnInReach == Spec => []ControlInReach
  <1>1. IInv => ControlInReach
    BY DEF IInv, PauseInv, ControlInReach, Sees
  <1>. QED
    BY <1>1, Invariance, PTL

\* A pause the user made holds until the user or a seek takes it back (lines
\* 340 and 417).
THEOREM PausesHold == Spec => []PauseHolds
  <1>1. IInv => PauseHolds
    BY DEF IInv, PauseInv, PauseHolds
  <1>. QED
    BY <1>1, Invariance, PTL

\* The slider follows playback again after every drag (lines 754-776).
THEOREM Thaws == Spec => []SliderThaws
  BY Invariance, PTL DEF IInv

\* No seek is begun on an item that is not ready (line 324), but by a touch that
\* was held when the player it began on was destroyed.
THEOREM SeeksWait == Spec => SeekNeedsReady
  <1>1. ASSUME IInv, [Next]_vars, seeks' > seeks
        PROVE  item = "ready" \/ HeldThrough
    <2>1. TypeOK /\ ReadyInv
      BY <1>1 DEF IInv
    <2>2. CASE App \/ System \/ UNCHANGED vars
      BY <1>1, <2>1, <2>2 DEF App, Play, Pause, Resume, Destroy, System, ResignActive,
         BecomeActive, DragTimer, HideTimer, vars, playback, TypeOK
    <2>3. CASE Media
      BY <1>1, <2>1, <2>3 DEF Media, StatusReady, StatusFailed, Tick, ReachEnd, SeekDone,
         TypeOK
    <2>4. CASE PlayToEnd
      BY <1>1, <2>1, <2>4 DEF PlayToEnd, PlayToEndStop, PlayToEndLoop, PlayToEndDestroy,
         TypeOK, ReadyInv
    <2>5. CASE Buttons
      BY <1>1, <2>1, <2>5 DEF Buttons, ClickPause, ClickResume, ClickWaiting,
         ClickChangeScreen, ClickReplay, playback, TypeOK, ReadyInv, Sees
    <2>6. CASE TapSlider
      BY <2>1, <2>6 DEF TapSlider, ReadyInv, CanTouchBars, Sees
    <2>7. CASE EndDrag \/ PanSeek
      <3>1. finger \/ panning
        BY <2>7 DEF EndDrag, PanSeek
      <3>2. touches
        BY <2>1, <3>1 DEF ReadyInv
      <3>3. onScreen => item = "ready"
        BY <2>1, <3>2 DEF ReadyInv
      <3>. QED
        BY <2>1, <3>1, <3>3 DEF HeldThrough, TypeOK
    <2>8. CASE HoldThumb \/ DragSlider \/ TapPicture \/ PanPicture
      BY <1>1, <2>1, <2>8 DEF HoldThumb, DragSlider, TapPicture, PanPicture, playback, TypeOK
    <2>. QED
      BY <1>1, <2>2, <2>3, <2>4, <2>5, <2>6, <2>7, <2>8 DEF Next, Gestures, Thumb
  <1>2. IInv /\ [Next]_vars => [seeks' > seeks => item = "ready" \/ HeldThrough]_vars
    BY <1>1
  <1>. QED
    BY <1>2, Invariance, PTL DEF Spec, SeekNeedsReady

\* Nothing that comes after destroyPlayer starts what was destroyed (line 815).
THEOREM StaysQuiet == Spec => DestroyedStaysQuiet
  <1>1. ASSUME IInv, [Next]_vars, ~HasItem, ~HasItem'
        PROVE  rate' <= rate
    <2>1. rate \in {0, 1}
      BY <1>1 DEF IInv, TypeOK
    <2>2. Seek => rate' = rate
      BY <1>1 DEF Seek
    <2>. USE <1>1, <2>1, <2>2 DEF HasItem
    <2>3. CASE App \/ UNCHANGED vars
      BY <2>3 DEF App, Play, Pause, Resume, Destroy, vars, playback
    <2>4. CASE Media
      BY <2>4 DEF Media, StatusReady, StatusFailed, Tick, ReachEnd, SeekDone
    <2>5. CASE PlayToEnd
      BY <2>5 DEF PlayToEnd, PlayToEndStop, PlayToEndLoop, PlayToEndDestroy, Replay, DestroyIn
    <2>6. CASE System
      BY <2>6 DEF System, ResignActive, BecomeActive, DragTimer, HideTimer, playback
    <2>7. CASE Buttons
      BY <2>7 DEF Buttons, ClickPause, ClickResume, ClickWaiting, ClickChangeScreen,
         ClickReplay, Replay, playback
    <2>8. CASE Gestures
      BY <2>8 DEF Gestures, Thumb, TapSlider, HoldThumb, DragSlider, EndDrag, TapPicture,
         PanPicture, PanSeek, playback
    <2>. QED
      BY <2>3, <2>4, <2>5, <2>6, <2>7, <2>8 DEF Next
  <1>2. IInv /\ [Next]_vars => [~HasItem /\ ~HasItem' => rate' <= rate]_vars
    BY <1>1
  <1>. QED
    BY <1>2, Invariance, PTL DEF Spec, DestroyedStaysQuiet
=============================================================================
