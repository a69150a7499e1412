----------------------------- MODULE VideoPlayer -----------------------------
(***************************************************************************)
(* SRVideoPlayer: one player, its AVPlayer, the controls over the picture  *)
(* and the notifications it listens to.  Every method, delegate call,      *)
(* timer and callback runs on the main thread, so each is one step; what   *)
(* interleaves is the order of the steps: seeks complete later, timers     *)
(* fire later, the system interrupts, the user touches whatever is there.  *)
(*                                                                         *)
(* Where the video comes from (a file, the network, the cache) does not    *)
(* change these steps: play ends in setupPlayer in each case.  Full screen *)
(* is the subject of VideoScreen.  Labels, images and the spinner are not  *)
(* modelled, nor the volume and brightness gestures.                       *)
(***************************************************************************)
EXTENDS Integers

CONSTANTS EndActions, \* values of playerEndAction an app may choose
          MaxPlays,   \* bound on the calls of play
          MaxSeeks,   \* bound on the seeks under way
          MaxTimers   \* bound on the timers of the slider

ASSUME PlayerAssumption ==
    /\ EndActions \subseteq {"stop", "loop", "destroy"}
    /\ MaxPlays \in Nat /\ MaxSeeks \in Nat /\ MaxTimers \in Nat

VARIABLES endAction,    \* _playerEndAction
          apiCalls,     \* does the app itself call pause and resume?
          plays,        \* calls of play so far
          item,         \* _playerItem and its status; "none" for nil
          rate,         \* 1: the AVPlayer the layer shows has been told to play
          state,        \* _playerState (nothing ever sets Stopped)
          manualPaused, \* _isManualPaused
          seeks,        \* seeks whose completion handler has yet to run
          ended,        \* the item has played to its end, the notification is on its way
          touches,      \* userInteractionEnabled of bottomBar and of touchView
          bars, replay, \* are topBar and bottomBar, is replayBtn visible?
          hideTimer,    \* a delayed hideTopBottomBar is pending
          finger,       \* the user holds the thumb of the slider
          dragging,     \* _isDragingSlider
          dragTimers,   \* delayed blocks that clear it
          panning,      \* a pan over the picture is under way
          active,       \* the app is the active one
          onScreen      \* _playerView has a superview

playback == <<item, rate, state, manualPaused, seeks, ended>>
controls == <<touches, bars, replay, hideTimer>>
slider == <<finger, dragging, dragTimers, panning>>
app == <<endAction, apiCalls>>
around == <<app, plays, active, onScreen>>
vars == <<playback, controls, slider, around>>

\* Mutant: the controls can be touched before the video is ready.
InitTouchable ==
    /\ endAction \in EndActions
    /\ apiCalls \in BOOLEAN
    /\ plays = 0
    /\ item = "none"
    /\ rate = 0
    /\ state = "buffering"
    /\ manualPaused = FALSE
    /\ seeks = 0
    /\ ended = FALSE
    /\ touches = TRUE
    /\ bars = TRUE
    /\ replay = FALSE
    /\ hideTimer = FALSE
    /\ finger = FALSE
    /\ dragging = FALSE
    /\ dragTimers = 0
    /\ panning = FALSE
    /\ active = TRUE
    /\ onScreen = TRUE

Init ==
    /\ endAction \in EndActions
    /\ apiCalls \in BOOLEAN
    /\ plays = 0
    /\ item = "none"
    /\ rate = 0
    /\ state = "buffering"
    /\ manualPaused = FALSE
    /\ seeks = 0
    /\ ended = FALSE
    /\ touches = FALSE
    /\ bars = TRUE
    /\ replay = FALSE
    /\ hideTimer = FALSE
    /\ finger = FALSE
    /\ dragging = FALSE
    /\ dragTimers = 0
    /\ panning = FALSE
    /\ active = TRUE
    /\ onScreen = TRUE

-----------------------------------------------------------------------------
(* Parts of several handlers.                                              *)

HasItem == item # "none"
Sees == onScreen /\ active
CanTouchBars == Sees /\ bars /\ touches

\* seekToTimeWithSeconds: pause, and play again when the position is reached.
Seek ==
    IF HasItem
    THEN seeks < MaxSeeks /\ rate' = 0 /\ seeks' = seeks + 1
    ELSE UNCHANGED <<rate, seeks>>

\* timingHideBottomBarTime: one delayed hide, counted from now.
TimeHide == hideTimer' = TRUE

\* showTopBottomBar and hideTopBottomBar do nothing unless a video is playing.
ShowBars ==
    IF state = "playing" THEN bars' = TRUE /\ TimeHide ELSE UNCHANGED <<bars, hideTimer>>
HideBars == bars' = IF state = "playing" THEN FALSE ELSE bars

\* destroyPlayer, called in state s: only a player that is Playing is paused.
\* The layer keeps the AVPlayer that the property lets go of.
DestroyIn(s) ==
    /\ item' = "none"
    /\ rate' = IF s = "playing" THEN 0 ELSE rate
    /\ ended' = FALSE
    /\ onScreen' = FALSE

Replay == Seek /\ bars' = TRUE /\ replay' = FALSE /\ TimeHide

-----------------------------------------------------------------------------
(* The app's calls.                                                        *)

\* play, after which there is an item that loads.  An app that plays again
\* first destroys what it played.
Play ==
    /\ ~HasItem
    /\ plays < MaxPlays
    /\ plays' = plays + 1
    /\ item' = "loading"
    /\ rate' = 0
    /\ UNCHANGED <<state, manualPaused, seeks, ended, controls, slider,
                   app, active, onScreen>>

PauseEffect == rate' = 0 /\ state' = "paused" /\ manualPaused' = TRUE
ResumeEffect == rate' = 1 /\ state' = "playing" /\ manualPaused' = FALSE

Pause ==
    /\ apiCalls
    /\ HasItem
    /\ PauseEffect
    /\ UNCHANGED <<item, seeks, ended, controls, slider, around>>

Resume ==
    /\ apiCalls
    /\ HasItem
    /\ ResumeEffect
    /\ UNCHANGED <<item, seeks, ended, controls, slider, around>>

\* The view controller goes away, or the close button is touched.
Destroy ==
    /\ HasItem
    /\ DestroyIn(state)
    /\ UNCHANGED <<state, manualPaused, seeks, controls, slider, app, plays, active>>

-----------------------------------------------------------------------------
(* The item, the AVPlayer and the system.                                  *)

\* Status ReadyToPlay: starts playing, whatever was asked for meanwhile.
StatusReady ==
    /\ item = "loading"
    /\ item' = "ready"
    /\ rate' = 1
    /\ state' = "playing"
    /\ touches' = TRUE
    /\ UNCHANGED <<manualPaused, seeks, ended, bars, replay, hideTimer, slider, around>>

\* Status Failed, while loading or later.
StatusFailed ==
    /\ HasItem
    /\ state' = "failed"
    /\ DestroyIn("failed")
    /\ UNCHANGED <<manualPaused, seeks, controls, slider, app, plays, active>>

\* The periodic observer: every second of playback and whenever playback
\* starts, stops or jumps.  It moves the slider unless the slider is dragged.
Tick ==
    /\ item = "ready"
    /\ ~dragging
    /\ state' = IF manualPaused THEN state ELSE "playing"
    /\ UNCHANGED <<item, rate, manualPaused, seeks, ended, controls, slider, around>>

\* The AVPlayer stops at the end of the item and posts a notification, ...
ReachEnd ==
    /\ item = "ready"
    /\ rate = 1
    /\ rate' = 0
    /\ ended' = TRUE
    /\ UNCHANGED <<item, state, manualPaused, seeks, controls, slider, around>>

\* ... which arrives: playerItemDidPlayToEnd.
PlayToEndStop ==
    /\ ended /\ endAction = "stop"
    /\ state' = "finished"
    /\ ended' = FALSE
    /\ bars' = FALSE
    /\ replay' = TRUE
    /\ UNCHANGED <<item, rate, manualPaused, seeks, touches, hideTimer, slider, around>>
PlayToEndLoop ==
    /\ ended /\ endAction = "loop"
    /\ state' = "finished"
    /\ ended' = FALSE
    /\ Replay
    /\ UNCHANGED <<item, manualPaused, touches, slider, around>>
PlayToEndDestroy ==
    /\ ended /\ endAction = "destroy"
    /\ state' = "finished"
    /\ DestroyIn("finished")
    /\ UNCHANGED <<manualPaused, seeks, controls, slider, app, plays, active>>

\* Mutant: the handler plays the player of the seek, destroyed or not.
SeekDonePlaysOld ==
    /\ seeks > 0
    /\ seeks' = seeks - 1
    /\ manualPaused' = FALSE
    /\ rate' = 1
    /\ state' = "playing"
    /\ UNCHANGED <<item, ended, controls, slider, around>>

\* The completion handler of a seek, finished or cancelled by a later one: it
\* plays, whatever has happened since, and buffers if the item (or nil) is not
\* likely to keep up.
SeekDone ==
    /\ seeks > 0
    /\ seeks' = seeks - 1
    /\ manualPaused' = FALSE
    /\ rate' = IF HasItem THEN 1 ELSE rate
    /\ state' \in IF HasItem THEN {"playing", "buffering"} ELSE {"buffering"}
    /\ UNCHANGED <<item, ended, controls, slider, around>>

ResignActive ==
    /\ active
    /\ active' = FALSE
    /\ IF HasItem THEN rate' = 0 /\ state' = "paused" ELSE UNCHANGED <<rate, state>>
    /\ UNCHANGED <<item, manualPaused, seeks, ended, controls, slider, app, plays, onScreen>>

\* Mutant: the app plays on, manually paused or not.
BecomeActivePlays ==
    /\ ~active
    /\ active' = TRUE
    /\ IF HasItem THEN rate' = 1 /\ state' = "playing" ELSE UNCHANGED <<rate, state>>
    /\ UNCHANGED <<item, manualPaused, seeks, ended, controls, slider, app, plays, onScreen>>

BecomeActive ==
    /\ ~active
    /\ active' = TRUE
    /\ IF HasItem /\ ~manualPaused THEN rate' = 1 /\ state' = "playing"
                                   ELSE UNCHANGED <<rate, state>>
    /\ UNCHANGED <<item, manualPaused, seeks, ended, controls, slider, app, plays, onScreen>>

-----------------------------------------------------------------------------
(* The user.                                                               *)

\* Play/pause button; in the other states it only puts off the hiding.
ClickPause ==
    /\ CanTouchBars /\ HasItem /\ state = "playing"
    /\ PauseEffect
    /\ TimeHide
    /\ UNCHANGED <<item, seeks, ended, touches, bars, replay, slider, around>>
ClickResume ==
    /\ CanTouchBars /\ HasItem /\ state = "paused"
    /\ ResumeEffect
    /\ TimeHide
    /\ UNCHANGED <<item, seeks, ended, touches, bars, replay, slider, around>>

ClickWaiting ==
    /\ CanTouchBars /\ HasItem /\ state \notin {"playing", "paused"}
    /\ TimeHide
    /\ UNCHANGED <<playback, touches, bars, replay, slider, around>>

\* Full screen button; what it does to the view is in VideoScreen.
ClickChangeScreen ==
    /\ CanTouchBars
    /\ TimeHide
    /\ UNCHANGED <<playback, touches, bars, replay, slider, around>>

ClickReplay ==
    /\ Sees /\ replay
    /\ Replay
    /\ UNCHANGED <<item, state, manualPaused, ended, touches, slider, around>>

\* A tap on the slider's track.
TapSlider ==
    /\ CanTouchBars
    /\ Seek
    /\ TimeHide
    /\ UNCHANGED <<item, state, manualPaused, ended, touches, bars, replay, slider, around>>

\* A finger comes down on the thumb: nobody is told.
HoldThumb ==
    /\ CanTouchBars /\ ~finger
    /\ finger' = TRUE
    /\ UNCHANGED <<playback, controls, dragging, dragTimers, panning, around>>

\* The thumb is moved; once held, whatever becomes of the bars and of the view:
\* a touch stays with what it began on.
DragSlider ==
    /\ finger
    /\ dragging' = TRUE
    /\ TimeHide
    /\ UNCHANGED <<playback, touches, bars, replay, finger, dragTimers, panning, around>>

\* Mutant: no block is scheduled that clears the flag of the drag.
EndDragForgets ==
    /\ finger
    /\ finger' = FALSE
    /\ Seek
    /\ TimeHide
    /\ UNCHANGED <<item, state, manualPaused, ended, touches, bars, replay, dragging,
                   dragTimers, panning, around>>

\* The thumb is let go of (or the touch cancelled), moved or not: the flag is
\* cleared later.
EndDrag ==
    /\ finger
    /\ finger' = FALSE
    /\ dragTimers < MaxTimers
    /\ dragTimers' = dragTimers + 1
    /\ Seek
    /\ TimeHide
    /\ UNCHANGED <<item, state, manualPaused, ended, touches, bars, replay, dragging,
                   panning, around>>

\* The delayed block of a drag that has ended.
DragTimer ==
    /\ dragTimers > 0
    /\ dragTimers' = dragTimers - 1
    /\ dragging' = FALSE
    /\ UNCHANGED <<playback, controls, finger, panning, around>>

\* Mutant: a tap hides the bars in every state.
TapHidesAlways ==
    /\ Sees /\ touches
    /\ bars' = ~bars
    /\ UNCHANGED <<playback, touches, replay, hideTimer, slider, around>>

\* A tap on the picture toggles the bars.
TapPicture ==
    /\ Sees /\ touches
    /\ IF bars THEN HideBars /\ UNCHANGED hideTimer ELSE ShowBars
    /\ UNCHANGED <<playback, touches, replay, slider, around>>

\* A pan begins, goes on, or ends without a seek (it was vertical, or short).
\* The system cancels one that is under way when the app is no longer active.
PanPicture ==
    /\ (Sees /\ touches) \/ panning
    /\ panning' \in BOOLEAN
    /\ ShowBars
    /\ UNCHANGED <<playback, touches, replay, finger, dragging, dragTimers, around>>

\* The end of a horizontal pan, or its being cancelled.
PanSeek ==
    /\ panning
    /\ panning' = FALSE
    /\ Seek
    /\ ShowBars
    /\ UNCHANGED <<item, state, manualPaused, ended, touches, replay, finger, dragging,
                   dragTimers, around>>

\* The delayed hideTopBottomBar.
HideTimer ==
    /\ hideTimer
    /\ hideTimer' = FALSE
    /\ HideBars
    /\ UNCHANGED <<playback, touches, replay, slider, around>>

App == Play \/ Pause \/ Resume \/ Destroy
Media == StatusReady \/ StatusFailed \/ Tick \/ ReachEnd \/ SeekDone
PlayToEnd == PlayToEndStop \/ PlayToEndLoop \/ PlayToEndDestroy
System == ResignActive \/ BecomeActive \/ DragTimer \/ HideTimer
Buttons == ClickPause \/ ClickResume \/ ClickWaiting \/ ClickChangeScreen \/ ClickReplay
Thumb == HoldThumb \/ DragSlider \/ EndDrag
Gestures == TapSlider \/ Thumb \/ TapPicture \/ PanPicture \/ PanSeek

Next == App \/ Media \/ PlayToEnd \/ System \/ Buttons \/ Gestures

Spec == Init /\ [][Next]_vars

-----------------------------------------------------------------------------
TypeOK ==
    /\ endAction \in {"stop", "loop", "destroy"}
    /\ plays \in 0 .. MaxPlays
    /\ item \in {"none", "loading", "ready"}
    /\ rate \in {0, 1}
    /\ state \in {"buffering", "playing", "paused", "finished", "failed"}
    /\ seeks \in 0 .. MaxSeeks
    /\ dragTimers \in 0 .. MaxTimers
    /\ apiCalls \in BOOLEAN /\ active \in BOOLEAN /\ onScreen \in BOOLEAN
    /\ manualPaused \in BOOLEAN /\ ended \in BOOLEAN
    /\ touches \in BOOLEAN /\ bars \in BOOLEAN /\ replay \in BOOLEAN /\ hideTimer \in BOOLEAN
    /\ finger \in BOOLEAN /\ dragging \in BOOLEAN /\ panning \in BOOLEAN

\* A paused video can be played on: the play button is on the bars, which
\* nothing shows again while it is paused (lines 839-856), so whatever paused it
\* and whatever timer or notification came since, the bars are there, or the
\* replay button is.  (An app that pauses can pause while the bars are hidden.)
ControlInReach ==
    ~apiCalls /\ Sees /\ item = "ready" /\ state = "paused" => bars \/ replay

\* A pause the user has made holds: no notification, tick or timer, no trip to
\* the background and back makes the player play (lines 340 and 417) before the
\* button, or the completion of a seek, takes the pause back.  (An app's pause is
\* lost if the item still loads.)
PauseHolds == ~apiCalls /\ onScreen /\ manualPaused => rate = 0

\* "Prevents the crash that caused by dragging before the video has not load
\* successfully" (line 324): no seek is begun on an item that is not ready, but
\* by a touch that was there before.  Nothing forgets the thumb, or the pan, held
\* when its player is destroyed: let go of while the next item loads, it seeks.
HeldThrough == (finger \/ panning) /\ ~onScreen
SeekNeedsReady == [][seeks' > seeks => item = "ready" \/ HeldThrough]_vars

\* What has been destroyed is not started again by a callback that comes late.
DestroyedStaysQuiet == [][~HasItem /\ ~HasItem' => rate' <= rate]_vars

\* The slider follows playback again after every drag: while the flag is set and
\* no finger holds the thumb, a block that clears it is under way.
SliderThaws == dragging /\ ~finger => dragTimers > 0

\* "The delay is to prevent the sliding point from jumping" (line 765): playback
\* does not move the thumb the user holds.  It does when a second drag begins
\* before the block of the first has run, so no configuration asks for this.
SliderHeld == [][Tick => ~finger]_vars
-----------------------------------------------------------------------------
(* The inductive invariant.                                                *)

\* What can begin a seek on screen is there only while the item is ready, and a
\* touch is held only where touches were taken once.
ReadyInv ==
    /\ onScreen /\ (touches \/ replay) => item = "ready"
    /\ ended => item = "ready"
    /\ finger \/ panning => touches

\* A pause is the user's, or the system's while the app is not active; and the
\* user pauses with a button on the bars, which stay unless replay takes over.
PauseInv ==
    ~apiCalls /\ onScreen =>
       /\ manualPaused => /\ item = "ready" /\ rate = 0
                          /\ state \in {"paused", "finished"}
                          /\ bars \/ replay
       /\ state = "paused" => HasItem /\ (manualPaused \/ ~active)

IInv == TypeOK /\ ReadyInv /\ PauseInv /\ SliderThaws
=============================================================================
