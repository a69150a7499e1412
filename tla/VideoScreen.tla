----------------------------- MODULE VideoScreen -----------------------------
(***************************************************************************)
(* The full screen mode of SRVideoPlayer: where the player's view hangs    *)
(* and which way it is turned.  It changes with the device, whose          *)
(* notifications come some time after the fact, and with a button.         *)
(***************************************************************************)
EXTENDS Integers

CONSTANT MaxNotes  \* bound on the notifications on their way

ASSUME NotesAssumption == MaxNotes \in Nat

Orientations == {"unknown", "portrait", "upsideDown", "left", "right"}
Landscape == {"left", "right"}

VARIABLES device,       \* how the device is held; "unknown" includes lying flat
          notes,        \* orientation notifications on their way
          orientation,  \* _currentOrientation, of the interface
          full,         \* _isFullScreen
          parent,       \* the superview of _playerView
          statusHidden, \* is the status bar hidden?
          item,         \* has the player an item?
          listening,    \* is the player registered for the notifications?
          changed       \* history: what changed the orientation last

vars == <<device, notes, orientation, full, parent, statusHidden, item, listening, changed>>
screen == <<orientation, full, parent, statusHidden, changed>>

\* setupOrientation: a device held sideways is taken for an interface that is.
Init ==
    /\ device \in Orientations
    /\ notes = 0
    /\ orientation = device
    /\ full = FALSE
    /\ parent = "super"
    /\ statusHidden = FALSE
    /\ item = FALSE
    /\ listening = TRUE
    /\ changed = "init"

\* Mutant: a landscape view is not put into the key window.
ChangeInPlace(o, who) ==
    IF o = orientation
    THEN UNCHANGED screen
    ELSE /\ orientation' = o
         /\ full' = (o \in Landscape)
         /\ statusHidden' = (o \in Landscape)
         /\ changed' = who
         /\ UNCHANGED parent

\* Mutant: leaving full screen does not reset the flag.
ChangeKeepsFull(o, who) ==
    IF o = orientation
    THEN UNCHANGED screen
    ELSE /\ orientation' = o
         /\ parent' = IF o \in Landscape THEN "window" ELSE "super"
         /\ full' = (full \/ o \in Landscape)
         /\ statusHidden' = (o \in Landscape)
         /\ changed' = who

\* changeToOrientation: nothing, if that is the orientation it has.
ChangeTo(o, who) ==
    IF o = orientation
    THEN UNCHANGED screen
    ELSE /\ orientation' = o
         /\ parent' = IF o \in Landscape THEN "window" ELSE "super"
         /\ full' = (o \in Landscape)
         /\ statusHidden' = (o \in Landscape)
         /\ changed' = who

\* The device is turned, which is notified later.
Rotate ==
    /\ notes < MaxNotes
    /\ device' \in Orientations \ {device}
    /\ notes' = IF listening THEN notes + 1 ELSE 0
    /\ UNCHANGED <<screen, item, listening>>

\* Device and interface turn in opposite senses.
Mirrored(d) == CASE d = "left" -> "right" [] d = "right" -> "left" [] OTHER -> d

\* Mutant: only a device held sideways is followed.
FollowsLandscapeOnly ==
    /\ notes > 0
    /\ notes' = notes - 1
    /\ IF device \notin Landscape THEN UNCHANGED screen ELSE ChangeTo(Mirrored(device), "device")
    /\ UNCHANGED <<device, item, listening>>

\* orientationDidChange: reads how the device is held by now.
OrientationDidChange ==
    /\ notes > 0
    /\ notes' = notes - 1
    /\ IF device = "unknown" THEN UNCHANGED screen ELSE ChangeTo(Mirrored(device), "device")
    /\ UNCHANGED <<device, item, listening>>

ButtonTarget == IF full THEN "portrait" ELSE "right"

\* The button, which can be touched while the view is there and has a video.
ClickChangeScreen ==
    /\ item /\ parent # "none"
    /\ ChangeTo(ButtonTarget, "button")
    /\ UNCHANGED <<device, notes, item, listening>>

\* play, by way of setupPlayer.
Play ==
    /\ ~item
    /\ item' = TRUE
    /\ UNCHANGED <<device, notes, screen, listening>>

\* destroyPlayer: no notification reaches the player any more.
Destroy ==
    /\ item
    /\ item' = FALSE
    /\ listening' = FALSE
    /\ notes' = 0
    /\ parent' = "none"
    /\ statusHidden' = FALSE
    /\ UNCHANGED <<device, orientation, full, changed>>

Next == Rotate \/ OrientationDidChange \/ ClickChangeScreen \/ Play \/ Destroy

Spec == Init /\ [][Next]_vars

-----------------------------------------------------------------------------
TypeOK ==
    /\ device \in Orientations /\ orientation \in Orientations
    /\ notes \in 0 .. MaxNotes
    /\ parent \in {"super", "window", "none"}
    /\ changed \in {"init", "device", "button"}
    /\ full \in BOOLEAN /\ statusHidden \in BOOLEAN
    /\ item \in BOOLEAN /\ listening \in BOOLEAN

\* The view is in the key window exactly while the player says full screen, and
\* the status bar is hidden exactly while a full screen view is on it: not after
\* the player has been destroyed in full screen (lines 495-516, 520-599).
StatusBarAgrees ==
    /\ parent # "none" => (full <=> parent = "window")
    /\ statusHidden <=> parent = "window"

\* When the device changed the orientation last and all its notifications have
\* arrived, the picture stands as the device is held, whatever the button did in
\* between and however many turns one notification stands for.
FollowsDevice ==
    listening /\ changed = "device" /\ notes = 0 /\ device # "unknown"
        => orientation = Mirrored(device)

\* Once the orientation has changed, the button is never dead: it asks for an
\* orientation that differs from the current one, or changeToOrientation returns
\* early (lines 522 and 733-737).  Before, it is dead if setupOrientation found
\* the device landscape-right and took the interface for turned.
ButtonToggles == item /\ changed # "init" => ButtonTarget # orientation
-----------------------------------------------------------------------------
(* The inductive invariant.                                                *)

\* The view is somewhere as long as the player listens, and a player that does
\* not is not sent notifications any more.
ListeningInv ==
    /\ listening <=> parent # "none"
    /\ ~listening => notes = 0

\* Once the orientation has changed, the flag is that of the orientation.
FullInv == changed # "init" => (full <=> orientation \in Landscape)

IInv == TypeOK /\ ListeningInv /\ FullInv /\ StatusBarAgrees /\ FollowsDevice
=============================================================================
