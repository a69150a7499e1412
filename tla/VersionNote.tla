---------------------------- MODULE VersionNote ----------------------------
(***************************************************************************)
(* version.dynamic.js of the saved LanHu page: it reloads a page that is   *)
(* out of date and shows the note of a new version once, to users that     *)
(* have been shown an older one.  The page loads the script again and      *)
(* again (nine copies of it were saved); what it knows of the note is in   *)
(* localStorage, which all pages of the browser share.  This is one page,  *)
(* and what the others do to localStorage.                                 *)
(***************************************************************************)
EXTENDS Integers

CONSTANTS NoteVer,  \* noteVer, the number of the latest note
          MaxRuns   \* bound on the runs of the script in one page

ASSUME NoteAssumption == NoteVer \in Nat \ {0} /\ MaxRuns \in Nat

VARIABLES stored,    \* localStorage.__beta_temp_betaVersionNote; 0 for undefined
          framed,    \* inIframe()
          outdated,  \* has the page no AppVersion, or an old one?
          runs,      \* runs of the script in this page
          reloading, \* a reload has been asked for
          timers,    \* timers of 150 ms
          retries,   \* timers of 1000 ms
          dialog,    \* is window.LanhuDialog there?
          first,     \* history: was there no record at first?
          seen,      \* history: has the note been shown, now or earlier?
          failed     \* history: was there no dialog to show it with?

history == <<first, seen, failed>>
noteVars == <<stored, framed, outdated, runs, reloading, timers, retries, dialog, history>>

NoteInit ==
    /\ stored \in 0 .. NoteVer
    /\ framed \in BOOLEAN
    /\ outdated \in BOOLEAN
    /\ runs = 0
    /\ reloading = FALSE
    /\ timers = 0
    /\ retries = 0
    /\ dialog = FALSE
    /\ first = (stored = 0)
    /\ seen = (stored = NoteVer)
    /\ failed = FALSE

\* Mutant: the note is recorded when it is found to be new.
RunScriptRecords ==
    /\ runs < MaxRuns
    /\ runs' = runs + 1
    /\ reloading' = (reloading \/ outdated)
    /\ stored' = IF stored = 0 \/ ~framed THEN NoteVer ELSE stored
    /\ timers' = IF stored # 0 /\ ~framed /\ stored < NoteVer THEN timers + 1 ELSE timers
    /\ UNCHANGED <<framed, outdated, retries, dialog, history>>

\* The script runs: at first, and whenever the page loads it again.  It goes on
\* after location.reload().
RunScript ==
    /\ runs < MaxRuns
    /\ runs' = runs + 1
    /\ reloading' = (reloading \/ outdated)
    /\ stored' = IF stored = 0 THEN NoteVer ELSE stored
    /\ timers' = IF stored # 0 /\ ~framed /\ stored < NoteVer THEN timers + 1 ELSE timers
    /\ UNCHANGED <<framed, outdated, retries, dialog, history>>

\* showUpdateDialog records the note and raises if there is no LanhuDialog.
ShowUpdateDialog ==
    /\ stored' = NoteVer
    /\ IF dialog THEN seen' = TRUE /\ UNCHANGED failed ELSE failed' = TRUE /\ UNCHANGED seen
    /\ UNCHANGED first

\* 150 ms later: now, or in a second.
Timer ==
    /\ timers > 0
    /\ timers' = timers - 1
    /\ IF dialog THEN ShowUpdateDialog /\ UNCHANGED retries
                 ELSE retries' = retries + 1 /\ UNCHANGED <<stored, history>>
    /\ UNCHANGED <<framed, outdated, runs, reloading, dialog>>

Retry ==
    /\ retries > 0
    /\ retries' = retries - 1
    /\ ShowUpdateDialog
    /\ UNCHANGED <<framed, outdated, runs, reloading, timers, dialog>>

\* The page's own scripts define LanhuDialog.
DialogLoads ==
    /\ ~dialog
    /\ dialog' = TRUE
    /\ UNCHANGED <<stored, framed, outdated, runs, reloading, timers, retries, history>>

\* Another page of the browser runs the script: it records the note, having shown
\* it (or found no dialog) if there was a record.
OtherPage ==
    /\ stored < NoteVer
    /\ stored' = NoteVer
    /\ \/ stored = 0 /\ UNCHANGED history
       \/ stored > 0 /\ seen' = TRUE /\ UNCHANGED <<first, failed>>
       \/ stored > 0 /\ failed' = TRUE /\ UNCHANGED <<first, seen>>
    /\ UNCHANGED <<framed, outdated, runs, reloading, timers, retries, dialog>>

\* The page is loaded anew: its timers are gone.  It may be as old as before, from
\* a cache on the way.
ReloadPage ==
    /\ reloading
    /\ reloading' = FALSE
    /\ outdated' \in BOOLEAN
    /\ runs' = 0
    /\ timers' = 0
    /\ retries' = 0
    /\ dialog' = FALSE
    /\ UNCHANGED <<stored, framed, history>>

NoteStep == RunScript \/ Timer \/ Retry \/ DialogLoads \/ OtherPage

NoteSpec == NoteInit /\ [][NoteStep \/ ReloadPage]_noteVars

-----------------------------------------------------------------------------
NoteTypeOK ==
    /\ stored \in 0 .. NoteVer
    /\ runs \in 0 .. MaxRuns
    /\ timers \in Nat /\ retries \in Nat
    /\ framed \in BOOLEAN /\ outdated \in BOOLEAN /\ reloading \in BOOLEAN
    /\ dialog \in BOOLEAN /\ first \in BOOLEAN /\ seen \in BOOLEAN /\ failed \in BOOLEAN

\* A note is not lost to a reload or to another page: when it is recorded, it has
\* been shown, except to users without any record and by pages that had no dialog
\* 1.15 s after the script (lines 16-56).
NoteSeen == stored = NoteVer => seen \/ first \/ failed

\* The inductive invariant: a page without any record never had one.
NoteInv == NoteTypeOK /\ (stored = 0 => first) /\ NoteSeen
=============================================================================
