----------------------------- MODULE LanhuPage -----------------------------
(***************************************************************************)
(* The saved LanHu page: the captcha loader and the script that checks the *)
(* page's version run on it side by side.  They meet when that script has  *)
(* the page reloaded: whatever the loader was doing is gone, and who had   *)
(* been waiting asks again, or does not.                                   *)
(***************************************************************************)
EXTENDS GeetestLoader, VersionNote

pageVars == <<loaderVars, noteVars>>

PageInit == LoaderInit /\ NoteInit

\* The new page's loader.
LoaderReset ==
    /\ library' \in BOOLEAN
    /\ element' \in IF library' THEN {"none"} ELSE {"none", "loading"}
    /\ status' = IF library' \/ element' = "loading" THEN "loaded" ELSE "init"
    /\ callbacks' = <<>>
    /\ front' = "none"
    /\ frontMore' = 0
    /\ downs' = 0
    /\ downMore' = 0
    /\ starter' = Nobody
    /\ asked' = {}
    /\ called' = [c \in Callers |-> 0]
    /\ refused' = [c \in Callers |-> 0]
    /\ UNCHANGED events

Reload == ReloadPage /\ LoaderReset

PageNext ==
    \/ LoaderNext /\ UNCHANGED noteVars
    \/ NoteStep /\ UNCHANGED loaderVars
    \/ Reload

PageSpec == PageInit /\ [][PageNext]_pageVars

\* A script element that was put into the page loads or fails in the end.
PageFairSpec ==
    /\ PageSpec
    /\ WF_pageVars(Front /\ UNCHANGED noteVars)
    /\ WF_pageVars(Element /\ UNCHANGED noteVars)
    /\ WF_pageVars(Down /\ UNCHANGED noteVars)

-----------------------------------------------------------------------------
\* The inductive invariant: the parts' own.
PageInv == LoaderInv /\ NoteInv
=============================================================================
