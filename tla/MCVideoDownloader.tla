-------------------------- MODULE MCVideoDownloader --------------------------
EXTENDS VideoDownloader, TLC

CONSTANTS u1, u2, n1, n2

\* Two videos with names of their own.
Distinct == (u1 :> n1) @@ (u2 :> n2)
=============================================================================
