--------------------------- MODULE VideoDownloader ---------------------------
(***************************************************************************)
(* SRVideoDownloader: the singleton that keeps the videos SRVideoPlayer    *)
(* has played.  A download goes to a file of the tmp directory, which is   *)
(* moved to the cache directory when its request completes; a later        *)
(* request for the same name resumes after the bytes in tmp, or is not     *)
(* made when the cache has the file.                                       *)
(*                                                                         *)
(* The singleton has ONE tmpVideoPath, ONE cacheVideoPath and ONE          *)
(* _fileHandle; the callbacks of a request use the ones of the moment, not *)
(* those of its own start.  Everything runs on the main queue, so each     *)
(* method and each session callback is one step.  Files outlive the        *)
(* process; everything else does not.                                      *)
(*                                                                         *)
(* A video is Size pieces, and piece i of URL u is <<u, i>>.               *)
(* _downloadedLength is only read to build the Range header, where it is   *)
(* the length of the tmp file; _expectedLength is never read.              *)
(***************************************************************************)
EXTENDS Integers, Sequences

CONSTANTS Urls,      \* videos the user can open
          Names,     \* last path components
          NameOf,    \* each URL's last path component
          Size,      \* pieces of each video
          MaxLive,   \* bound on the requests alive at once
          Responses, \* what servers do: "range", "whole", "error" (see Respond)
          Overlap,   \* can a video be opened while a request is alive?
          None       \* no file, no path, no request

ASSUME ConstantsAssumption ==
    /\ NameOf \in [Urls -> Names]
    /\ Size \in Nat \ {0}
    /\ MaxLive \in Nat \ {0}
    /\ Responses \subseteq {"range", "whole", "error"}
    /\ Overlap \in BOOLEAN

Slots == 1 .. MaxLive

Junk == <<None, 0>>       \* a piece of an error page
Pieces == (Urls \X (1 .. Size)) \cup {Junk}
NoFile == <<None, None>>  \* no file handle, or one whose file has been removed

\* The pieces of a request's body still to come are next .. last.
Tasks == [state : {"sent", "receiving"}, url : Urls, cancelled : BOOLEAN, junk : BOOLEAN,
          next : Nat, last : Nat]

ASSUME NoneAssumption ==
    /\ None \notin Names /\ None \notin {"tmp", "cache"}
    /\ None \notin Seq(Pieces) /\ None \notin Tasks

VARIABLES tmpDir, cacheDir, \* the two directories: each name's content, or None
          tmpPath,          \* tmpVideoPath (a name)
          cachePath,        \* cacheVideoPath (a name)
          handle,           \* _fileHandle: <<directory, name>> of the file it writes
          task              \* the requests, one per slot

vars == <<tmpDir, cacheDir, tmpPath, cachePath, handle, task>>

Init ==
    /\ tmpDir = [n \in Names |-> None]
    /\ cacheDir = [n \in Names |-> None]
    /\ tmpPath = None
    /\ cachePath = None
    /\ handle = NoFile
    /\ task = [k \in Slots |-> None]

Whole(u) == [i \in 1 .. Size |-> <<u, i>>]

NewTask(u, from) == [state |-> "sent", url |-> u, cancelled |-> FALSE, junk |-> FALSE,
                     next |-> from + 1, last |-> 0]
Piece(k) == IF task[k].junk THEN Junk ELSE <<task[k].url, task[k].next>>

Live(k) == task[k] # None
Sent(k) == Live(k) /\ task[k].state = "sent"
Receiving(k) == Live(k) /\ task[k].state = "receiving"

-----------------------------------------------------------------------------
(* downloadVideoOfURL:                                                     *)

\* Mutant: the tmp file is created anew whether or not there is one.
StartTruncates(u, n) ==
    /\ tmpPath' = n
    /\ handle' = <<"tmp", n>>
    /\ tmpDir' = [tmpDir EXCEPT ![n] = <<>>]
    /\ \E k \in Slots :
          /\ ~Live(k)
          /\ task' = [task EXCEPT ![k] = NewTask(u, 0)]

\* Mutant: the Range header asks for the last byte there is again.
RangeOffByOne(u, n) ==
    /\ tmpPath' = n
    /\ handle' = <<"tmp", n>>
    /\ tmpDir' = [tmpDir EXCEPT ![n] = IF @ = None THEN <<>> ELSE @]
    /\ \E k \in Slots :
          /\ ~Live(k)
          /\ task' = [task EXCEPT ![k] = NewTask(u, (IF tmpDir[n] = None THEN 0 ELSE Len(tmpDir[n])) - 1)]

\* Mutant: tmpVideoPath is not set.
StartWithOldPath(u, n) ==
    /\ tmpPath' = IF tmpPath = None THEN n ELSE tmpPath
    /\ handle' = <<"tmp", n>>
    /\ tmpDir' = [tmpDir EXCEPT ![n] = IF @ = None THEN <<>> ELSE @]
    /\ \E k \in Slots :
          /\ ~Live(k)
          /\ task' = [task EXCEPT ![k] = NewTask(u, IF tmpDir[n] = None THEN 0 ELSE Len(tmpDir[n]))]

\* Open the tmp file at its end, creating it if there is none, and request the
\* bytes after it.
StartRequest(u, n) ==
    /\ tmpPath' = n
    /\ handle' = <<"tmp", n>>
    /\ tmpDir' = [tmpDir EXCEPT ![n] = IF @ = None THEN <<>> ELSE @]
    /\ \E k \in Slots :
          /\ ~Live(k)
          /\ task' = [task EXCEPT ![k] = NewTask(u, IF tmpDir[n] = None THEN 0 ELSE Len(tmpDir[n]))]

\* Nothing ends an earlier request; and tmpVideoPath and _fileHandle keep those
\* of an earlier video when this one is in the cache.
DownloadVideo(u) ==
    /\ Overlap \/ \A k \in Slots : ~Live(k)
    /\ cachePath' = NameOf[u]
    /\ IF cacheDir[NameOf[u]] # None
       THEN UNCHANGED <<tmpDir, tmpPath, handle, task>>
       ELSE StartRequest(u, NameOf[u])
    /\ UNCHANGED cacheDir

-----------------------------------------------------------------------------
(* The session's callbacks.                                                *)

\* A request whose response has arrived: its body starts where the server says.
Answered(t, r) == [state |-> "receiving", url |-> t.url, cancelled |-> t.cancelled,
                   junk |-> r = "error",
                   next |-> IF r = "range" THEN t.next ELSE 1,
                   last |-> IF r = "error" THEN 1 ELSE Size]

\* didReceiveResponse allows every response, whatever its status: a server that
\* honours Range sends the rest (nothing, when nothing is left), another sends
\* the whole video, another an error page.
Respond(k) ==
    /\ Sent(k)
    /\ ~task[k].cancelled
    /\ \E r \in Responses : task' = [task EXCEPT ![k] = Answered(@, r)]
    /\ UNCHANGED <<tmpDir, cacheDir, tmpPath, cachePath, handle>>

\* Write at the end of whatever file the handle is open on.
Write(k) ==
    /\ tmpDir' = IF handle[1] = "tmp" THEN [tmpDir EXCEPT ![handle[2]] = Append(@, Piece(k))]
                                      ELSE tmpDir
    /\ cacheDir' = IF handle[1] = "cache" THEN [cacheDir EXCEPT ![handle[2]] = Append(@, Piece(k))]
                                          ELSE cacheDir

\* didReceiveData; a cancelled request can still deliver what was under way.
ReceiveData(k) ==
    /\ Receiving(k)
    /\ task[k].next <= task[k].last
    /\ Write(k)
    /\ task' = [task EXCEPT ![k].next = @ + 1]
    /\ UNCHANGED <<tmpPath, cachePath, handle>>

\* Mutant: a request that fails is moved to the cache too.
FailMoves(k) ==
    /\ Live(k)
    /\ task' = [task EXCEPT ![k] = None]
    /\ cacheDir' = [cacheDir EXCEPT ![cachePath] = IF @ = None THEN tmpDir[tmpPath] ELSE @]
    /\ UNCHANGED <<tmpDir, tmpPath, cachePath, handle>>

\* didCompleteWithError, with an error: connection lost, timeout, cancelled.
CompleteWithError(k) ==
    /\ Live(k)
    /\ task' = [task EXCEPT ![k] = None]
    /\ UNCHANGED <<tmpDir, cacheDir, tmpPath, cachePath, handle>>

\* moveItemAtPath fails if there is no source or there is a destination; the
\* handle stays open on the file it moves.
MoveToCache ==
    IF tmpDir[tmpPath] # None /\ cacheDir[cachePath] = None
    THEN /\ cacheDir' = [cacheDir EXCEPT ![cachePath] = tmpDir[tmpPath]]
         /\ tmpDir' = [tmpDir EXCEPT ![tmpPath] = None]
         /\ handle' = IF handle = <<"tmp", tmpPath>> THEN <<"cache", cachePath>> ELSE handle
    ELSE UNCHANGED <<tmpDir, cacheDir, handle>>

\* didCompleteWithError, with none: the length is not compared with anything.
\* A request that was complete when it was cancelled can still deliver this.
Complete(k) ==
    /\ Receiving(k)
    /\ task[k].next > task[k].last
    /\ task' = [task EXCEPT ![k] = None]
    /\ MoveToCache
    /\ UNCHANGED <<tmpPath, cachePath>>

-----------------------------------------------------------------------------
(* The other public methods, and the end of the process.                   *)

\* cancelDownloadActions: every request of the session is cancelled.
CancelDownloadActions ==
    /\ \E k \in Slots : Live(k)
    /\ task' = [k \in Slots |-> IF Live(k) THEN [task[k] EXCEPT !.cancelled = TRUE] ELSE task[k]]
    /\ UNCHANGED <<tmpDir, cacheDir, tmpPath, cachePath, handle>>

\* clearCachedVideos: an open handle stays on a file that has no name any more.
ClearCachedVideos ==
    /\ cacheDir' = [n \in Names |-> None]
    /\ handle' = IF handle[1] = "cache" THEN NoFile ELSE handle
    /\ UNCHANGED <<tmpDir, tmpPath, cachePath, task>>

\* The process ends at any moment and starts again; meanwhile the system may
\* have removed files of tmp and of Caches.
Restart ==
    /\ \E T, C \in SUBSET Names :
          /\ tmpDir' = [n \in Names |-> IF n \in T THEN None ELSE tmpDir[n]]
          /\ cacheDir' = [n \in Names |-> IF n \in C THEN None ELSE cacheDir[n]]
    /\ tmpPath' = None
    /\ cachePath' = None
    /\ handle' = NoFile
    /\ task' = [k \in Slots |-> None]

Next ==
    \/ \E u \in Urls : DownloadVideo(u)
    \/ \E k \in Slots : Respond(k) \/ ReceiveData(k) \/ CompleteWithError(k) \/ Complete(k)
    \/ CancelDownloadActions
    \/ ClearCachedVideos
    \/ Restart

Spec == Init /\ [][Next]_vars

-----------------------------------------------------------------------------
TypeOK ==
    /\ tmpDir \in [Names -> Seq(Pieces) \cup {None}]
    /\ cacheDir \in [Names -> Seq(Pieces) \cup {None}]
    /\ tmpPath \in Names \cup {None}
    /\ cachePath \in Names \cup {None}
    /\ handle \in ({"tmp", "cache"} \X Names) \cup {NoFile}
    /\ task \in [Slots -> Tasks \cup {None}]

\* "Next time play directly with cached data": whoever opens a video and finds
\* it in the cache plays that video, all of it and nothing else, after any
\* sequence of requests, errors, cancellations, clearings and crashes.
CacheFaithful ==
    \A u \in Urls : cacheDir[NameOf[u]] # None => cacheDir[NameOf[u]] = Whole(u)

\* A request that completes without an error leaves its video in the cache.
CompletionCaches ==
    [][\A k \in Slots : Complete(k) => cacheDir'[NameOf[task[k].url]] # None]_vars

Held(n) == (IF tmpDir[n] = None THEN 0 ELSE Len(tmpDir[n]))
             + (IF cacheDir[n] = None THEN 0 ELSE Len(cacheDir[n]))

\* No byte is thrown away except by clearing or by the system: a request that
\* is made again after an error, a cancellation or a crash finds all of them.
NothingLost ==
    [][ClearCachedVideos \/ Restart \/ \A n \in Names : Held(n)' >= Held(n)]_vars

-----------------------------------------------------------------------------
(* Implementation of the abstract store.                                   *)

\* The files, paths and requests of the downloader are one store of videos.
KeptVideos == {u \in Urls : cacheDir[NameOf[u]] # None}
Fetching == {u \in Urls : \E k \in Slots : Live(k) /\ task[k].url = u}

Store == INSTANCE VideoStore WITH
    Videos <- Urls, held <- [u \in Urls |-> Held(NameOf[u])],
    kept <- KeptVideos, fetching <- Fetching

\* "Next time play directly with cached data", and until then resume: whatever
\* interrupts it, a video is fetched from where it was left and kept when, and only
\* when, all of it is there.
ImplementsVideoStore == Store!Spec
=============================================================================
