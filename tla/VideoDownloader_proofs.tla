----------------------- MODULE VideoDownloader_proofs -----------------------
(* Proofs about VideoDownloader, for any videos, sizes and number of slots:  *)
(* what holds in every environment, what videos opened one at a time add,    *)
(* and what the environment WellBehaved adds to that.                        *)
EXTENDS VideoDownloader, TLAPS

-----------------------------------------------------------------------------
(* What holds whatever the servers do and whenever videos are opened.      *)

\* The handle is open on the file of tmpVideoPath or on a file of the cache, so
\* that what a callback writes and moves is there.
HandleOpen ==
    /\ handle[1] = "tmp" => handle[2] = tmpPath /\ tmpDir[handle[2]] # None
    /\ handle[1] = "cache" => cacheDir[handle[2]] # None
    /\ \A k \in Slots : Live(k) => tmpPath # None /\ cachePath # None

\* A body is made of pieces of its video, or is an error page.
BodyBounds ==
    \A k \in Slots : Live(k) =>
        /\ task[k].next >= 1
        /\ task[k].last <= (IF task[k].junk THEN 1 ELSE Size)

AnyInv == TypeOK /\ HandleOpen /\ BodyBounds

-----------------------------------------------------------------------------
(* What holds when videos are opened one at a time, whatever servers do.   *)

\* The paths and the handle are those of the request that is alive.
PathsInStep ==
    /\ \A j, k \in Slots : Live(j) /\ Live(k) => j = k
    /\ \A k \in Slots : Live(k) =>
          LET n == NameOf[task[k].url] IN
             /\ tmpPath = n /\ cachePath = n /\ handle = <<"tmp", n>>
             /\ tmpDir[n] # None /\ cacheDir[n] = None

\* A video is in one of the two directories: what is kept is not fetched again.
OnePlace == \A n \in Names : tmpDir[n] = None \/ cacheDir[n] = None

PathInv == AnyInv /\ PathsInStep /\ OnePlace

-----------------------------------------------------------------------------
(* What holds, moreover, with the servers the class is written for: one    *)
(* video at a time, servers that honour Range and answer without a body    *)
(* when nothing is left, URLs with last path components of their own.      *)
WellBehaved ==
    /\ ~Overlap
    /\ Responses \subseteq {"range"}
    /\ \A u, v \in Urls : NameOf[u] = NameOf[v] => u = v

\* The tmp file of a video holds its first pieces.
TmpIsPrefix ==
    \A u \in Urls : tmpDir[NameOf[u]] # None =>
        /\ Len(tmpDir[NameOf[u]]) <= Size
        /\ \A i \in 1 .. Len(tmpDir[NameOf[u]]) : tmpDir[NameOf[u]][i] = <<u, i>>

\* The next piece a request delivers is the next one its tmp file needs.
BodyInStep ==
    \A k \in Slots : Live(k) =>
        /\ ~task[k].junk
        /\ task[k].next = Len(tmpDir[NameOf[task[k].url]]) + 1
        /\ Receiving(k) => task[k].last = Size

IInv == PathInv /\ CacheFaithful /\ TmpIsPrefix /\ BodyInStep

-----------------------------------------------------------------------------
(* Sequences.                                                                *)

\* What Append does.
LEMMA AppendFacts ==
  ASSUME NEW S, NEW s \in Seq(S), NEW e \in S
  PROVE  /\ Len(Append(s, e)) = Len(s) + 1
         /\ Append(s, e)[Len(s) + 1] = e
         /\ \A i \in 1 .. Len(s) : Append(s, e)[i] = s[i]
  OBVIOUS

\* A sequence is the function of its elements.
LEMMA SequenceIsFunction ==
  ASSUME NEW S, NEW s \in Seq(S)
  PROVE  s = [i \in 1 .. Len(s) |-> s[i]]
  OBVIOUS

LEMMA EmptyFile == <<>> \in Seq(Pieces) /\ <<>> # None /\ Len(<<>>) = 0
  <1>1. <<>> \in Seq(Pieces) /\ Len(<<>>) = 0
    OBVIOUS
  <1>. QED
    BY <1>1, NoneAssumption

-----------------------------------------------------------------------------
(* Every environment.                                                        *)

LEMMA InitIInv == Init => IInv
  BY ConstantsAssumption, NoneAssumption
     DEF Init, IInv, PathInv, AnyInv, TypeOK, HandleOpen, BodyBounds, CacheFaithful,
         TmpIsPrefix, PathsInStep, OnePlace, BodyInStep, Live, NoFile

\* The file the handle is open on, and the piece written to it.
LEMMA WriteFacts ==
  ASSUME AnyInv, NEW k \in Slots, ReceiveData(k)
  PROVE  /\ task[k] \in Tasks /\ Piece(k) \in Pieces
         /\ handle[1] = "tmp" => /\ handle[2] \in Names /\ tmpDir[handle[2]] \in Seq(Pieces)
                                 /\ tmpDir[handle[2]] # None
                                 /\ handle = <<"tmp", tmpPath>> 
         /\ handle[1] = "cache" => /\ handle[2] \in Names /\ cacheDir[handle[2]] \in Seq(Pieces)
                                   /\ cacheDir[handle[2]] # None
  <1>. USE DEF AnyInv, TypeOK
  <1>1. Live(k) /\ task[k] \in Tasks /\ task[k].next <= task[k].last
    BY DEF ReceiveData, Receiving, Live
  <1>2. Piece(k) \in Pieces
    <2>1. CASE task[k].junk
      BY <2>1 DEF Piece, Pieces
    <2>2. CASE ~task[k].junk
      <3>1. task[k].next \in 1 .. Size /\ task[k].url \in Urls
        BY <1>1, <2>2, ConstantsAssumption DEF BodyBounds, Tasks
      <3>. QED
        BY <2>2, <3>1 DEF Piece, Pieces
    <2>. QED
      BY <2>1, <2>2
  <1>3. handle = NoFile => handle[1] # "tmp" /\ handle[1] # "cache"
    BY NoneAssumption DEF NoFile
  <1>. QED
    BY <1>1, <1>2, <1>3 DEF HandleOpen

\* What a new request sets, and what it does to the tmp file of its name.
LEMMA StartFacts ==
  ASSUME AnyInv, NEW u \in Urls, DownloadVideo(u), cacheDir[NameOf[u]] = None
  PROVE  /\ NameOf[u] \in Names
         /\ tmpPath' = NameOf[u] /\ cachePath' = NameOf[u] /\ handle' = <<"tmp", NameOf[u]>>
         /\ tmpDir' = [tmpDir EXCEPT ![NameOf[u]] = IF @ = None THEN <<>> ELSE @]
         /\ tmpDir' \in [Names -> Seq(Pieces) \cup {None}]
         /\ tmpDir'[NameOf[u]] \in Seq(Pieces) /\ tmpDir'[NameOf[u]] # None
         /\ cacheDir' = cacheDir
         /\ \E k \in Slots :
               /\ ~Live(k)
               /\ task' = [task EXCEPT ![k] = NewTask(u, Len(tmpDir'[NameOf[u]]))]
               /\ task' \in [Slots -> Tasks \cup {None}]
               /\ task'[k] = NewTask(u, Len(tmpDir'[NameOf[u]]))
               /\ task'[k] \in Tasks
  <1>. DEFINE n == NameOf[u]
              from == IF tmpDir[n] = None THEN 0 ELSE Len(tmpDir[n])
  <1>1. n \in Names /\ tmpDir \in [Names -> Seq(Pieces) \cup {None}]
        /\ task \in [Slots -> Tasks \cup {None}]
    BY ConstantsAssumption DEF AnyInv, TypeOK
  <1>2. /\ tmpPath' = n /\ cachePath' = n /\ handle' = <<"tmp", n>> /\ cacheDir' = cacheDir
        /\ tmpDir' = [tmpDir EXCEPT ![n] = IF @ = None THEN <<>> ELSE @]
        /\ \E k \in Slots : ~Live(k) /\ task' = [task EXCEPT ![k] = NewTask(u, from)]
    BY DEF DownloadVideo, StartRequest
  <1>3. /\ tmpDir' \in [Names -> Seq(Pieces) \cup {None}]
        /\ tmpDir'[n] \in Seq(Pieces) /\ tmpDir'[n] # None /\ Len(tmpDir'[n]) = from
    <2>. HIDE DEF n
    <2>1. CASE tmpDir[n] = None
      BY <1>1, <1>2, <2>1, EmptyFile
    <2>2. CASE tmpDir[n] # None
      BY <1>1, <1>2, <2>2
    <2>. QED
      BY <2>1, <2>2
  <1>. HIDE DEF from
  <1>4. Len(tmpDir'[n]) \in Nat
    BY <1>3
  <1>5. NewTask(u, from) \in Tasks
    BY <1>3, <1>4 DEF NewTask, Tasks
  <1>6. PICK k \in Slots : ~Live(k) /\ task' = [task EXCEPT ![k] = NewTask(u, from)]
    BY <1>2
  <1>7. task' \in [Slots -> Tasks \cup {None}] /\ task'[k] = NewTask(u, from)
    BY <1>1, <1>5, <1>6
  <1>. QED
    BY <1>1, <1>2, <1>3, <1>5, <1>6, <1>7

LEMMA AnyType ==
  ASSUME AnyInv, [Next]_vars
  PROVE  TypeOK'
  <1>. USE ConstantsAssumption DEF AnyInv, TypeOK
  <1>1. ASSUME NEW u \in Urls, DownloadVideo(u)
        PROVE  TypeOK'
    <2>1. NameOf[u] \in Names
      OBVIOUS
    <2>2. CASE cacheDir[NameOf[u]] # None
      BY <1>1, <2>1, <2>2 DEF DownloadVideo
    <2>3. CASE cacheDir[NameOf[u]] = None
      BY <1>1, <2>3, StartFacts
    <2>. QED
      BY <2>2, <2>3
  <1>2. ASSUME NEW k \in Slots, Respond(k)
        PROVE  TypeOK'
    <2>1. task[k] \in Tasks
      BY <1>2 DEF Respond, Sent, Live
    <2>2. \A r \in Responses : Answered(task[k], r) \in Tasks
      BY <2>1 DEF Answered, Tasks
    <2>4. task' \in [Slots -> Tasks \cup {None}]
      BY <1>2, <2>2 DEF Respond
    <2>. QED
      BY <1>2, <2>4 DEF Respond
  <1>3. ASSUME NEW k \in Slots, ReceiveData(k)
        PROVE  TypeOK'
    <2>1. /\ tmpDir' \in [Names -> Seq(Pieces) \cup {None}]
          /\ cacheDir' \in [Names -> Seq(Pieces) \cup {None}]
      <3>1. Write(k) /\ "tmp" # "cache"
        BY <1>3 DEF ReceiveData
      <3>. QED
        BY <1>3, <3>1, WriteFacts DEF Write
    <2>2. task' \in [Slots -> Tasks \cup {None}]
      <3>1. task[k] \in Tasks /\ task' = [task EXCEPT ![k] = [task[k] EXCEPT !.next = @ + 1]]
        BY <1>3, WriteFacts DEF ReceiveData
      <3>2. [task[k] EXCEPT !.next = @ + 1] \in Tasks
        BY <3>1 DEF Tasks
      <3>. QED
        BY <3>1, <3>2
    <2>. QED
      BY <1>3, <2>1, <2>2 DEF ReceiveData
  <1>4. ASSUME NEW k \in Slots, CompleteWithError(k)
        PROVE  TypeOK'
    BY <1>4 DEF CompleteWithError
  <1>5. ASSUME NEW k \in Slots, Complete(k)
        PROVE  TypeOK'
    <2>1. tmpPath \in Names /\ cachePath \in Names
      BY <1>5 DEF Complete, Receiving, HandleOpen, Live
    <2>2. task' \in [Slots -> Tasks \cup {None}]
      BY <1>5 DEF Complete
    <2>3. CASE tmpDir[tmpPath] # None /\ cacheDir[cachePath] = None
      <3>1. cacheDir' = [cacheDir EXCEPT ![cachePath] = tmpDir[tmpPath]]
            /\ tmpDir' = [tmpDir EXCEPT ![tmpPath] = None]
            /\ handle' \in {handle, <<"cache", cachePath>>}
            /\ tmpPath' = tmpPath /\ cachePath' = cachePath
        BY <1>5, <2>3 DEF Complete, MoveToCache
      <3>. QED
        BY <2>1, <2>2, <3>1
    <2>4. CASE ~(tmpDir[tmpPath] # None /\ cacheDir[cachePath] = None)
      BY <1>5, <2>2, <2>4 DEF Complete, MoveToCache
    <2>. QED
      BY <2>3, <2>4
  <1>6. CASE CancelDownloadActions
    <2>1. \A k \in Slots : Live(k) => [task[k] EXCEPT !.cancelled = TRUE] \in Tasks
      BY DEF Live, Tasks
    <2>. QED
      BY <1>6, <2>1 DEF CancelDownloadActions, Live
  <1>7. CASE ClearCachedVideos
    BY <1>7 DEF ClearCachedVideos
  <1>8. CASE Restart
    BY <1>8 DEF Restart
  <1>9. CASE UNCHANGED vars
    BY <1>9 DEF vars
  <1>. QED
    BY <1>1, <1>2, <1>3, <1>4, <1>5, <1>6, <1>7, <1>8, <1>9 DEF Next

LEMMA AnyHandle ==
  ASSUME AnyInv, [Next]_vars
  PROVE  HandleOpen'
  <1>. USE ConstantsAssumption DEF AnyInv, TypeOK
  <1>1. ASSUME NEW u \in Urls, DownloadVideo(u)
        PROVE  HandleOpen'
    <2>1. CASE cacheDir[NameOf[u]] # None
      BY <1>1, <2>1, NoneAssumption DEF DownloadVideo, HandleOpen, Live
    <2>2. CASE cacheDir[NameOf[u]] = None
      BY <1>1, <2>2, StartFacts, NoneAssumption DEF HandleOpen, Live
    <2>. QED
      BY <2>1, <2>2
  <1>2. ASSUME NEW k \in Slots, Respond(k) \/ CompleteWithError(k)
        PROVE  HandleOpen'
    <2>1. \A j \in Slots : Live(j)' => Live(j)
      BY <1>2 DEF Respond, CompleteWithError, Sent, Live
    <2>. QED
      BY <1>2, <2>1 DEF Respond, CompleteWithError, HandleOpen
  <1>3. ASSUME NEW k \in Slots, ReceiveData(k)
        PROVE  HandleOpen'
    <2>1. \A j \in Slots : Live(j)' => Live(j)
      BY <1>3 DEF ReceiveData, Receiving, Live
    <2>2. handle' = handle /\ tmpPath' = tmpPath /\ cachePath' = cachePath
      BY <1>3 DEF ReceiveData
    <2>3. ASSUME NEW file \in Seq(Pieces)
          PROVE  Append(file, Piece(k)) # None
      BY <1>3, <2>3, WriteFacts, NoneAssumption
    <2>4. handle[1] = "tmp" => tmpDir'[handle[2]] # None
      BY <1>3, <2>3, WriteFacts DEF ReceiveData, Write
    <2>5. handle[1] = "cache" => cacheDir'[handle[2]] # None
      BY <1>3, <2>3, WriteFacts DEF ReceiveData, Write
    <2>. QED
      BY <2>1, <2>2, <2>4, <2>5 DEF HandleOpen
  <1>4. ASSUME NEW k \in Slots, Complete(k)
        PROVE  HandleOpen'
    <2>1. \A j \in Slots : Live(j)' => Live(j)
      BY <1>4 DEF Complete, Receiving, Live
    <2>2. tmpPath \in Names /\ cachePath \in Names /\ tmpPath' = tmpPath /\ cachePath' = cachePath
      BY <1>4 DEF Complete, Receiving, HandleOpen, Live
    <2>3. CASE tmpDir[tmpPath] # None /\ cacheDir[cachePath] = None
      <3>1. /\ cacheDir' = [cacheDir EXCEPT ![cachePath] = tmpDir[tmpPath]]
            /\ tmpDir' = [tmpDir EXCEPT ![tmpPath] = None]
            /\ handle' = IF handle = <<"tmp", tmpPath>> THEN <<"cache", cachePath>> ELSE handle
        BY <1>4, <2>3 DEF Complete, MoveToCache
      <3>2. CASE handle = <<"tmp", tmpPath>>
        BY <2>1, <2>2, <2>3, <3>1, <3>2 DEF HandleOpen
      <3>3. CASE handle # <<"tmp", tmpPath>>
        <4>1. handle' = handle /\ handle[1] # "tmp"
          BY <3>1, <3>3, NoneAssumption DEF HandleOpen, NoFile
        <4>2. handle[1] = "cache" => handle[2] \in Names
          BY NoneAssumption DEF NoFile
        <4>3. handle[1] = "cache" => cacheDir'[handle[2]] # None
          BY <2>2, <2>3, <3>1, <4>2 DEF HandleOpen
        <4>. QED
          BY <2>1, <2>2, <4>1, <4>3 DEF HandleOpen
      <3>. QED
        BY <3>2, <3>3
    <2>4. CASE ~(tmpDir[tmpPath] # None /\ cacheDir[cachePath] = None)
      BY <1>4, <2>1, <2>2, <2>4 DEF Complete, MoveToCache, HandleOpen
    <2>. QED
      BY <2>3, <2>4
  <1>5. CASE CancelDownloadActions
    <2>1. \A j \in Slots : Live(j)' => Live(j)
      BY <1>5 DEF CancelDownloadActions, Live
    <2>. QED
      BY <1>5, <2>1 DEF CancelDownloadActions, HandleOpen
  <1>6. CASE ClearCachedVideos
    BY <1>6, NoneAssumption DEF ClearCachedVideos, HandleOpen, Live, NoFile
  <1>7. CASE Restart
    BY <1>7, NoneAssumption DEF Restart, HandleOpen, Live, NoFile
  <1>8. CASE UNCHANGED vars
    BY <1>8 DEF vars, HandleOpen, Live
  <1>. QED
    BY <1>1, <1>2, <1>3, <1>4, <1>5, <1>6, <1>7, <1>8 DEF Next

\* What answers make of a request: only an error page makes its body junk.
LEMMA AnsweredFacts ==
  ASSUME NEW t, NEW r \in {"range", "whole", "error"}
  PROVE  /\ Answered(t, r).next \in {t.next, 1}
         /\ r = "error" => Answered(t, r).junk /\ Answered(t, r).last = 1 
         /\ r # "error" => ~Answered(t, r).junk /\ Answered(t, r).last = Size 
  <1>1. CASE r = "error"
    BY <1>1 DEF Answered
  <1>2. CASE r = "range"
    <2>1. ~Answered(t, "range").junk
      BY DEF Answered
    <2>. QED
      BY <1>2, <2>1 DEF Answered
  <1>3. CASE r = "whole"
    <2>1. ~Answered(t, "whole").junk
      BY DEF Answered
    <2>. QED
      BY <1>3, <2>1 DEF Answered
  <1>. QED
    BY <1>1, <1>2, <1>3

LEMMA AnyBody ==
  ASSUME AnyInv, [Next]_vars
  PROVE  BodyBounds'
  <1>. USE ConstantsAssumption DEF AnyInv, TypeOK
  \* A step that leaves a request as it is, or ends it.
  <1>1. ASSUME NEW j \in Slots, task'[j] = task[j] \/ task'[j] = None, Live(j)'
        PROVE  /\ task'[j].next >= 1
               /\ task'[j].last <= (IF task'[j].junk THEN 1 ELSE Size)
    BY <1>1 DEF BodyBounds, Live
  <1>2. ASSUME NEW u \in Urls, DownloadVideo(u)
        PROVE  BodyBounds'
    <2>1. CASE cacheDir[NameOf[u]] # None
      BY <1>1, <1>2, <2>1 DEF DownloadVideo, BodyBounds
    <2>2. CASE cacheDir[NameOf[u]] = None
      <3>. DEFINE from == Len(tmpDir'[NameOf[u]])
      <3>1. PICK k \in Slots : /\ task' = [task EXCEPT ![k] = NewTask(u, from)]
                               /\ task'[k] = NewTask(u, from)
        BY <1>2, <2>2, StartFacts
      <3>2. from \in Nat
        BY <1>2, <2>2, StartFacts
      <3>3. task'[k].next = from + 1 /\ task'[k].last = 0 /\ ~task'[k].junk
        BY <3>1 DEF NewTask
      <3>4. \A j \in Slots : j # k => task'[j] = task[j]
        BY <3>1
      <3>. HIDE DEF from
      <3>. QED
        BY <1>1, <3>2, <3>3, <3>4 DEF BodyBounds
    <2>. QED
      BY <2>1, <2>2
  <1>3. ASSUME NEW k \in Slots, Respond(k)
        PROVE  BodyBounds'
    <2>1. PICK r \in Responses : task' = [task EXCEPT ![k] = Answered(task[k], r)]
      BY <1>3 DEF Respond
    <2>2. task'[k] = Answered(task[k], r) /\ \A j \in Slots : j # k => task'[j] = task[j]
      BY <2>1
    <2>3. task[k] \in Tasks /\ task[k].next >= 1
      BY <1>3 DEF Respond, Sent, BodyBounds, Live
    <2>4. /\ task'[k].next >= 1
          /\ task'[k].last <= (IF task'[k].junk THEN 1 ELSE Size)
      <3>1. r \in {"range", "whole", "error"}
        OBVIOUS
      <3>2. task'[k].next \in {task[k].next, 1}
        BY <2>2, <3>1, AnsweredFacts
      <3>3. task'[k].last <= (IF task'[k].junk THEN 1 ELSE Size)
        BY <2>2, <3>1, AnsweredFacts
      <3>. QED
        BY <2>3, <3>2, <3>3
    <2>. QED
      BY <1>1, <2>2, <2>4 DEF BodyBounds
  <1>4. ASSUME NEW k \in Slots, ReceiveData(k)
        PROVE  BodyBounds'
    <2>1. task[k] \in Tasks /\ Live(k)
      BY <1>4, WriteFacts DEF ReceiveData, Receiving
    <2>2. task'[k] = [task[k] EXCEPT !.next = @ + 1] /\ \A j \in Slots : j # k => task'[j] = task[j]
      BY <1>4 DEF ReceiveData
    <2>3. /\ task'[k].next >= 1
          /\ task'[k].last <= (IF task'[k].junk THEN 1 ELSE Size)
      BY <2>1, <2>2 DEF BodyBounds, Tasks
    <2>. QED
      BY <1>1, <2>2, <2>3 DEF BodyBounds
  <1>5. ASSUME NEW k \in Slots, CompleteWithError(k) \/ Complete(k)
        PROVE  BodyBounds'
    <2>1. \A j \in Slots : task'[j] = task[j] \/ task'[j] = None
      BY <1>5 DEF CompleteWithError, Complete
    <2>. QED
      BY <1>1, <2>1 DEF BodyBounds
  <1>6. CASE CancelDownloadActions
    <2>1. ASSUME NEW k \in Slots, Live(k)'
          PROVE  /\ task'[k].next >= 1
                 /\ task'[k].last <= (IF task'[k].junk THEN 1 ELSE Size)
      <3>1. Live(k) /\ task[k] \in Tasks /\ task'[k] = [task[k] EXCEPT !.cancelled = TRUE]
        BY <1>6, <2>1 DEF CancelDownloadActions, Live
      <3>. QED
        BY <3>1 DEF BodyBounds, Tasks
    <2>. QED
      BY <2>1 DEF BodyBounds
  <1>7. CASE Restart
    <2>1. \A j \in Slots : task'[j] = None
      BY <1>7 DEF Restart
    <2>. QED
      BY <1>1, <2>1 DEF BodyBounds
  <1>8. CASE ClearCachedVideos \/ UNCHANGED vars
    BY <1>1, <1>8 DEF ClearCachedVideos, vars, BodyBounds
  <1>. QED
    BY <1>2, <1>3, <1>4, <1>5, <1>6, <1>7, <1>8 DEF Next

\* Whatever the servers answer and whenever videos are opened, what is written goes
\* to a file that is there: to the one of tmpVideoPath, or to one of the cache when
\* its tmp file was moved there; and a completion finds the paths it moves between.
THEOREM HandleInvariance == Spec => []AnyInv
  <1>1. Init => AnyInv
    BY InitIInv DEF IInv, PathInv
  <1>2. AnyInv /\ [Next]_vars => AnyInv'
    BY AnyType, AnyHandle, AnyBody DEF AnyInv
  <1>. QED
    BY <1>1, <1>2, PTL DEF Spec

-----------------------------------------------------------------------------
(* Videos opened one at a time.                                              *)

\* What a request that is alive knows about the shared fields.
LEMMA LiveFacts ==
  ASSUME PathInv, NEW k \in Slots, Live(k)
  PROVE  /\ task[k] \in Tasks /\ task[k].url \in Urls /\ NameOf[task[k].url] \in Names
         /\ tmpPath = NameOf[task[k].url] /\ cachePath = NameOf[task[k].url]
         /\ handle = <<"tmp", NameOf[task[k].url]>>
         /\ tmpDir[NameOf[task[k].url]] \in Seq(Pieces)
         /\ tmpDir[NameOf[task[k].url]] # None
         /\ cacheDir[NameOf[task[k].url]] = None
         /\ \A j \in Slots : Live(j) => j = k
  BY ConstantsAssumption DEF PathInv, AnyInv, TypeOK, PathsInStep, Live, Tasks

\* What the request that is alive appends, and where.
LEMMA AppendStep ==
  ASSUME PathInv, NEW k \in Slots, ReceiveData(k)
  PROVE  LET n == NameOf[task[k].url]
         IN  /\ Live(k) /\ Receiving(k) /\ n \in Names /\ Piece(k) \in Pieces
             /\ tmpDir' = [tmpDir EXCEPT ![n] = Append(tmpDir[n], Piece(k))]
             /\ cacheDir' = cacheDir
             /\ tmpDir'[n] = Append(tmpDir[n], Piece(k)) /\ tmpDir'[n] # None
             /\ Len(tmpDir'[n]) = Len(tmpDir[n]) + 1
             /\ \A m \in Names : m # n => tmpDir'[m] = tmpDir[m]
  <1>. DEFINE n == NameOf[task[k].url]
  <1>1. Live(k) /\ Receiving(k)
    BY DEF ReceiveData, Receiving
  <1>2. /\ n \in Names /\ handle[1] = "tmp" /\ handle[2] = n /\ tmpDir[n] \in Seq(Pieces)
        /\ tmpDir \in [Names -> Seq(Pieces) \cup {None}]
    BY <1>1, LiveFacts DEF PathInv, AnyInv, TypeOK
  <1>3. Piece(k) \in Pieces
    BY WriteFacts DEF PathInv
  <1>4. tmpDir' = [tmpDir EXCEPT ![n] = Append(tmpDir[n], Piece(k))] /\ cacheDir' = cacheDir
    BY <1>2 DEF ReceiveData, Write
  <1>. HIDE DEF n
  <1>5. tmpDir'[n] = Append(tmpDir[n], Piece(k)) /\ \A m \in Names : m # n => tmpDir'[m] = tmpDir[m]
    BY <1>2, <1>4
  <1>6. Append(tmpDir[n], Piece(k)) \in Seq(Pieces)
    BY <1>2, <1>3
  <1>7. Len(Append(tmpDir[n], Piece(k))) = Len(tmpDir[n]) + 1
    BY <1>2, <1>3, AppendFacts
  <1>8. tmpDir'[n] # None /\ Len(tmpDir'[n]) = Len(tmpDir[n]) + 1
    BY <1>5, <1>6, <1>7, NoneAssumption
  <1>. QED
    BY <1>1, <1>2, <1>3, <1>4, <1>5, <1>8 DEF n

\* Moving the tmp file of the request that is alive: nothing is in the way.
LEMMA MoveStep ==
  ASSUME PathInv, NEW k \in Slots, Complete(k)
  PROVE  LET n == NameOf[task[k].url]
         IN  /\ Live(k) /\ n \in Names /\ cacheDir[n] = None
             /\ tmpDir[n] \in Seq(Pieces) /\ tmpDir[n] # None
             /\ cacheDir' = [cacheDir EXCEPT ![n] = tmpDir[n]]
             /\ tmpDir' = [tmpDir EXCEPT ![n] = None]
  <1>. DEFINE n == NameOf[task[k].url]
  <1>1. Live(k)
    BY DEF Complete, Receiving
  <1>2. /\ n \in Names /\ tmpPath = n /\ cachePath = n /\ cacheDir[n] = None
        /\ tmpDir[n] \in Seq(Pieces) /\ tmpDir[n] # None
    BY <1>1, LiveFacts
  <1>3. /\ cacheDir' = [cacheDir EXCEPT ![n] = tmpDir[n]]
        /\ tmpDir' = [tmpDir EXCEPT ![n] = None]
    BY <1>2 DEF Complete, MoveToCache
  <1>. QED
    BY <1>1, <1>2, <1>3

\* A step of the only request: the others are not there before or after it.
LEMMA StepPaths ==
  ASSUME PathInv, ~Overlap, [Next]_vars
  PROVE  PathsInStep'
  <1>. USE ConstantsAssumption DEF PathInv, AnyInv, TypeOK
  <1>1. ASSUME NEW u \in Urls, DownloadVideo(u)
        PROVE  PathsInStep'
    <2>. DEFINE n == NameOf[u]
    <2>1. \A k \in Slots : ~Live(k)
      BY <1>1 DEF DownloadVideo
    <2>2. CASE cacheDir[n] # None
      BY <1>1, <2>1, <2>2 DEF DownloadVideo, PathsInStep, Live
    <2>3. CASE cacheDir[n] = None
      <3>1. /\ tmpPath' = n /\ cachePath' = n /\ handle' = <<"tmp", n>>
            /\ tmpDir'[n] # None /\ cacheDir'[n] = None
        BY <1>1, <2>3, StartFacts
      <3>2. PICK k \in Slots : /\ task' = [task EXCEPT ![k] = NewTask(u, Len(tmpDir'[n]))]
                               /\ task'[k] = NewTask(u, Len(tmpDir'[n]))
        BY <1>1, <2>3, StartFacts
      <3>3. \A j \in Slots : Live(j)' => j = k
        BY <2>1, <3>2 DEF Live
      <3>4. task'[k].url = u
        BY <3>2 DEF NewTask
      <3>. QED
        BY <3>1, <3>3, <3>4 DEF PathsInStep
    <2>. QED
      BY <2>2, <2>3
  <1>2. ASSUME NEW k \in Slots, Respond(k)
        PROVE  PathsInStep'
    <2>. Live(k)
      BY <1>2 DEF Respond, Sent
    <2>1. PICK r \in Responses : task' = [task EXCEPT ![k] = Answered(task[k], r)]
      BY <1>2 DEF Respond
    <2>2. task'[k].url = task[k].url
      BY <2>1 DEF Answered
    <2>3. \A j \in Slots : Live(j)' => j = k
      BY <2>1, LiveFacts DEF Live
    <2>. QED
      BY <1>2, <2>2, <2>3, LiveFacts DEF Respond, PathsInStep
  <1>3. ASSUME NEW k \in Slots, ReceiveData(k)
        PROVE  PathsInStep'
    <2>. DEFINE n == NameOf[task[k].url]
    <2>1. Live(k) /\ tmpDir'[n] # None /\ cacheDir' = cacheDir
      BY <1>3, AppendStep
    <2>2. task'[k].url = task[k].url
      BY <1>3, WriteFacts DEF ReceiveData, Tasks
    <2>3. \A j \in Slots : Live(j)' => j = k
      BY <1>3, <2>1, LiveFacts DEF ReceiveData, Live
    <2>4. /\ tmpPath = n /\ cachePath = n /\ handle = <<"tmp", n>> /\ cacheDir[n] = None
          /\ tmpPath' = tmpPath /\ cachePath' = cachePath /\ handle' = handle
      BY <1>3, <2>1, LiveFacts DEF ReceiveData
    <2>. QED
      BY <2>1, <2>2, <2>3, <2>4 DEF PathsInStep
  <1>4. ASSUME NEW k \in Slots, CompleteWithError(k) \/ Complete(k)
        PROVE  PathsInStep'
    <2>1. Live(k) /\ task' = [task EXCEPT ![k] = None]
      BY <1>4 DEF CompleteWithError, Complete, Receiving
    <2>2. \A j \in Slots : ~Live(j)'
      BY <2>1, LiveFacts DEF Live
    <2>. QED
      BY <2>2 DEF PathsInStep
  <1>5. CASE CancelDownloadActions
    <2>1. ASSUME NEW k \in Slots, Live(k)'
          PROVE  Live(k) /\ task'[k].url = task[k].url
      <3>1. Live(k)
        BY <1>5, <2>1 DEF CancelDownloadActions, Live
      <3>2. task'[k] = [task[k] EXCEPT !.cancelled = TRUE]
        BY <1>5, <3>1 DEF CancelDownloadActions
      <3>. QED
        BY <3>1, <3>2, LiveFacts DEF Tasks
    <2>. QED
      BY <1>5, <2>1, LiveFacts DEF CancelDownloadActions, PathsInStep
  <1>6. CASE ClearCachedVideos
    <2>1. \A k \in Slots : Live(k)' = Live(k)
      BY <1>6 DEF ClearCachedVideos, Live
    <2>2. \A k \in Slots : Live(k) => handle' = handle
      BY <1>6, LiveFacts DEF ClearCachedVideos
    <2>. QED
      BY <1>6, <2>1, <2>2, LiveFacts DEF ClearCachedVideos, PathsInStep
  <1>7. CASE Restart
    BY <1>7 DEF Restart, PathsInStep, Live
  <1>8. CASE UNCHANGED vars
    BY <1>8 DEF vars, PathsInStep, Live
  <1>. QED
    BY <1>1, <1>2, <1>3, <1>4, <1>5, <1>6, <1>7, <1>8 DEF Next

LEMMA StepPlace ==
  ASSUME PathInv, ~Overlap, [Next]_vars, NEW n \in Names
  PROVE  tmpDir'[n] = None \/ cacheDir'[n] = None
  <1>. TypeOK /\ (tmpDir[n] = None \/ cacheDir[n] = None) /\ AnyInv
    BY DEF PathInv, AnyInv, OnePlace
  <1>1. CASE tmpDir'[n] \in {tmpDir[n], None} /\ cacheDir'[n] \in {cacheDir[n], None}
    BY <1>1
  <1>2. ASSUME NEW u \in Urls, DownloadVideo(u)
        PROVE  tmpDir'[n] = None \/ cacheDir'[n] = None
    <2>1. CASE cacheDir[NameOf[u]] # None
      BY <1>1, <1>2, <2>1 DEF DownloadVideo
    <2>2. CASE cacheDir[NameOf[u]] = None
      <3>1. /\ NameOf[u] \in Names /\ cacheDir' = cacheDir
            /\ tmpDir' = [tmpDir EXCEPT ![NameOf[u]] = IF @ = None THEN <<>> ELSE @]
        BY <1>2, <2>2, StartFacts
      <3>. QED
        BY <1>1, <2>2, <3>1 DEF TypeOK
    <2>. QED
      BY <2>1, <2>2
  <1>3. ASSUME NEW k \in Slots, ReceiveData(k)
        PROVE  tmpDir'[n] = None \/ cacheDir'[n] = None
    <2>1. Live(k) /\ cacheDir' = cacheDir
          /\ \A m \in Names : m # NameOf[task[k].url] => tmpDir'[m] = tmpDir[m]
      BY <1>3, AppendStep
    <2>2. cacheDir[NameOf[task[k].url]] = None
      BY <2>1, LiveFacts
    <2>. QED
      BY <1>1, <2>1, <2>2
  <1>4. ASSUME NEW k \in Slots, Complete(k)
        PROVE  tmpDir'[n] = None \/ cacheDir'[n] = None
    <2>. DEFINE m == NameOf[task[k].url]
    <2>1. /\ m \in Names
          /\ cacheDir' = [cacheDir EXCEPT ![m] = tmpDir[m]]
          /\ tmpDir' = [tmpDir EXCEPT ![m] = None]
      BY <1>4, MoveStep
    <2>. HIDE DEF m
    <2>. QED
      BY <1>1, <2>1 DEF TypeOK
  <1>5. ASSUME NEW k \in Slots, Respond(k) \/ CompleteWithError(k)
        PROVE  tmpDir'[n] = None \/ cacheDir'[n] = None
    BY <1>1, <1>5 DEF Respond, CompleteWithError
  <1>6. CASE CancelDownloadActions \/ ClearCachedVideos \/ Restart \/ UNCHANGED vars
    BY <1>1, <1>6 DEF CancelDownloadActions, ClearCachedVideos, Restart, vars
  <1>. QED
    BY <1>2, <1>3, <1>4, <1>5, <1>6 DEF Next

\* One video at a time: the shared paths and handle always belong to the request
\* alive, whatever servers answer and however names collide.
THEOREM PathInvariance ==
  ASSUME ~Overlap
  PROVE  Spec => []PathInv
  <1>1. Init => PathInv
    BY InitIInv DEF IInv
  <1>2. PathInv /\ [Next]_vars => PathInv'
    BY AnyType, AnyHandle, AnyBody, StepPaths, StepPlace DEF PathInv, AnyInv, OnePlace
  <1>. QED
    BY <1>1, <1>2, PTL DEF Spec

\* ... so a request that completes leaves its video in the cache: its tmp file is
\* there to be moved, and nothing is in the way.
THEOREM CompletedIsCached ==
  ASSUME ~Overlap
  PROVE  Spec => CompletionCaches
  <1>1. ASSUME PathInv, NEW k \in Slots, Complete(k)
        PROVE  cacheDir'[NameOf[task[k].url]] # None
    <2>. DEFINE n == NameOf[task[k].url]
    <2>1. /\ n \in Names /\ tmpDir[n] # None
          /\ cacheDir' = [cacheDir EXCEPT ![n] = tmpDir[n]]
      BY <1>1, MoveStep
    <2>2. cacheDir \in [Names -> Seq(Pieces) \cup {None}]
      BY <1>1 DEF PathInv, AnyInv, TypeOK
    <2>. HIDE DEF n
    <2>3. cacheDir'[n] # None
      BY <2>1, <2>2
    <2>. QED
      BY <2>3 DEF n
  <1>2. PathInv /\ [Next]_vars => [\A k \in Slots : Complete(k) => cacheDir'[NameOf[task[k].url]] # None]_vars
    BY <1>1
  <1>. QED
    BY <1>2, PathInvariance, PTL DEF Spec, CompletionCaches

\* How much of a video is in one of the two directories.
Stored(file) == IF file = None THEN 0 ELSE Len(file)

LEMMA StoredNat ==
  ASSUME TypeOK, NEW n \in Names
  PROVE  Stored(tmpDir[n]) \in Nat /\ Stored(cacheDir[n]) \in Nat
  BY DEF TypeOK, Stored

\* A step of a request adds to what is held, or moves it.
LEMMA HeldStep ==
  ASSUME PathInv, [Next]_vars, ~ClearCachedVideos, ~Restart, NEW n \in Names
  PROVE  Held(n)' >= Held(n)
  <1>1. /\ Held(n) = Stored(tmpDir[n]) + Stored(cacheDir[n])
        /\ Held(n)' = Stored(tmpDir'[n]) + Stored(cacheDir'[n])
    BY DEF Held, Stored
  <1>2. Stored(tmpDir[n]) \in Nat /\ Stored(cacheDir[n]) \in Nat
    BY StoredNat DEF PathInv, AnyInv
  <1>3. TypeOK
    BY DEF PathInv, AnyInv
  <1>4. CASE tmpDir'[n] = tmpDir[n] /\ cacheDir'[n] = cacheDir[n]
    BY <1>1, <1>2, <1>4
  <1>5. ASSUME NEW u \in Urls, DownloadVideo(u)
        PROVE  Held(n)' >= Held(n)
    <2>1. cacheDir' = cacheDir
      BY <1>5 DEF DownloadVideo
    <2>2. tmpDir'[n] = tmpDir[n] \/ (tmpDir[n] = None /\ tmpDir'[n] = <<>>)
      BY <1>3, <1>5, ConstantsAssumption DEF DownloadVideo, StartRequest, TypeOK
    <2>3. CASE tmpDir[n] = None /\ tmpDir'[n] = <<>>
      <3>1. Stored(tmpDir[n]) = 0 /\ Stored(tmpDir'[n]) = 0
        BY <2>3, EmptyFile DEF Stored
      <3>. QED
        BY <1>1, <1>2, <2>1, <3>1
    <2>. QED
      BY <1>4, <2>1, <2>2, <2>3
  <1>6. ASSUME NEW k \in Slots, ReceiveData(k)
        PROVE  Held(n)' >= Held(n)
    <2>. DEFINE m == NameOf[task[k].url]
    <2>1. /\ Live(k) /\ cacheDir' = cacheDir /\ tmpDir'[m] # None
          /\ Len(tmpDir'[m]) = Len(tmpDir[m]) + 1
          /\ n # m => tmpDir'[n] = tmpDir[n]
      BY <1>6, AppendStep
    <2>2. tmpDir[m] # None
      BY <2>1, LiveFacts
    <2>. HIDE DEF m
    <2>3. CASE n # m
      BY <1>4, <2>1, <2>3
    <2>4. CASE n = m
      <3>1. Stored(tmpDir'[n]) = Stored(tmpDir[n]) + 1
        BY <2>1, <2>2, <2>4 DEF Stored
      <3>. QED
        BY <1>1, <1>2, <2>1, <3>1
    <2>. QED
      BY <2>3, <2>4
  <1>7. ASSUME NEW k \in Slots, Complete(k)
        PROVE  Held(n)' >= Held(n)
    <2>. DEFINE m == NameOf[task[k].url]
    <2>1. /\ m \in Names /\ cacheDir[m] = None
          /\ cacheDir' = [cacheDir EXCEPT ![m] = tmpDir[m]]
          /\ tmpDir' = [tmpDir EXCEPT ![m] = None]
      BY <1>7, MoveStep
    <2>. HIDE DEF m
    <2>2. CASE n # m
      BY <1>3, <1>4, <2>1, <2>2 DEF TypeOK
    <2>3. CASE n = m
      <3>1. cacheDir'[n] = tmpDir[n] /\ tmpDir'[n] = None /\ cacheDir[n] = None
        BY <1>3, <2>1, <2>3 DEF TypeOK
      <3>2. Stored(tmpDir'[n]) = 0 /\ Stored(cacheDir[n]) = 0
        BY <3>1 DEF Stored
      <3>3. Stored(cacheDir'[n]) = Stored(tmpDir[n])
        BY <3>1
      <3>. QED
        BY <1>1, <1>2, <3>2, <3>3
    <2>. QED
      BY <2>2, <2>3
  <1>8. ASSUME NEW k \in Slots, Respond(k) \/ CompleteWithError(k)
        PROVE  Held(n)' >= Held(n)
    BY <1>4, <1>8 DEF Respond, CompleteWithError
  <1>9. CASE CancelDownloadActions \/ UNCHANGED vars
    BY <1>4, <1>9 DEF CancelDownloadActions, vars
  <1>. QED
    BY <1>5, <1>6, <1>7, <1>8, <1>9 DEF Next

\* Nothing that was downloaded is thrown away, unless the app clears the cache or
\* the system its directories: an error, a cancellation or a new request finds it.
THEOREM NothingIsLost ==
  ASSUME ~Overlap
  PROVE  Spec => NothingLost
  <1>1. PathInv /\ [Next]_vars =>
           [ClearCachedVideos \/ Restart \/ \A n \in Names : Held(n)' >= Held(n)]_vars
    BY HeldStep
  <1>. QED
    BY <1>1, PathInvariance, PTL DEF Spec, NothingLost

-----------------------------------------------------------------------------
(* The environment the class is written for.                                 *)

\* What a request knows, moreover, about its body.
LEMMA BodyFacts ==
  ASSUME IInv, NEW k \in Slots, Live(k)
  PROVE  /\ ~task[k].junk /\ task[k].next = Len(tmpDir[NameOf[task[k].url]]) + 1
         /\ Receiving(k) => task[k].last = Size
  BY DEF IInv, BodyInStep

\* A step of the request leaves it in step with its tmp file.
LEMMA StepBody ==
  ASSUME IInv, WellBehaved, [Next]_vars
  PROVE  BodyInStep'
  <1>. PathInv /\ AnyInv /\ BodyInStep
    BY DEF IInv, PathInv
  <1>1. ASSUME NEW u \in Urls, DownloadVideo(u)
        PROVE  BodyInStep'
    <2>1. \A k \in Slots : ~Live(k)
      BY <1>1 DEF DownloadVideo, WellBehaved
    <2>2. CASE cacheDir[NameOf[u]] # None
      BY <1>1, <2>1, <2>2 DEF DownloadVideo, BodyInStep, Live
    <2>3. CASE cacheDir[NameOf[u]] = None
      <3>. DEFINE from == Len(tmpDir'[NameOf[u]])
      <3>1. PICK k \in Slots : /\ task' = [task EXCEPT ![k] = NewTask(u, from)]
                               /\ task'[k] = NewTask(u, from)
        BY <1>1, <2>3, StartFacts
      <3>2. \A j \in Slots : Live(j)' => j = k
        BY <2>1, <3>1 DEF Live
      <3>. HIDE DEF from
      <3>3. /\ task'[k].url = u /\ ~task'[k].junk /\ task'[k].next = from + 1
            /\ task'[k].state = "sent"
        BY <3>1 DEF NewTask
      <3>4. ~Receiving(k)'
        BY <3>3 DEF Receiving
      <3>. QED
        BY <3>2, <3>3, <3>4 DEF BodyInStep, from
    <2>. QED
      BY <2>2, <2>3
  <1>2. ASSUME NEW k \in Slots, Respond(k)
        PROVE  BodyInStep'
    <2>. Live(k)
      BY <1>2 DEF Respond, Sent
    <2>1. task' = [task EXCEPT ![k] = Answered(task[k], "range")] /\ task \in [Slots -> Tasks \cup {None}]
      BY <1>2 DEF Respond, WellBehaved, AnyInv, TypeOK
    <2>2. /\ task'[k].url = task[k].url /\ ~task'[k].junk
          /\ task'[k].next = task[k].next /\ task'[k].last = Size
      BY <2>1 DEF Answered
    <2>3. \A j \in Slots : Live(j)' => j = k
      BY <2>1, LiveFacts DEF Live
    <2>. QED
      BY <1>2, <2>2, <2>3, BodyFacts DEF Respond, BodyInStep
  <1>3. ASSUME NEW k \in Slots, ReceiveData(k)
        PROVE  BodyInStep'
    <2>. DEFINE n == NameOf[task[k].url]
    <2>1. Live(k) /\ Receiving(k) /\ Len(tmpDir'[n]) = Len(tmpDir[n]) + 1
      BY <1>3, AppendStep
    <2>2. task' = [task EXCEPT ![k].next = task[k].next + 1]
      BY <1>3 DEF ReceiveData
    <2>3. /\ task'[k].url = task[k].url /\ task'[k].junk = task[k].junk
          /\ task'[k].next = task[k].next + 1 /\ task'[k].last = task[k].last
      BY <2>1, <2>2, LiveFacts DEF Tasks, AnyInv, TypeOK
    <2>4. \A j \in Slots : Live(j)' => j = k
      BY <2>1, <2>2, LiveFacts DEF Live, AnyInv, TypeOK
    <2>5. ~task[k].junk /\ task[k].next = Len(tmpDir[n]) + 1 /\ task[k].last = Size
      BY <2>1, BodyFacts
    <2>. HIDE DEF n
    <2>6. NameOf[task'[k].url] = n
      BY <2>3 DEF n
    <2>. QED
      BY <2>1, <2>3, <2>4, <2>5, <2>6 DEF BodyInStep
  <1>4. ASSUME NEW k \in Slots, CompleteWithError(k) \/ Complete(k)
        PROVE  BodyInStep'
    <2>1. Live(k) /\ task' = [task EXCEPT ![k] = None] /\ task \in [Slots -> Tasks \cup {None}]
      BY <1>4 DEF CompleteWithError, Complete, Receiving, AnyInv, TypeOK
    <2>2. \A j \in Slots : ~Live(j)'
      BY <2>1, LiveFacts DEF Live
    <2>. QED
      BY <2>2 DEF BodyInStep
  <1>5. CASE CancelDownloadActions
    <2>1. ASSUME NEW k \in Slots, Live(k)'
          PROVE  /\ Live(k) /\ task'[k].url = task[k].url /\ task'[k].junk = task[k].junk
                 /\ task'[k].next = task[k].next /\ task'[k].last = task[k].last
                 /\ task'[k].state = task[k].state
      <3>1. Live(k)
        BY <1>5, <2>1 DEF CancelDownloadActions, Live
      <3>2. task'[k] = [task[k] EXCEPT !.cancelled = TRUE]
        BY <1>5, <3>1 DEF CancelDownloadActions
      <3>. QED
        BY <3>1, <3>2, LiveFacts DEF Tasks
    <2>2. \A k \in Slots : Live(k)' /\ Receiving(k)' => Receiving(k)
      BY <2>1 DEF Receiving
    <2>. QED
      BY <1>5, <2>1, <2>2, BodyFacts DEF CancelDownloadActions, BodyInStep
  <1>6. CASE ClearCachedVideos \/ UNCHANGED vars
    BY <1>6 DEF ClearCachedVideos, vars, BodyInStep, Live, Receiving
  <1>7. CASE Restart
    BY <1>7 DEF Restart, BodyInStep, Live
  <1>. QED
    BY <1>1, <1>2, <1>3, <1>4, <1>5, <1>6, <1>7 DEF Next

LEMMA StepTmp ==
  ASSUME IInv, WellBehaved, [Next]_vars
  PROVE  TmpIsPrefix'
  <1>. PathInv /\ AnyInv /\ TmpIsPrefix
    BY DEF IInv, PathInv
  <1>. USE ConstantsAssumption
  <1>1. ASSUME NEW u \in Urls, DownloadVideo(u)
        PROVE  TmpIsPrefix'
    <2>1. \A n \in Names : tmpDir'[n] = tmpDir[n] \/ tmpDir'[n] = <<>>
      BY <1>1 DEF DownloadVideo, StartRequest, AnyInv, TypeOK
    <2>2. Len(<<>>) = 0 /\ 1 .. 0 = {}
      OBVIOUS
    <2>. QED
      BY <2>1, <2>2 DEF TmpIsPrefix
  <1>2. ASSUME NEW k \in Slots, ReceiveData(k)
        PROVE  TmpIsPrefix'
    <2>. DEFINE v == task[k].url
                n == NameOf[v]
    <2>1. /\ Live(k) /\ Receiving(k) /\ n \in Names /\ Piece(k) \in Pieces
          /\ tmpDir'[n] = Append(tmpDir[n], Piece(k))
          /\ \A m \in Names : m # n => tmpDir'[m] = tmpDir[m]
      BY <1>2, AppendStep
    <2>2. v \in Urls /\ tmpDir[n] \in Seq(Pieces) /\ tmpDir[n] # None
      BY <2>1, LiveFacts
    <2>3. Len(tmpDir[n]) + 1 <= Size /\ Piece(k) = <<v, Len(tmpDir[n]) + 1>>
      BY <1>2, <2>1, BodyFacts DEF ReceiveData, Piece
    <2>. HIDE DEF n
    <2>4. /\ Len(tmpDir'[n]) = Len(tmpDir[n]) + 1
          /\ tmpDir'[n][Len(tmpDir[n]) + 1] = <<v, Len(tmpDir[n]) + 1>>
          /\ \A i \in 1 .. Len(tmpDir[n]) : tmpDir'[n][i] = tmpDir[n][i]
      <3>1. /\ Len(Append(tmpDir[n], Piece(k))) = Len(tmpDir[n]) + 1
            /\ Append(tmpDir[n], Piece(k))[Len(tmpDir[n]) + 1] = Piece(k)
            /\ \A i \in 1 .. Len(tmpDir[n]) : Append(tmpDir[n], Piece(k))[i] = tmpDir[n][i]
        BY ONLY <2>1, <2>2, AppendFacts
      <3>. HIDE DEF v
      <3>. QED
        BY <2>1, <2>3, <3>1, Zenon
    <2>5. \A i \in 1 .. Len(tmpDir[n]) : tmpDir[n][i] = <<v, i>>
      BY <2>2 DEF TmpIsPrefix, n
    <2>6. \A i \in 1 .. Len(tmpDir'[n]) : tmpDir'[n][i] = <<v, i>>
      <3>1. Len(tmpDir[n]) \in Nat
        BY <2>2
      <3>2. ASSUME NEW i \in 1 .. Len(tmpDir'[n]), i # Len(tmpDir[n]) + 1
            PROVE  i \in 1 .. Len(tmpDir[n])
        <4>. HIDE DEF v
        <4>1. i \in 1 .. Len(tmpDir[n]) + 1
          BY <2>4
        <4>. QED
          BY <3>1, <3>2, <4>1
      <3>. QED
        BY <2>4, <2>5, <3>2
    <2>7. ASSUME NEW u \in Urls, u # v
          PROVE  tmpDir'[NameOf[u]] = tmpDir[NameOf[u]]
      BY <2>1, <2>2, <2>7 DEF WellBehaved, n
    <2>8. \A u \in Urls : u = v => NameOf[u] = n
      BY DEF n
    <2>. HIDE DEF v
    <2>. QED
      BY <2>2, <2>3, <2>4, <2>6, <2>7, <2>8 DEF TmpIsPrefix
  <1>3. ASSUME NEW k \in Slots, Respond(k) \/ CompleteWithError(k)
        PROVE  TmpIsPrefix'
    BY <1>3 DEF Respond, CompleteWithError, TmpIsPrefix
  <1>4. ASSUME NEW k \in Slots, Complete(k)
        PROVE  TmpIsPrefix'
    <2>1. \A n \in Names : tmpDir'[n] = tmpDir[n] \/ tmpDir'[n] = None
      BY <1>4 DEF Complete, MoveToCache, AnyInv, TypeOK
    <2>. QED
      BY <2>1 DEF TmpIsPrefix
  <1>5. CASE CancelDownloadActions \/ ClearCachedVideos \/ UNCHANGED vars
    BY <1>5 DEF CancelDownloadActions, ClearCachedVideos, vars, TmpIsPrefix
  <1>6. CASE Restart
    <2>1. \A n \in Names : tmpDir'[n] = tmpDir[n] \/ tmpDir'[n] = None
      BY <1>6 DEF Restart
    <2>. QED
      BY <2>1 DEF TmpIsPrefix
  <1>. QED
    BY <1>1, <1>2, <1>3, <1>4, <1>5, <1>6 DEF Next

\* The request that completes has the whole video in its tmp file.
LEMMA MovedIsWhole ==
  ASSUME IInv, NEW k \in Slots, Complete(k)
  PROVE  tmpDir[NameOf[task[k].url]] = Whole(task[k].url)
  <1>. DEFINE v == task[k].url
              file == tmpDir[NameOf[v]]
  <1>1. Live(k) /\ Receiving(k) /\ v \in Urls /\ file \in Seq(Pieces) /\ file # None
    BY LiveFacts DEF IInv, Complete, Receiving
  <1>2. Len(file) <= Size /\ \A i \in 1 .. Len(file) : file[i] = <<v, i>>
    BY <1>1 DEF IInv, TmpIsPrefix
  <1>3. task[k].next > Size /\ task[k].next = Len(file) + 1
    BY <1>1, BodyFacts DEF Complete
  <1>4. file = [i \in 1 .. Len(file) |-> file[i]]
    BY <1>1, SequenceIsFunction
  <1>. HIDE DEF v, file
  <1>5. Len(file) = Size
    BY <1>1, <1>2, <1>3, ConstantsAssumption
  <1>6. file = [i \in 1 .. Size |-> <<v, i>>]
    BY <1>2, <1>4, <1>5
  <1>. QED
    BY <1>6 DEF Whole, v, file

LEMMA StepCache ==
  ASSUME IInv, WellBehaved, [Next]_vars
  PROVE  CacheFaithful'
  <1>. PathInv /\ AnyInv /\ CacheFaithful
    BY DEF IInv, PathInv
  <1>. USE ConstantsAssumption
  <1>1. ASSUME NEW u \in Urls, DownloadVideo(u)
        PROVE  CacheFaithful'
    BY <1>1 DEF DownloadVideo, CacheFaithful, Whole
  <1>2. ASSUME NEW k \in Slots, ReceiveData(k)
        PROVE  CacheFaithful'
    BY <1>2, AppendStep DEF CacheFaithful, Whole
  <1>3. ASSUME NEW k \in Slots, Respond(k) \/ CompleteWithError(k)
        PROVE  CacheFaithful'
    BY <1>3 DEF Respond, CompleteWithError, CacheFaithful, Whole
  <1>4. ASSUME NEW k \in Slots, Complete(k)
        PROVE  CacheFaithful'
    <2>. DEFINE v == task[k].url
                n == NameOf[v]
    <2>1. n \in Names /\ cacheDir' = [cacheDir EXCEPT ![n] = tmpDir[n]]
      BY <1>4, MoveStep
    <2>2. tmpDir[n] = Whole(v) /\ v \in Urls
      BY <1>4, MovedIsWhole, LiveFacts DEF Complete, Receiving
    <2>3. cacheDir'[n] = Whole(v) /\ \A m \in Names : m # n => cacheDir'[m] = cacheDir[m]
      BY <2>1, <2>2 DEF AnyInv, TypeOK
    <2>4. \A u \in Urls : u # v => NameOf[u] # n /\ NameOf[u] \in Names
      BY <2>2 DEF WellBehaved
    <2>. HIDE DEF v, n
    <2>. QED
      BY <2>3, <2>4 DEF CacheFaithful, Whole, n
  <1>5. CASE CancelDownloadActions \/ UNCHANGED vars
    BY <1>5 DEF CancelDownloadActions, vars, CacheFaithful, Whole
  <1>6. CASE ClearCachedVideos \/ Restart
    <2>1. \A n \in Names : cacheDir'[n] = cacheDir[n] \/ cacheDir'[n] = None
      BY <1>6 DEF ClearCachedVideos, Restart
    <2>2. \A u \in Urls : Whole(u)' = Whole(u)
      BY DEF Whole
    <2>. QED
      BY <2>1, <2>2 DEF CacheFaithful
  <1>. QED
    BY <1>1, <1>2, <1>3, <1>4, <1>5, <1>6 DEF Next

\* With servers that honour Range and names that do not collide, moreover, the tmp
\* file of a video is a prefix of it and the request alive continues it.
THEOREM Invariance ==
  ASSUME WellBehaved
  PROVE  Spec => []IInv
  <1>1. Init => IInv
    BY InitIInv
  <1>2. IInv /\ [Next]_vars => IInv'
    <2>1. IInv /\ [Next]_vars => PathInv'
      BY AnyType, AnyHandle, AnyBody, StepPaths, StepPlace DEF IInv, PathInv, AnyInv, OnePlace, WellBehaved
    <2>. QED
      BY <2>1, StepBody, StepTmp, StepCache DEF IInv
  <1>. QED
    BY <1>1, <1>2, PTL DEF Spec

\* ... so a file of the cache is the whole video, whatever errors, cancellations
\* and restarts interrupted its download.
THEOREM CachedVideos ==
  ASSUME WellBehaved
  PROVE  Spec => []CacheFaithful
  <1>1. IInv => CacheFaithful
    BY DEF IInv
  <1>. QED
    BY <1>1, Invariance, PTL

-----------------------------------------------------------------------------
(* The files, the paths and the requests implement a store of videos.        *)

\* What the refinement mapping makes of a file.
LEMMA StoreHeld ==
  ASSUME PathInv, NEW u \in Urls
  PROVE  /\ NameOf[u] \in Names
         /\ u \in KeptVideos <=> cacheDir[NameOf[u]] # None
         /\ Held(NameOf[u]) = Stored(tmpDir[NameOf[u]]) + Stored(cacheDir[NameOf[u]])
         /\ Held(NameOf[u]) \in Nat
         /\ cacheDir[NameOf[u]] # None => Stored(tmpDir[NameOf[u]]) = 0
         /\ cacheDir[NameOf[u]] = None => Stored(cacheDir[NameOf[u]]) = 0
  <1>1. NameOf[u] \in Names
    BY ConstantsAssumption
  <1>2. Stored(tmpDir[NameOf[u]]) \in Nat /\ Stored(cacheDir[NameOf[u]]) \in Nat
    BY <1>1, StoredNat DEF PathInv, AnyInv
  <1>3. Held(NameOf[u]) = Stored(tmpDir[NameOf[u]]) + Stored(cacheDir[NameOf[u]])
    BY DEF Held, Stored
  <1>4. Held(NameOf[u]) \in Nat
    BY <1>2, <1>3
  <1>5. tmpDir[NameOf[u]] = None \/ cacheDir[NameOf[u]] = None
    BY <1>1 DEF PathInv, OnePlace
  <1>6. /\ cacheDir[NameOf[u]] # None => Stored(tmpDir[NameOf[u]]) = 0
        /\ cacheDir[NameOf[u]] = None => Stored(cacheDir[NameOf[u]]) = 0
    BY <1>5 DEF Stored
  <1>7. u \in KeptVideos <=> cacheDir[NameOf[u]] # None
    BY DEF KeptVideos
  <1>. QED
    BY <1>1, <1>3, <1>4, <1>6, <1>7

LEMMA StoreInit ==
  ASSUME Init
  PROVE  Store!Init
  <1>1. \A u \in Urls : NameOf[u] \in Names
    BY ConstantsAssumption
  <1>2. \A u \in Urls : Held(NameOf[u]) = 0
    <2>1. \A n \in Names : tmpDir[n] = None /\ cacheDir[n] = None
      BY DEF Init
    <2>2. ASSUME NEW n \in Names
          PROVE  Held(n) = 0
      <3>1. Held(n) = 0 + 0
        BY <2>1 DEF Held
      <3>. QED
        BY <3>1
    <2>. QED
      BY <1>1, <2>2
  <1>3. KeptVideos = {} /\ Fetching = {}
    BY <1>1 DEF Init, KeptVideos, Fetching, Live
  <1>. QED
    BY <1>2, <1>3 DEF Store!Init

\* A step that changes neither the files nor the requests that are alive.
LEMMA StoreStutters ==
  ASSUME \A u \in Urls : Held(NameOf[u])' = Held(NameOf[u]),
         KeptVideos' = KeptVideos, Fetching' = Fetching
  PROVE  UNCHANGED Store!vars
  BY DEF Store!vars

\* The URL of the request alive.
LEMMA FetchingOne ==
  ASSUME PathInv, NEW k \in Slots, Live(k)
  PROVE  Fetching = {task[k].url}
  BY LiveFacts DEF Fetching

LEMMA StoreOpen ==
  ASSUME PathInv, ~Overlap, NEW u \in Urls, DownloadVideo(u)
  PROVE  Store!Open(u) \/ UNCHANGED Store!vars
  <1>1. \A k \in Slots : ~Live(k)
    BY DEF DownloadVideo
  <1>2. CASE cacheDir[NameOf[u]] # None
    <2>1. UNCHANGED <<tmpDir, cacheDir, task>>
      BY <1>2 DEF DownloadVideo
    <2>. QED
      BY <2>1, StoreStutters DEF Held, KeptVideos, Fetching, Live
  <1>3. CASE cacheDir[NameOf[u]] = None
    <2>1. /\ NameOf[u] \in Names /\ cacheDir' = cacheDir
          /\ tmpDir' = [tmpDir EXCEPT ![NameOf[u]] = IF @ = None THEN <<>> ELSE @]
      BY <1>3, StartFacts DEF PathInv
    <2>2. \A v \in Urls : Held(NameOf[v])' = Held(NameOf[v])
      <3>1. ASSUME NEW v \in Urls
            PROVE  Stored(tmpDir'[NameOf[v]]) = Stored(tmpDir[NameOf[v]])
        <4>1. NameOf[v] \in Names /\ tmpDir \in [Names -> Seq(Pieces) \cup {None}]
          BY ConstantsAssumption DEF PathInv, AnyInv, TypeOK
        <4>2. \/ tmpDir'[NameOf[v]] = tmpDir[NameOf[v]]
              \/ tmpDir[NameOf[v]] = None /\ tmpDir'[NameOf[v]] = <<>>
          BY <2>1, <4>1
        <4>. QED
          BY <4>2, EmptyFile DEF Stored
      <3>. QED
        BY <2>1, <3>1 DEF Held, Stored
    <2>3. KeptVideos' = KeptVideos /\ u \notin KeptVideos
      BY <1>3, <2>1 DEF KeptVideos
    <2>4. Fetching = {} /\ Fetching' = {u}
      <3>1. PICK k \in Slots : /\ task' = [task EXCEPT ![k] = NewTask(u, Len(tmpDir'[NameOf[u]]))]
                               /\ task'[k] = NewTask(u, Len(tmpDir'[NameOf[u]]))
                               /\ task'[k] \in Tasks
        BY <1>3, StartFacts DEF PathInv
      <3>2. \A j \in Slots : Live(j)' => j = k
        BY <1>1, <3>1 DEF Live
      <3>3. task'[k].url = u
        BY <3>1 DEF NewTask
      <3>4. Live(k)'
        <4>1. task'[k] # None
          BY <3>1, NoneAssumption
        <4>. QED
          BY <4>1 DEF Live
      <3>. QED
        BY <1>1, <3>2, <3>3, <3>4 DEF Fetching
    <2>. QED
      BY <2>2, <2>3, <2>4 DEF Store!Open
  <1>. QED
    BY <1>2, <1>3

LEMMA StoreFetch ==
  ASSUME IInv, WellBehaved, NEW k \in Slots, ReceiveData(k), NEW v \in Urls, task[k].url = v
  PROVE  Store!Fetch(v)
  <1>. DEFINE n == NameOf[v]
  <1>. PathInv
    BY DEF IInv
  <1>1. /\ Live(k) /\ Receiving(k) /\ n \in Names /\ cacheDir' = cacheDir
        /\ tmpDir'[n] # None /\ Len(tmpDir'[n]) = Len(tmpDir[n]) + 1
        /\ \A m \in Names : m # n => tmpDir'[m] = tmpDir[m]
    BY AppendStep
  <1>2. /\ tmpDir[n] # None /\ tmpDir[n] \in Seq(Pieces) /\ cacheDir[n] = None
        /\ Len(tmpDir[n]) \in Nat
    BY <1>1, LiveFacts
  <1>3. Len(tmpDir[n]) < Size
    <2>1. task[k].next <= Size /\ task[k].next = Len(tmpDir[n]) + 1
      BY <1>1, BodyFacts DEF ReceiveData
    <2>. HIDE DEF n
    <2>. QED
      BY <1>2, <2>1, ConstantsAssumption
  <1>4. Held(n) = Len(tmpDir[n]) /\ Held(n)' = Len(tmpDir[n]) + 1
    <2>. HIDE DEF n
    <2>1. n' = n
      BY DEF n
    <2>2. Held(n) = Len(tmpDir[n]) + 0
      BY <1>2 DEF Held
    <2>3. Held(n)' = Len(tmpDir'[n]) + 0
      BY <1>1, <1>2, <2>1 DEF Held
    <2>. QED
      BY <1>1, <1>2, <2>2, <2>3
  <1>5. ASSUME NEW u \in Urls, u # v
        PROVE  Held(NameOf[u])' = Held(NameOf[u])
    <2>1. NameOf[u] \in Names /\ NameOf[u] # n
      BY <1>5, ConstantsAssumption DEF WellBehaved
    <2>. QED
      BY <1>1, <2>1 DEF Held
  <1>6. KeptVideos' = KeptVideos
    BY <1>1 DEF KeptVideos
  <1>7. Fetching = {v} /\ Fetching' = {v}
    <2>1. Fetching = {v}
      BY <1>1, FetchingOne
    <2>2. task'[k].url = v /\ Live(k)'
      <3>1. task[k] \in Tasks /\ task' = [task EXCEPT ![k].next = task[k].next + 1]
        BY <1>1, LiveFacts DEF ReceiveData
      <3>. QED
        BY <3>1, NoneAssumption DEF Live, Tasks, PathInv, AnyInv, TypeOK
    <2>3. \A j \in Slots : Live(j)' => j = k
      BY <1>1, LiveFacts DEF Live, ReceiveData, PathInv, AnyInv, TypeOK
    <2>. QED
      BY <2>1, <2>2, <2>3 DEF Fetching
  <1>. QED
    BY <1>3, <1>4, <1>5, <1>6, <1>7 DEF Store!Fetch

LEMMA StoreKeep ==
  ASSUME IInv, WellBehaved, NEW k \in Slots, Complete(k), NEW v \in Urls, task[k].url = v
  PROVE  Store!Keep(v)
  <1>. DEFINE n == NameOf[v]
  <1>. PathInv
    BY DEF IInv
  <1>1. /\ Live(k) /\ n \in Names /\ cacheDir[n] = None
        /\ tmpDir[n] \in Seq(Pieces) /\ tmpDir[n] # None
        /\ cacheDir' = [cacheDir EXCEPT ![n] = tmpDir[n]]
        /\ tmpDir' = [tmpDir EXCEPT ![n] = None]
    BY MoveStep
  <1>2. Len(tmpDir[n]) = Size
    <2>1. tmpDir[n] = Whole(v)
      BY MovedIsWhole
    <2>2. Len(Whole(v)) = Size
      BY ConstantsAssumption DEF Whole
    <2>. QED
      BY <2>1, <2>2
  <1>3. /\ tmpDir'[n] = None /\ cacheDir'[n] = tmpDir[n]
        /\ \A m \in Names : m # n => tmpDir'[m] = tmpDir[m] /\ cacheDir'[m] = cacheDir[m]
    <2>. HIDE DEF n
    <2>. QED
      BY <1>1 DEF PathInv, AnyInv, TypeOK
  <1>4. Held(n) = Size /\ Held(n)' = Size
    <2>. HIDE DEF n
    <2>1. n' = n
      BY DEF n
    <2>2. Held(n) = Size + 0
      BY <1>1, <1>2 DEF Held
    <2>3. Held(n)' = 0 + Size
      BY <1>1, <1>2, <1>3, <2>1 DEF Held
    <2>. QED
      BY <2>2, <2>3, ConstantsAssumption
  <1>5. ASSUME NEW u \in Urls, u # v
        PROVE  /\ Held(NameOf[u])' = Held(NameOf[u])
               /\ cacheDir'[NameOf[u]] = cacheDir[NameOf[u]]
    <2>1. NameOf[u] \in Names /\ NameOf[u] # n
      BY <1>5, ConstantsAssumption DEF WellBehaved
    <2>. QED
      BY <1>3, <2>1 DEF Held
  <1>6. KeptVideos' = KeptVideos \cup {v}
    BY <1>1, <1>3, <1>5 DEF KeptVideos
  <1>7. Fetching = {v} /\ Fetching' = {}
    <2>1. Fetching = {v}
      BY <1>1, FetchingOne
    <2>2. \A j \in Slots : ~Live(j)'
      BY <1>1, LiveFacts DEF Live, Complete, PathInv, AnyInv, TypeOK
    <2>. QED
      BY <2>1, <2>2 DEF Fetching
  <1>. QED
    BY <1>4, <1>5, <1>6, <1>7 DEF Store!Keep

LEMMA StoreGiveUp ==
  ASSUME PathInv, NEW k \in Slots, CompleteWithError(k)
  PROVE  Store!GiveUp
  <1>1. /\ Live(k) /\ UNCHANGED <<tmpDir, cacheDir>>
        /\ task' = [task EXCEPT ![k] = None]
    BY DEF CompleteWithError
  <1>2. \A u \in Urls : Held(NameOf[u])' = Held(NameOf[u])
    BY <1>1 DEF Held
  <1>3. KeptVideos' = KeptVideos
    BY <1>1 DEF KeptVideos
  <1>4. \A j \in Slots : ~Live(j)'
    BY <1>1, LiveFacts DEF Live, PathInv, AnyInv, TypeOK
  <1>5. Fetching' = {}
    BY <1>4 DEF Fetching
  <1>. QED
    BY <1>2, <1>3, <1>5 DEF Store!GiveUp

LEMMA StoreAnswer ==
  ASSUME PathInv, CancelDownloadActions \/ \E k \in Slots : Respond(k)
  PROVE  UNCHANGED Store!vars
  <1>1. UNCHANGED <<tmpDir, cacheDir>>
    BY DEF CancelDownloadActions, Respond
  <1>2. ASSUME NEW j \in Slots
        PROVE  Live(j)' = Live(j) /\ (Live(j) => task'[j].url = task[j].url)
    <2>1. CASE CancelDownloadActions
      BY <2>1, NoneAssumption DEF CancelDownloadActions, Live, PathInv, AnyInv, TypeOK, Tasks
    <2>2. ASSUME NEW k \in Slots, Respond(k)
          PROVE  Live(j)' = Live(j) /\ (Live(j) => task'[j].url = task[j].url)
      <3>1. PICK r \in Responses : task' = [task EXCEPT ![k] = Answered(task[k], r)]
        BY <2>2 DEF Respond
      <3>2. Live(k) /\ task[k] \in Tasks /\ task \in [Slots -> Tasks \cup {None}]
        BY <2>2 DEF Respond, Sent, Live, PathInv, AnyInv, TypeOK
      <3>3. Answered(task[k], r) \in Tasks /\ Answered(task[k], r).url = task[k].url
        BY <3>2, ConstantsAssumption DEF Answered, Tasks
      <3>4. task'[j] = IF j = k THEN Answered(task[k], r) ELSE task[j]
        BY <3>1, <3>2
      <3>. QED
        BY <3>2, <3>3, <3>4, NoneAssumption DEF Live
    <2>. QED
      BY <2>1, <2>2
  <1>3. Fetching' = Fetching
    BY <1>2 DEF Fetching
  <1>. QED
    BY <1>1, <1>3, StoreStutters DEF Held, KeptVideos

LEMMA StoreClear ==
  ASSUME PathInv, ClearCachedVideos
  PROVE  Store!Clear
  <1>1. /\ \A n \in Names : cacheDir'[n] = None
        /\ UNCHANGED <<tmpDir, task>>
    BY DEF ClearCachedVideos
  <1>2. ASSUME NEW u \in Urls
        PROVE  Held(NameOf[u])' = IF u \in KeptVideos THEN 0 ELSE Held(NameOf[u])
    <2>1. Held(NameOf[u])' = Stored(tmpDir[NameOf[u]]) + 0
      BY <1>1, StoreHeld DEF Held, Stored
    <2>. QED
      BY <2>1, StoreHeld, StoredNat DEF PathInv, AnyInv
  <1>3. KeptVideos' = {} /\ Fetching' = Fetching
    BY <1>1, ConstantsAssumption DEF KeptVideos, Fetching, Live
  <1>. QED
    BY <1>2, <1>3 DEF Store!Clear

\* The videos whose only file the system removed are lost.
LEMMA StoreLose ==
  ASSUME PathInv, Restart
  PROVE  \E V \in SUBSET Urls : Store!Lose(V)
  <1>1. PICK T \in SUBSET Names, C \in SUBSET Names :
             /\ \A n \in Names : tmpDir'[n] = IF n \in T THEN None ELSE tmpDir[n]
             /\ \A n \in Names : cacheDir'[n] = IF n \in C THEN None ELSE cacheDir[n]
    BY DEF Restart
  <1>. DEFINE V == {u \in Urls : NameOf[u] \in (IF cacheDir[NameOf[u]] # None THEN C ELSE T)}
  <1>2. ASSUME NEW u \in Urls
        PROVE  /\ Held(NameOf[u])' = IF u \in V THEN 0 ELSE Held(NameOf[u])
               /\ cacheDir'[NameOf[u]] # None <=> u \in KeptVideos \ V
    <2>1. /\ NameOf[u] \in Names
          /\ Held(NameOf[u])' = Stored(tmpDir'[NameOf[u]]) + Stored(cacheDir'[NameOf[u]])
      BY StoreHeld DEF Held, Stored
    <2>2. Stored(tmpDir[NameOf[u]]) \in Nat /\ Stored(cacheDir[NameOf[u]]) \in Nat
      BY <2>1, StoredNat DEF PathInv, AnyInv
    <2>3. CASE cacheDir[NameOf[u]] # None
      <3>1. tmpDir[NameOf[u]] = None /\ tmpDir'[NameOf[u]] = None
        BY <1>1, <2>1, <2>3 DEF PathInv, OnePlace
      <3>2. Stored(tmpDir[NameOf[u]]) = 0 /\ Stored(tmpDir'[NameOf[u]]) = 0
        BY <3>1 DEF Stored
      <3>3. u \in V <=> NameOf[u] \in C
        BY <2>3
      <3>4. u \in KeptVideos /\ Held(NameOf[u]) = Stored(cacheDir[NameOf[u]])
        BY <2>2, <2>3, <3>2, StoreHeld
      <3>. HIDE DEF V
      <3>5. CASE u \in V
        <4>1. cacheDir'[NameOf[u]] = None
          BY <1>1, <2>1, <3>3, <3>5
        <4>. QED
          BY <2>1, <3>2, <3>5, <4>1 DEF Stored
      <3>6. CASE u \notin V
        <4>1. cacheDir'[NameOf[u]] = cacheDir[NameOf[u]]
          BY <1>1, <2>1, <3>3, <3>6
        <4>. QED
          BY <2>1, <2>2, <2>3, <3>2, <3>4, <3>6, <4>1
      <3>. QED
        BY <3>5, <3>6
    <2>4. CASE cacheDir[NameOf[u]] = None
      <3>1. cacheDir'[NameOf[u]] = None
        BY <1>1, <2>1, <2>4
      <3>2. Stored(cacheDir[NameOf[u]]) = 0 /\ Stored(cacheDir'[NameOf[u]]) = 0
        BY <2>4, <3>1 DEF Stored
      <3>3. u \in V <=> NameOf[u] \in T
        BY <2>4
      <3>4. u \notin KeptVideos /\ Held(NameOf[u]) = Stored(tmpDir[NameOf[u]])
        BY <2>2, <2>4, <3>2, StoreHeld
      <3>. HIDE DEF V
      <3>5. CASE u \in V
        <4>1. tmpDir'[NameOf[u]] = None
          BY <1>1, <2>1, <3>3, <3>5
        <4>. QED
          BY <2>1, <3>1, <3>2, <3>4, <3>5, <4>1 DEF Stored
      <3>6. CASE u \notin V
        <4>1. tmpDir'[NameOf[u]] = tmpDir[NameOf[u]]
          BY <1>1, <2>1, <3>3, <3>6
        <4>. QED
          BY <2>1, <2>2, <3>1, <3>2, <3>4, <3>6, <4>1
      <3>. QED
        BY <3>5, <3>6
    <2>. QED
      BY <2>3, <2>4
  <1>. HIDE DEF V
  <1>3. KeptVideos' = KeptVideos \ V
    BY <1>2 DEF KeptVideos
  <1>4. Fetching' = {}
    BY DEF Restart, Fetching, Live
  <1>5. Store!Lose(V)
    BY <1>2, <1>3, <1>4 DEF Store!Lose
  <1>6. V \in SUBSET Urls
    BY DEF V
  <1>. QED
    BY <1>5, <1>6

\* Each step of the downloader is a step of the store, or none.
LEMMA StoreStep ==
  ASSUME IInv, WellBehaved, [Next]_vars
  PROVE  [Store!Next]_(Store!vars)
  <1>. PathInv /\ ~Overlap
    BY DEF IInv, WellBehaved
  <1>1. ASSUME NEW u \in Urls, DownloadVideo(u)
        PROVE  [Store!Next]_(Store!vars)
    BY <1>1, StoreOpen DEF Store!Next
  <1>2. ASSUME NEW k \in Slots, ReceiveData(k) \/ Complete(k)
        PROVE  [Store!Next]_(Store!vars)
    <2>1. task[k].url \in Urls
      BY <1>2, LiveFacts DEF ReceiveData, Complete, Receiving
    <2>. QED
      BY <1>2, <2>1, StoreFetch, StoreKeep DEF Store!Next
  <1>3. ASSUME NEW k \in Slots, CompleteWithError(k)
        PROVE  [Store!Next]_(Store!vars)
    BY <1>3, StoreGiveUp DEF Store!Next
  <1>4. ASSUME NEW k \in Slots, Respond(k)
        PROVE  [Store!Next]_(Store!vars)
    BY <1>4, StoreAnswer
  <1>5. CASE CancelDownloadActions
    BY <1>5, StoreAnswer
  <1>6. CASE ClearCachedVideos
    BY <1>6, StoreClear DEF Store!Next
  <1>7. CASE Restart
    BY <1>7, StoreLose DEF Store!Next
  <1>8. CASE UNCHANGED vars
    BY <1>8, StoreStutters DEF vars, Held, KeptVideos, Fetching, Live
  <1>. QED
    BY <1>1, <1>2, <1>3, <1>4, <1>5, <1>6, <1>7, <1>8 DEF Next

\* In that environment the downloader implements a store of videos: one video is
\* fetched at a time, piece by piece from where it was left, and it is kept only when
\* all of it is there.
THEOREM VideoStoreImplemented ==
  ASSUME WellBehaved
  PROVE  Spec => ImplementsVideoStore
  <1>1. Init => Store!Init
    BY StoreInit
  <1>2. IInv /\ [Next]_vars => [Store!Next]_(Store!vars)
    BY StoreStep
  <1>. QED
    BY <1>1, <1>2, Invariance, PTL DEF Spec, ImplementsVideoStore, Store!Spec
=============================================================================
