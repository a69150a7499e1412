--------------------------- MODULE GeetestLoader ---------------------------
(***************************************************************************)
(* initGeetest, in the library file of the saved LanHu page: it loads the  *)
(* captcha library when it is first asked for, from the api server or, if  *)
(* that does not work, from the static server, and keeps those who ask     *)
(* meanwhile waiting.  The page has one thread; what interleaves is when   *)
(* callers come and when which script element is done.                     *)
(*                                                                         *)
(* What the servers send is not in the repository; the outcomes are those  *)
(* the loader tells apart: a script with the library, one that puts an     *)
(* element with id gt_lib into the page which loads the library later, an  *)
(* empty one, and a failure.  A caller's callback and onError return.  A   *)
(* call without a gt is refused before it does anything, and left out.     *)
(***************************************************************************)
EXTENDS Integers, Sequences, FiniteSets

CONSTANTS Callers,   \* those who call initGeetest, once each
          OnError,   \* callers whose config has an onError function
          Nobody,    \* what is no caller
          MaxEvents  \* load events a browser may fire for one script element

ASSUME LoaderAssumption ==
    OnError \subseteq Callers /\ Nobody \notin Callers /\ MaxEvents \in Nat \ {0}

VARIABLES status,    \* "init", "loading", "loaded" or "fail"
          callbacks, \* the callers that wait, in order
          library,   \* is window.Geetest defined?
          element,   \* gt_lib: "none", "loading", "loaded" or "failed"
          front,     \* the api server's script: "none", "requested" or "done"
          frontMore, \* load events of it to come
          downs,     \* requests of the static server's script under way
          downMore,  \* load events to come of such scripts whose handler threw
          starter,   \* the caller for which the library was requested
          asked,     \* the callers that have called initGeetest
          called,    \* times each caller's callback was called
          refused,   \* times each caller was told of an error
          events     \* load events this browser fires for one element

scripts == <<front, frontMore, downs, downMore>>
answers == <<callbacks, called, refused>>
loaderVars == <<status, library, element, scripts, answers, starter, asked, events>>

\* The page may have the library, or the element that loads it, from the start.
LoaderInit ==
    /\ library \in BOOLEAN
    /\ element \in IF library THEN {"none"} ELSE {"none", "loading"}
    /\ status = IF library \/ element = "loading" THEN "loaded" ELSE "init"
    /\ callbacks = <<>>
    /\ front = "none"
    /\ frontMore = 0
    /\ downs = 0
    /\ downMore = 0
    /\ starter = Nobody
    /\ asked = {}
    /\ called = [c \in Callers |-> 0]
    /\ refused = [c \in Callers |-> 0]
    /\ events \in 1 .. MaxEvents

-----------------------------------------------------------------------------
(* Parts of several handlers.                                              *)

\* detect
Detect == library \/ element # "none"

\* How often a caller waits.
Waits(c) == Cardinality({i \in DOMAIN callbacks : callbacks[i] = c})

\* Mutants: the queue is not emptied; the loop ends before the last one.
RunKeeps ==
    /\ called' = [c \in Callers |-> called[c] + Waits(c)]
    /\ UNCHANGED <<callbacks, refused>>

RunShort ==
    /\ called' = [c \in Callers |->
                     IF callbacks # <<>> /\ callbacks[Len(callbacks)] = c
                     THEN called[c] ELSE called[c] + Waits(c)]
    /\ callbacks' = <<>>
    /\ UNCHANGED refused

\* run calls back all that wait.
Run ==
    /\ called' = [c \in Callers |-> called[c] + Waits(c)]
    /\ callbacks' = <<>>
    /\ UNCHANGED refused

\* config.onError(), or an exception that nobody catches.
Refuse(c) ==
    /\ refused' = IF c \in OnError THEN [refused EXCEPT ![c] = @ + 1] ELSE refused
    /\ UNCHANGED <<callbacks, called>>

Wait(c) == callbacks' = Append(callbacks, c) /\ UNCHANGED <<called, refused>>

Loaded == status' = "loaded" /\ Run
Failed == status' = "fail" /\ Refuse(starter)

-----------------------------------------------------------------------------
(* initGeetest, by the status.                                             *)

\* new window.Geetest raises if the library is still loading.
AskLoaded(c) ==
    /\ status = "loaded"
    /\ called' = IF library THEN [called EXCEPT ![c] = @ + 1] ELSE called
    /\ UNCHANGED <<status, scripts, callbacks, refused, starter>>

AskFailed(c) ==
    /\ status = "fail"
    /\ Refuse(c)
    /\ UNCHANGED <<status, scripts, starter>>

AskLoading(c) ==
    /\ status = "loading"
    /\ Wait(c)
    /\ UNCHANGED <<status, scripts, starter>>

\* The first one; getLib requests the api server's script.
AskInit(c) ==
    /\ status = "init"
    /\ Wait(c)
    /\ status' = "loading"
    /\ front' = "requested"
    /\ starter' = c
    /\ UNCHANGED <<frontMore, downs, downMore>>

InitGeetest(c) ==
    /\ c \notin asked
    /\ asked' = asked \cup {c}
    /\ AskLoaded(c) \/ AskFailed(c) \/ AskLoading(c) \/ AskInit(c)
    /\ UNCHANGED <<library, element, events>>

-----------------------------------------------------------------------------
(* The api server's script.                                                *)

\* It defines the library and calls window[cb]; then its load event changes
\* nothing.
FrontLibrary ==
    /\ front = "requested"
    /\ front' = "done"
    /\ library' = TRUE
    /\ Loaded
    /\ UNCHANGED <<element, frontMore, downs, downMore, starter, asked, events>>

\* It puts gt_lib into the page, which is enough for its load event.
FrontElement ==
    /\ front = "requested"
    /\ front' = "done"
    /\ element' = "loading"
    /\ UNCHANGED <<status, library, answers, frontMore, downs, downMore, starter, asked, events>>

\* Its load event, and further ones, find nothing.  The handler stays on.
FrontEmpty ==
    /\ front = "requested"
    /\ front' = "done"
    /\ frontMore' = events - 1
    /\ downs' = IF Detect THEN downs ELSE downs + 1
    /\ UNCHANGED <<status, library, element, answers, downMore, starter, asked, events>>
FrontAgain ==
    /\ frontMore > 0
    /\ frontMore' = frontMore - 1
    /\ downs' = IF Detect THEN downs ELSE downs + 1
    /\ UNCHANGED <<status, library, element, answers, front, downMore, starter, asked, events>>

FrontFails ==
    /\ front = "requested"
    /\ front' = "done"
    /\ downs' = downs + 1
    /\ UNCHANGED <<status, library, element, answers, frontMore, downMore, starter, asked, events>>

\* gt_lib is loaded; if the api server's script made it, it calls window[cb].
ElementLoads ==
    /\ element = "loading"
    /\ element' = "loaded"
    /\ library' = TRUE
    /\ IF front = "done" THEN Loaded ELSE UNCHANGED <<status, answers>>
    /\ UNCHANGED <<scripts, starter, asked, events>>

\* Nothing listens to its failure.
ElementFails ==
    /\ element = "loading"
    /\ element' = "failed"
    /\ UNCHANGED <<status, library, answers, scripts, starter, asked, events>>

-----------------------------------------------------------------------------
(* The static server's script.                                             *)

DownLibrary ==
    /\ downs > 0
    /\ downs' = downs - 1
    /\ library' = TRUE
    /\ Loaded
    /\ UNCHANGED <<element, front, frontMore, downMore, starter, asked, events>>

\* It has no library.  The handler stays on if it throws.
DownEmpty ==
    /\ downs > 0
    /\ downs' = downs - 1
    /\ IF Detect THEN Loaded ELSE Failed
    /\ downMore' = IF Detect \/ starter \in OnError THEN downMore ELSE downMore + events - 1
    /\ UNCHANGED <<library, element, front, frontMore, starter, asked, events>>
DownAgain ==
    /\ downMore > 0
    /\ downMore' = downMore - 1
    /\ IF Detect THEN Loaded ELSE Failed
    /\ UNCHANGED <<library, element, front, frontMore, downs, starter, asked, events>>

\* Mutant: the failure of the fallback is not noticed.
DownFailsSilently ==
    /\ downs > 0
    /\ downs' = downs - 1
    /\ UNCHANGED <<status, answers, library, element, front, frontMore, downMore, starter,
                   asked, events>>

DownFails ==
    /\ downs > 0
    /\ downs' = downs - 1
    /\ Failed
    /\ UNCHANGED <<library, element, front, frontMore, downMore, starter, asked, events>>

Front == FrontLibrary \/ FrontElement \/ FrontEmpty \/ FrontAgain \/ FrontFails
Element == ElementLoads \/ ElementFails
Down == DownLibrary \/ DownEmpty \/ DownAgain \/ DownFails

\* What comes by itself.
Arrival == Front \/ Element \/ Down

LoaderNext == (\E c \in Callers : InitGeetest(c)) \/ Arrival

LoaderSpec == LoaderInit /\ [][LoaderNext]_loaderVars

-----------------------------------------------------------------------------
LoaderTypeOK ==
    /\ status \in {"init", "loading", "loaded", "fail"}
    /\ callbacks \in Seq(Callers)
    /\ library \in BOOLEAN
    /\ element \in {"none", "loading", "loaded", "failed"}
    /\ front \in {"none", "requested", "done"}
    /\ frontMore \in Nat /\ downs \in Nat /\ downMore \in Nat
    /\ starter \in Callers \cup {Nobody}
    /\ asked \subseteq Callers
    /\ called \in [Callers -> Nat] /\ refused \in [Callers -> Nat]
    /\ events \in 1 .. MaxEvents

\* Something that can end the waiting is always on its way while the status says
\* so: a script, or gt_lib (whose failure nobody listens to).  And nobody waits
\* for a library that is there (lines 17-22, 30-34, 62-69, 105-122).
SomethingComes ==
    /\ status = "loading" => front = "requested" \/ downs > 0 \/ element \in {"loading", "failed"}
    /\ status \in {"init", "loaded"} => callbacks = <<>>

\* A status that the loader itself has set to loaded tells the truth: the callbacks
\* that run with it find the constructor (lines 32-34, 64-69, 103).
LoadedIsLoaded == status = "loaded" /\ front # "none" => library

\* Each caller is called back once at the most, however many scripts arrive; and it
\* is not called back, nor told of an error, after it was told of an error, if the
\* browser fires one load event for a script.
AnsweredOnce ==
    \A c \in Callers :
        /\ called[c] <= 1
        /\ events = 1 => called[c] + refused[c] <= 1

\* Those who wait are called back in the end, unless loading fails or the page is
\* left.
QueueServed ==
    \A c \in Callers :
        Waits(c) > 0 ~> called[c] > 0 \/ status = "fail" \/ element = "failed" \/ c \notin asked
-----------------------------------------------------------------------------
(* The inductive invariant.                                                *)

\* How the status goes with the scripts.
OrderInv ==
    /\ status = "init" <=> front = "none" /\ ~library /\ element = "none"
    /\ front = "none" => status \in {"init", "loaded"} /\ downs = 0
    /\ front # "done" => frontMore = 0 /\ downMore = 0
    /\ front = "requested" => status = "loading" /\ element = "none" /\ downs = 0
    /\ element # "none" /\ front # "none" => downs = 0 /\ frontMore = 0 /\ downMore = 0
    /\ element = "loading" /\ front # "none" => status = "loading"
    /\ status = "loading" => ~library

\* Who waits has asked and has not been called back.
CountInv ==
    \A c \in Callers :
        /\ called[c] + Waits(c) <= 1
        /\ c \notin asked => called[c] + Waits(c) = 0 /\ refused[c] = 0

\* The caller for which the library is requested waits for it, too.
StarterInv ==
    /\ starter \in asked \cup {Nobody}
    /\ status = "loading" => starter \in asked /\ Waits(starter) = 1

\* With one load event, the fallback is asked for once and has the last word.
OneEventInv ==
    events = 1 =>
        /\ frontMore = 0 /\ downMore = 0
        /\ downs > 0 => downs = 1 /\ status = "loading"
        /\ status = "fail" => front = "done" /\ downs = 0 /\ element = "none"
        /\ \A c \in Callers : refused[c] > 0 => refused[c] = 1 /\ called[c] = 0 /\ status = "fail"

LoaderInv ==
    /\ LoaderTypeOK /\ OrderInv /\ SomethingComes /\ LoadedIsLoaded
    /\ CountInv /\ StarterInv /\ OneEventInv
=============================================================================
