----------------------------- MODULE GroupRequest -----------------------------
(***************************************************************************)
(* DispatchGroupVC.commonRequest: each tap sends one request per image     *)
(* inside a dispatch group of its own and registers a notify block that    *)
(* puts whatever data has arrived on the screen.  The data fields and the  *)
(* image views belong to the view controller: taps share them.             *)
(*                                                                         *)
(* The tap handler and every response handler run on the main thread, so   *)
(* each is one step.  The blocks of the global queue run on worker threads *)
(* in any order.  The notify block runs on a worker and waits (main.sync)  *)
(* until the main thread runs its body.                                    *)
(***************************************************************************)
EXTENDS Integers, FiniteSets

CONSTANTS Images,   \* the three images of the code
          MaxTaps,  \* bound on the taps of the button
          Nil       \* no data, no image

ASSUME BoundsAssumption == IsFiniteSet(Images) /\ Images # {} /\ MaxTaps \in Nat

Taps == 1 .. MaxTaps

\* What a response carries: bytes of an image, bytes of something else (an
\* error page); the tap tells one download of an image from another.
Data == [tap : Taps, decodes : BOOLEAN]

ASSUME NilAssumption == Nil \notin Data \cup Taps

VARIABLES taps,    \* taps so far
          request, \* per tap and image: how far its request is
          group,   \* per tap: the count of its group
          notices, \* per tap: its notify block
          imgData, \* imgNData
          image,   \* what the image view shows: a tap's download, or nothing
          latest   \* history: the last data that arrived for each image

requestVars == <<taps, request, group, notices, imgData, image, latest>>

RequestInit ==
    /\ taps = 0
    /\ request = [t \in Taps |-> [r \in Images |-> "none"]]
    /\ group = [t \in Taps |-> 0]
    /\ notices = [t \in Taps |-> "none"]
    /\ imgData = [r \in Images |-> Nil]
    /\ image = [r \in Images |-> Nil]
    /\ latest = [r \in Images |-> Nil]

\* UIImage(data:) fails on bytes that are not an image, and nil is assigned.
Decode(d) == IF d.decodes THEN d.tap ELSE Nil

\* Mutant: group.enter() is forgotten for one of the images.
TapForgetsEnter ==
    /\ taps < MaxTaps
    /\ taps' = taps + 1
    /\ request' = [request EXCEPT ![taps + 1] = [r \in Images |-> "queued"]]
    /\ group' = [group EXCEPT ![taps + 1] = Cardinality(Images) - 1]
    /\ notices' = [notices EXCEPT ![taps + 1] = "registered"]
    /\ UNCHANGED <<imgData, image, latest>>

\* The button: a new group, an enter and a block per image, a notify block.
Tap ==
    /\ taps < MaxTaps
    /\ taps' = taps + 1
    /\ request' = [request EXCEPT ![taps + 1] = [r \in Images |-> "queued"]]
    /\ group' = [group EXCEPT ![taps + 1] = Cardinality(Images)]
    /\ notices' = [notices EXCEPT ![taps + 1] = "registered"]
    /\ UNCHANGED <<imgData, image, latest>>

\* A worker runs the block: AF.request(url).responseData sends the request.
Send(t, r) ==
    /\ request[t][r] = "queued"
    /\ request' = [request EXCEPT ![t][r] = "sent"]
    /\ UNCHANGED <<taps, group, notices, imgData, image, latest>>

\* group.leave(): the last one submits the notify block.
LeaveGroup(t) ==
    /\ group' = [group EXCEPT ![t] = @ - 1]
    /\ notices' = IF group'[t] = 0 /\ notices[t] = "registered"
                 THEN [notices EXCEPT ![t] = "submitted"] ELSE notices

\* Mutant: the early return of the handler does not leave the group.
FailWithoutLeave(t, r) ==
    /\ request[t][r] = "sent"
    /\ request' = [request EXCEPT ![t][r] = "answered"]
    /\ UNCHANGED <<taps, group, notices, imgData, image, latest>>

\* The response has no data: leave the group and keep what was there.
RespondNoData(t, r) ==
    /\ request[t][r] = "sent"
    /\ request' = [request EXCEPT ![t][r] = "answered"]
    /\ LeaveGroup(t)
    /\ UNCHANGED <<taps, imgData, image, latest>>

\* The response has data, of an image or not: store it and leave the group.
RespondData(t, r) ==
    /\ request[t][r] = "sent"
    /\ request' = [request EXCEPT ![t][r] = "answered"]
    /\ \E d \in {x \in Data : x.tap = t} :
          /\ imgData' = [imgData EXCEPT ![r] = d]
          /\ latest' = [latest EXCEPT ![r] = d]
    /\ LeaveGroup(t)
    /\ UNCHANGED <<taps, image>>

\* A worker enters the notify block and waits for the main thread.
NotifySync(t) ==
    /\ notices[t] = "submitted"
    /\ notices' = [notices EXCEPT ![t] = "sync"]
    /\ UNCHANGED <<taps, request, group, imgData, image, latest>>

\* Mutant: the data shown is not cleared.
ShowKeepsData(t) ==
    /\ notices[t] = "sync"
    /\ notices' = [notices EXCEPT ![t] = "done"]
    /\ image' = [r \in Images |-> IF imgData[r] = Nil THEN image[r] ELSE Decode(imgData[r])]
    /\ UNCHANGED <<taps, request, group, imgData, latest>>

\* Mutant: the data is cleared whether or not its image is shown.
ShowOne(t) ==
    /\ notices[t] = "sync"
    /\ notices' = [notices EXCEPT ![t] = "done"]
    /\ \E one \in Images :
         image' = [image EXCEPT ![one] = IF imgData[one] = Nil THEN @ ELSE Decode(imgData[one])]
    /\ imgData' = [r \in Images |-> Nil]
    /\ UNCHANGED <<taps, request, group, latest>>

\* The main thread runs the body: show what has arrived, by whichever tap.
Show(t) ==
    /\ notices[t] = "sync"
    /\ notices' = [notices EXCEPT ![t] = "done"]
    /\ image' = [r \in Images |-> IF imgData[r] = Nil THEN image[r] ELSE Decode(imgData[r])]
    /\ imgData' = [r \in Images |-> Nil]
    /\ UNCHANGED <<taps, request, group, latest>>

Request(t, r) == Send(t, r) \/ RespondNoData(t, r) \/ RespondData(t, r)

RequestNext ==
    \/ Tap
    \/ \E t \in Taps, r \in Images : Request(t, r)
    \/ \E t \in Taps : NotifySync(t) \/ Show(t)

Finished(t) == notices[t] \in {"none", "done"}
RequestsEnd == taps = MaxTaps /\ (\A t \in Taps : Finished(t)) /\ UNCHANGED requestVars

RequestSpec == RequestInit /\ [][RequestNext \/ RequestsEnd]_requestVars

\* Alamofire answers every request, with data or without (its own timeout);
\* the worker threads and the main thread run what they have been given.
\* The user need not tap.
RequestFairSpec ==
    /\ RequestSpec
    /\ \A t \in Taps :
          /\ \A r \in Images : WF_requestVars(Request(t, r))
          /\ WF_requestVars(NotifySync(t) \/ Show(t))

-----------------------------------------------------------------------------
RequestTypeOK ==
    /\ taps \in 0 .. MaxTaps
    /\ request \in [Taps -> [Images -> {"none", "queued", "sent", "answered"}]]
    /\ group \in [Taps -> Nat]
    /\ notices \in [Taps -> {"none", "registered", "submitted", "sync", "done"}]
    /\ imgData \in [Images -> Data \cup {Nil}]
    /\ image \in [Images -> Taps \cup {Nil}]
    /\ latest \in [Images -> Data \cup {Nil}]

\* "Called back when the requests of all three images have ended" (line 165),
\* also when some of them carry no data and several taps are under way.
NotifyAfterAll ==
    \A t \in Taps : notices[t] \in {"submitted", "sync", "done"} =>
        \A r \in Images : request[t][r] = "answered"

\* Data that waits in imgNData is not stranded: some notify block that has yet
\* to run will show it, whichever tap downloaded it and whichever shows it.
NotStranded ==
    \A r \in Images : imgData[r] # Nil =>
        \E t \in Taps : notices[t] \in {"registered", "submitted", "sync"}

\* The last data to arrive for an image is what waits for it or what it shows:
\* no tap's notify block shows older data over newer.
LastArrivalShown ==
    \A r \in Images : latest[r] # Nil =>
        \/ imgData[r] = latest[r]
        \/ imgData[r] = Nil /\ image[r] = Decode(latest[r])

\* Every tap that is made gets its images shown (lines 124-127: also when a
\* request fails, because that path leaves the group too).
EveryTapShown == \A t \in Taps : (taps >= t) ~> (notices[t] = "done")
-----------------------------------------------------------------------------
(* The inductive invariant.                                                *)

\* The images a tap has yet to hear of: its group waits for them.
Unanswered(t) == {r \in Images : request[t][r] \in {"queued", "sent"}}

\* How the notify block of a tap goes with its requests.
TapInv(t) ==
    /\ group[t] = Cardinality(Unanswered(t))
    /\ notices[t] = "registered" <=> Unanswered(t) # {}
    /\ t <= taps => notices[t] # "none" /\ \A r \in Images : request[t][r] # "none"
    /\ t > taps => notices[t] = "none" /\ \A r \in Images : request[t][r] = "none"

RequestInv ==
    /\ RequestTypeOK
    /\ \A t \in Taps : TapInv(t)
    /\ NotStranded
    /\ LastArrivalShown
=============================================================================
