------------------------- MODULE PageScripts_proofs -------------------------
(***************************************************************************)
(* Theorems about the scripts of the saved LanHu page: the captcha loader  *)
(* and the version note, side by side on the page (LanhuPage), and the     *)
(* date picker.                                                            *)
(***************************************************************************)
EXTENDS LanhuPage, DatePicker, FiniteSetTheorems, SequenceTheorems,
        WellFoundedInduction, TLAPS

-----------------------------------------------------------------------------
(* How often a caller waits.                                               *)

\* A caller waits a number of times; not at all in an empty queue; once more when
\* it joins.
LEMMA WaitsFacts ==
    ASSUME callbacks \in Seq(Callers), NEW c \in Callers
    PROVE  /\ Waits(c) \in Nat
           /\ callbacks = <<>> => Waits(c) = 0
<1> DEFINE places == {i \in DOMAIN callbacks : callbacks[i] = c}
<1>1. IsFiniteSet(1 .. Len(callbacks))
    BY FS_Interval
<1>2. places \in SUBSET (1 .. Len(callbacks)) BY DEF places
<1>3. IsFiniteSet(places) BY <1>1, <1>2, FS_Subset
<1>4. Cardinality(places) \in Nat BY <1>3, FS_CardinalityType
<1>5. callbacks = <<>> => places = {} BY DEF places
<1>6. callbacks = <<>> => Cardinality(places) = 0 BY <1>5, FS_EmptySet
<1> QED BY <1>4, <1>6 DEF Waits

LEMMA WaitsAfterWait ==
    ASSUME callbacks \in Seq(Callers), NEW c \in Callers, NEW d \in Callers,
           callbacks' = Append(callbacks, d)
    PROVE  /\ callbacks' \in Seq(Callers)
           /\ Waits(c)' = IF c = d THEN Waits(c) + 1 ELSE Waits(c)
<1> DEFINE places == {i \in DOMAIN callbacks : callbacks[i] = c}
           last == Len(callbacks) + 1
<1>1. IsFiniteSet(1 .. Len(callbacks)) BY FS_Interval
<1>2. places \in SUBSET (1 .. Len(callbacks)) BY DEF places
<1>3. IsFiniteSet(places) BY <1>1, <1>2, FS_Subset
<1>4. places' = IF c = d THEN places \cup {last} ELSE places BY DEF places
<1>5. last \notin places BY <1>2
<1>6. Cardinality(places \cup {last}) = Cardinality(places) + 1
    BY <1>3, <1>5, FS_AddElement
<1>7. Cardinality(places') = IF c = d THEN Cardinality(places) + 1 ELSE Cardinality(places)
    BY <1>4, <1>6
<1>8. callbacks' \in Seq(Callers) BY SMT
<1> QED BY <1>7, <1>8 DEF Waits

\* The queue is unchanged: everybody waits as before.
LEMMA WaitsUnchanged ==
    ASSUME NEW c \in Callers, UNCHANGED callbacks
    PROVE  Waits(c)' = Waits(c)
BY DEF Waits

-----------------------------------------------------------------------------
(* What the handlers do to the answers.                                    *)

\* run: who waited has been called back, and nobody waits.
LEMMA RunFacts ==
    ASSUME LoaderTypeOK, Run
    PROVE  /\ callbacks' = <<>> /\ callbacks' \in Seq(Callers)
           /\ called' \in [Callers -> Nat]
           /\ refused' = refused
           /\ \A c \in Callers : called'[c] = called[c] + Waits(c) /\ Waits(c)' = 0
<1> USE DEF LoaderTypeOK, Run
<1>1. \A c \in Callers : Waits(c) \in Nat BY WaitsFacts
<1>2. callbacks' = <<>> /\ callbacks' \in Seq(Callers) /\ refused' = refused OBVIOUS
<1>3. called' = [c \in Callers |-> called[c] + Waits(c)] OBVIOUS
<1> HIDE DEF Run
<1>4. ASSUME NEW c \in Callers PROVE called'[c] = called[c] + Waits(c) /\ called'[c] \in Nat
    BY <1>1, <1>3
<1>5. called' \in [Callers -> Nat] BY <1>3, <1>4, <1>1
<1>6. ASSUME NEW c \in Callers PROVE Waits(c)' = 0
  <2>1. {i \in DOMAIN callbacks' : callbacks'[i] = c} = {} BY <1>2
  <2> QED BY <2>1, FS_EmptySet DEF Waits
<1> QED BY <1>2, <1>4, <1>5, <1>6

\* An error: nobody else is told of it.
LEMMA RefuseFacts ==
    ASSUME LoaderTypeOK, NEW d \in Callers \cup {Nobody}, Refuse(d)
    PROVE  /\ callbacks' \in Seq(Callers) /\ callbacks' = callbacks
           /\ called' = called
           /\ refused' \in [Callers -> Nat]
           /\ \A c \in Callers :
                 /\ refused'[c] = refused[c] \/ (c = d /\ refused'[c] = refused[c] + 1)
                 /\ Waits(c)' = Waits(c)
<1>1. callbacks' \in Seq(Callers) /\ callbacks' = callbacks /\ called' = called
    BY DEF LoaderTypeOK, Refuse
<1>2. refused \in [Callers -> Nat] BY DEF LoaderTypeOK
<1>3. /\ refused' \in [Callers -> Nat]
      /\ \A c \in Callers : refused'[c] = refused[c] \/ (c = d /\ refused'[c] = refused[c] + 1)
  <2>1. CASE d \in OnError
    <3>1. refused' = [refused EXCEPT ![d] = refused[d] + 1] BY <2>1 DEF Refuse
    <3>2. d \in Callers BY <2>1, LoaderAssumption
    <3> QED BY <1>2, <3>1, <3>2
  <2>2. CASE d \notin OnError
    BY <1>2, <2>2 DEF Refuse
  <2> QED BY <2>1, <2>2
<1>4. \A c \in Callers : Waits(c)' = Waits(c) BY WaitsUnchanged, <1>1
<1> QED BY <1>1, <1>3, <1>4

\* One more waits.
LEMMA WaitFacts ==
    ASSUME LoaderTypeOK, NEW d \in Callers, Wait(d)
    PROVE  /\ callbacks' \in Seq(Callers)
           /\ called' = called /\ refused' = refused
           /\ \A c \in Callers : Waits(c)' = IF c = d THEN Waits(c) + 1 ELSE Waits(c)
BY WaitsAfterWait DEF LoaderTypeOK, Wait

LEMMA WaitsNat ==
    ASSUME LoaderTypeOK
    PROVE  \A c \in Callers : Waits(c) \in Nat /\ (callbacks = <<>> => Waits(c) = 0)
BY WaitsFacts DEF LoaderTypeOK

-----------------------------------------------------------------------------
(* The loader's invariant: who asks.                                       *)

LEMMA AskLoadedStep ==
    ASSUME LoaderInv, NEW c \in Callers, InitGeetest(c), AskLoaded(c)
    PROVE  LoaderInv'
<1> USE DEF LoaderInv
<1>1. LoaderTypeOK' /\ OrderInv' /\ SomethingComes' /\ LoadedIsLoaded'
  <2> USE DEF AskLoaded, InitGeetest, scripts
  <2>1. LoaderTypeOK' BY DEF LoaderTypeOK
  <2>2. OrderInv' BY DEF OrderInv
  <2>3. SomethingComes' /\ LoadedIsLoaded' BY DEF SomethingComes, LoadedIsLoaded
  <2> QED BY <2>1, <2>2, <2>3
<1>2. \A e \in Callers : Waits(e)' = Waits(e) /\ Waits(e) \in Nat
    BY WaitsUnchanged, WaitsNat DEF AskLoaded
<1>3. CountInv' /\ StarterInv' /\ OneEventInv'
  <2> USE DEF AskLoaded, InitGeetest, scripts, LoaderTypeOK
  <2>1. CountInv' BY <1>2 DEF CountInv
  <2>2. StarterInv' BY <1>2 DEF StarterInv
  <2>3. OneEventInv' BY <1>2 DEF OneEventInv
  <2> QED BY <2>1, <2>2, <2>3
<1> QED BY <1>1, <1>3

LEMMA AskFailedStep ==
    ASSUME LoaderInv, NEW c \in Callers, InitGeetest(c), AskFailed(c)
    PROVE  LoaderInv'
<1> USE DEF LoaderInv
<1>1. /\ callbacks' \in Seq(Callers) /\ callbacks' = callbacks
      /\ called' = called /\ refused' \in [Callers -> Nat]
      /\ \A e \in Callers :
            /\ Waits(e) \in Nat /\ Waits(e)' = Waits(e)
            /\ refused'[e] = refused[e] \/ (e = c /\ refused'[e] = refused[e] + 1)
    BY RefuseFacts, WaitsNat DEF AskFailed
<1> USE DEF AskFailed, InitGeetest, scripts
<1>2. LoaderTypeOK' BY <1>1 DEF LoaderTypeOK
<1>3. OrderInv' BY DEF OrderInv, LoaderTypeOK
<1>4. SomethingComes' /\ LoadedIsLoaded' BY <1>1 DEF SomethingComes, LoadedIsLoaded, OrderInv
<1>5. CountInv' BY <1>1 DEF CountInv, StarterInv, LoaderTypeOK
<1>6. StarterInv' BY <1>1 DEF StarterInv, CountInv, LoaderTypeOK
<1>7. OneEventInv' BY <1>1 DEF OneEventInv, OrderInv, CountInv, StarterInv, LoaderTypeOK
<1> QED BY <1>2, <1>3, <1>4, <1>5, <1>6, <1>7

LEMMA AskLoadingStep ==
    ASSUME LoaderInv, NEW c \in Callers, InitGeetest(c), AskLoading(c)
    PROVE  LoaderInv'
<1> USE DEF LoaderInv
<1>1. /\ callbacks' \in Seq(Callers) /\ called' = called /\ refused' = refused
      /\ \A e \in Callers :
            Waits(e) \in Nat /\ Waits(e)' = IF e = c THEN Waits(e) + 1 ELSE Waits(e)
    BY WaitFacts, WaitsNat DEF AskLoading
<1> USE DEF AskLoading, InitGeetest, scripts
<1>2. LoaderTypeOK' BY <1>1 DEF LoaderTypeOK
<1>3. OrderInv' BY DEF OrderInv, LoaderTypeOK
<1>4. SomethingComes' /\ LoadedIsLoaded' BY <1>1 DEF SomethingComes, LoadedIsLoaded, OrderInv
<1>5. CountInv' BY <1>1 DEF CountInv, StarterInv, LoaderTypeOK
<1>6. StarterInv' BY <1>1 DEF StarterInv, CountInv, LoaderTypeOK
<1>7. OneEventInv' BY <1>1 DEF OneEventInv, OrderInv, CountInv, StarterInv, LoaderTypeOK
<1> QED BY <1>2, <1>3, <1>4, <1>5, <1>6, <1>7

LEMMA AskInitStep ==
    ASSUME LoaderInv, NEW c \in Callers, InitGeetest(c), AskInit(c)
    PROVE  LoaderInv'
<1> USE DEF LoaderInv
<1>1. /\ callbacks' \in Seq(Callers) /\ called' = called /\ refused' = refused
      /\ \A e \in Callers :
            Waits(e) \in Nat /\ Waits(e)' = IF e = c THEN Waits(e) + 1 ELSE Waits(e)
    BY WaitFacts, WaitsNat DEF AskInit
<1> USE DEF AskInit, InitGeetest
<1>2. LoaderTypeOK' BY <1>1 DEF LoaderTypeOK
<1>3. OrderInv' BY DEF OrderInv, LoaderTypeOK
<1>4. SomethingComes' /\ LoadedIsLoaded' BY <1>1 DEF SomethingComes, LoadedIsLoaded, OrderInv
<1>5. CountInv' BY <1>1 DEF CountInv, StarterInv, LoaderTypeOK
<1>6. StarterInv' BY <1>1 DEF StarterInv, CountInv, LoaderTypeOK
<1>7. OneEventInv' BY <1>1 DEF OneEventInv, OrderInv, CountInv, StarterInv, LoaderTypeOK
<1> QED BY <1>2, <1>3, <1>4, <1>5, <1>6, <1>7

-----------------------------------------------------------------------------
(* The loader's invariant: what arrives.                                   *)

LEMMA FrontElementStep ==
    ASSUME LoaderInv, FrontElement
    PROVE  LoaderInv'
<1> USE DEF LoaderInv
<1>1. \A e \in Callers : Waits(e)' = Waits(e) /\ Waits(e) \in Nat
    BY WaitsUnchanged, WaitsNat DEF FrontElement, answers
<1> USE DEF FrontElement, answers, scripts, Detect
<1>2. LoaderTypeOK' BY <1>1 DEF LoaderTypeOK
<1>3. OrderInv' BY DEF OrderInv, LoaderTypeOK
<1>4. SomethingComes' /\ LoadedIsLoaded' BY <1>1 DEF SomethingComes, LoadedIsLoaded, OrderInv
<1>5. CountInv' BY <1>1 DEF CountInv, StarterInv, LoaderTypeOK
<1>6. StarterInv' BY <1>1 DEF StarterInv, CountInv, LoaderTypeOK
<1>7. OneEventInv' BY <1>1 DEF OneEventInv, OrderInv, CountInv, StarterInv, LoaderTypeOK
<1> QED BY <1>2, <1>3, <1>4, <1>5, <1>6, <1>7

LEMMA FrontEmptyStep ==
    ASSUME LoaderInv, FrontEmpty
    PROVE  LoaderInv'
<1> USE DEF LoaderInv
<1>1. \A e \in Callers : Waits(e)' = Waits(e) /\ Waits(e) \in Nat
    BY WaitsUnchanged, WaitsNat DEF FrontEmpty, answers
<1> USE DEF FrontEmpty, answers, scripts, Detect
<1>2. LoaderTypeOK' BY <1>1 DEF LoaderTypeOK
<1>3. OrderInv' BY DEF OrderInv, LoaderTypeOK
<1>4. SomethingComes' /\ LoadedIsLoaded' BY DEF SomethingComes, LoadedIsLoaded, OrderInv, LoaderTypeOK
<1>5. CountInv' BY <1>1 DEF CountInv, StarterInv, LoaderTypeOK
<1>6. StarterInv' BY <1>1 DEF StarterInv, CountInv, LoaderTypeOK
<1>7. OneEventInv' BY <1>1 DEF OneEventInv, OrderInv, CountInv, StarterInv, LoaderTypeOK
<1> QED BY <1>2, <1>3, <1>4, <1>5, <1>6, <1>7

LEMMA FrontAgainStep ==
    ASSUME LoaderInv, FrontAgain
    PROVE  LoaderInv'
<1> USE DEF LoaderInv
<1>1. \A e \in Callers : Waits(e)' = Waits(e) /\ Waits(e) \in Nat
    BY WaitsUnchanged, WaitsNat DEF FrontAgain, answers
<1> USE DEF FrontAgain, answers, scripts, Detect
<1>2. LoaderTypeOK' BY <1>1 DEF LoaderTypeOK
<1>3. OrderInv' BY DEF OrderInv, LoaderTypeOK
<1>4. SomethingComes' /\ LoadedIsLoaded' BY <1>1 DEF SomethingComes, LoadedIsLoaded, OrderInv, LoaderTypeOK
<1>5. CountInv' BY <1>1 DEF CountInv, StarterInv, LoaderTypeOK
<1>6. StarterInv' BY <1>1 DEF StarterInv, CountInv, LoaderTypeOK
<1>7. OneEventInv' BY <1>1 DEF OneEventInv, OrderInv, CountInv, StarterInv, LoaderTypeOK
<1> QED BY <1>2, <1>3, <1>4, <1>5, <1>6, <1>7

LEMMA FrontFailsStep ==
    ASSUME LoaderInv, FrontFails
    PROVE  LoaderInv'
<1> USE DEF LoaderInv
<1>1. \A e \in Callers : Waits(e)' = Waits(e) /\ Waits(e) \in Nat
    BY WaitsUnchanged, WaitsNat DEF FrontFails, answers
<1> USE DEF FrontFails, answers, scripts, Detect
<1>2. LoaderTypeOK' BY <1>1 DEF LoaderTypeOK
<1>3. OrderInv' BY DEF OrderInv, LoaderTypeOK
<1>4. SomethingComes' /\ LoadedIsLoaded' BY <1>1 DEF SomethingComes, LoadedIsLoaded, OrderInv
<1>5. CountInv' BY <1>1 DEF CountInv, StarterInv, LoaderTypeOK
<1>6. StarterInv' BY <1>1 DEF StarterInv, CountInv, LoaderTypeOK
<1>7. OneEventInv' BY <1>1 DEF OneEventInv, OrderInv, CountInv, StarterInv, LoaderTypeOK
<1> QED BY <1>2, <1>3, <1>4, <1>5, <1>6, <1>7

LEMMA ElementFailsStep ==
    ASSUME LoaderInv, ElementFails
    PROVE  LoaderInv'
<1> USE DEF LoaderInv
<1>1. \A e \in Callers : Waits(e)' = Waits(e) /\ Waits(e) \in Nat
    BY WaitsUnchanged, WaitsNat DEF ElementFails, answers
<1> USE DEF ElementFails, answers, scripts, Detect
<1>2. LoaderTypeOK' BY <1>1 DEF LoaderTypeOK
<1>3. OrderInv' BY DEF OrderInv, LoaderTypeOK
<1>4. SomethingComes' /\ LoadedIsLoaded' BY <1>1 DEF SomethingComes, LoadedIsLoaded, OrderInv
<1>5. CountInv' BY <1>1 DEF CountInv, StarterInv, LoaderTypeOK
<1>6. StarterInv' BY <1>1 DEF StarterInv, CountInv, LoaderTypeOK
<1>7. OneEventInv' BY <1>1 DEF OneEventInv, OrderInv, CountInv, StarterInv, LoaderTypeOK
<1> QED BY <1>2, <1>3, <1>4, <1>5, <1>6, <1>7

LEMMA FrontLibraryStep ==
    ASSUME LoaderInv, FrontLibrary
    PROVE  LoaderInv'
<1> USE DEF LoaderInv
<1>1. /\ callbacks' = <<>> /\ callbacks' \in Seq(Callers)
      /\ called' \in [Callers -> Nat] /\ refused' = refused
      /\ \A e \in Callers :
            Waits(e) \in Nat /\ called'[e] = called[e] + Waits(e) /\ Waits(e)' = 0
    BY RunFacts, WaitsNat DEF FrontLibrary, Loaded, LoaderInv
<1> USE DEF FrontLibrary, Loaded
<1>2. LoaderTypeOK' BY <1>1 DEF LoaderTypeOK
<1>3. OrderInv' BY DEF OrderInv, LoaderTypeOK
<1>4. SomethingComes' /\ LoadedIsLoaded' BY <1>1 DEF SomethingComes, LoadedIsLoaded, OrderInv
<1>5. CountInv' BY <1>1 DEF CountInv, StarterInv, LoaderTypeOK
<1>6. StarterInv' BY <1>1 DEF StarterInv, CountInv, LoaderTypeOK
<1>7. OneEventInv' BY <1>1 DEF OneEventInv, OrderInv, CountInv, StarterInv, LoaderTypeOK
<1> QED BY <1>2, <1>3, <1>4, <1>5, <1>6, <1>7

LEMMA DownLibraryStep ==
    ASSUME LoaderInv, DownLibrary
    PROVE  LoaderInv'
<1> USE DEF LoaderInv
<1>1. /\ callbacks' = <<>> /\ callbacks' \in Seq(Callers)
      /\ called' \in [Callers -> Nat] /\ refused' = refused
      /\ \A e \in Callers :
            Waits(e) \in Nat /\ called'[e] = called[e] + Waits(e) /\ Waits(e)' = 0
    BY RunFacts, WaitsNat DEF DownLibrary, Loaded, LoaderInv
<1> USE DEF DownLibrary, Loaded
<1>2. LoaderTypeOK' BY <1>1 DEF LoaderTypeOK
<1>3. OrderInv' BY DEF OrderInv, LoaderTypeOK
<1>4. SomethingComes' /\ LoadedIsLoaded' BY <1>1 DEF SomethingComes, LoadedIsLoaded, OrderInv
<1>5. CountInv' BY <1>1 DEF CountInv, StarterInv, LoaderTypeOK
<1>6. StarterInv' BY <1>1 DEF StarterInv, CountInv, LoaderTypeOK
<1>7. OneEventInv' BY <1>1 DEF OneEventInv, OrderInv, CountInv, StarterInv, LoaderTypeOK
<1> QED BY <1>2, <1>3, <1>4, <1>5, <1>6, <1>7

\* With one load event, whoever is told that the fallback fails is told it first.
LEMMA FailedOnce ==
    ASSUME LoaderInv, Failed, downs > 0, downs' = downs - 1,
           UNCHANGED <<element, front, frontMore, events>>,
           events = 1 => downMore' = downMore
    PROVE  OneEventInv'
<1> USE DEF LoaderInv
<1>1. /\ called' = called
      /\ \A e \in Callers :
            refused'[e] = refused[e] \/ (e = starter /\ refused'[e] = refused[e] + 1)
    BY RefuseFacts DEF Failed, LoaderTypeOK
<1> SUFFICES ASSUME events = 1 PROVE OneEventInv' BY DEF OneEventInv
<1>2. /\ front = "done" /\ element = "none" /\ status = "loading" /\ downs = 1
      /\ frontMore = 0 /\ downMore = 0
    BY DEF OneEventInv, OrderInv, LoaderTypeOK
<1>3. \A e \in Callers : refused[e] = 0 BY <1>2 DEF OneEventInv, LoaderTypeOK
<1>4. called[starter] = 0 /\ starter \in Callers
    BY WaitsNat, <1>2 DEF StarterInv, CountInv, LoaderTypeOK
<1>5. ASSUME NEW e \in Callers, refused'[e] > 0
      PROVE  refused'[e] = 1 /\ called'[e] = 0
  <2>1. refused'[e] = 0 \/ (e = starter /\ refused'[e] = 1) BY <1>1, <1>3
  <2>2. e = starter /\ refused'[e] = 1 BY <1>5, <2>1
  <2> QED BY ONLY <2>2, <1>1, <1>4
<1> QED BY <1>2, <1>5 DEF OneEventInv, Failed

LEMMA DownFailsStep ==
    ASSUME LoaderInv, DownFails
    PROVE  LoaderInv'
<1> USE DEF LoaderInv
<1>1. /\ callbacks' \in Seq(Callers) /\ callbacks' = callbacks
      /\ called' = called /\ refused' \in [Callers -> Nat]
      /\ \A e \in Callers :
            /\ Waits(e) \in Nat /\ Waits(e)' = Waits(e)
            /\ refused'[e] = refused[e] \/ (e = starter /\ refused'[e] = refused[e] + 1)
    BY RefuseFacts, WaitsNat DEF DownFails, Failed, LoaderTypeOK
<1> USE DEF DownFails, Failed
<1>2. LoaderTypeOK' BY <1>1 DEF LoaderTypeOK
<1>3. OrderInv' BY DEF OrderInv, LoaderTypeOK
<1>4. SomethingComes' /\ LoadedIsLoaded' BY <1>1 DEF SomethingComes, LoadedIsLoaded, OrderInv
<1>5. CountInv' BY <1>1, LoaderAssumption DEF CountInv, StarterInv, LoaderTypeOK
<1>6. StarterInv' BY <1>1 DEF StarterInv, CountInv, LoaderTypeOK
<1>7. OneEventInv' BY FailedOnce
<1> QED BY <1>2, <1>3, <1>4, <1>5, <1>6, <1>7

LEMMA ElementLoadsStep ==
    ASSUME LoaderInv, ElementLoads
    PROVE  LoaderInv'
<1> USE DEF LoaderInv
<1>1. CASE front = "done"
  <2>1. /\ callbacks' = <<>> /\ callbacks' \in Seq(Callers)
        /\ called' \in [Callers -> Nat] /\ refused' = refused
        /\ \A e \in Callers :
              Waits(e) \in Nat /\ called'[e] = called[e] + Waits(e) /\ Waits(e)' = 0
    BY <1>1, RunFacts, WaitsNat DEF ElementLoads, Loaded, LoaderInv
  <2> USE <1>1 DEF ElementLoads, Loaded, scripts
  <2>2. LoaderTypeOK' BY <2>1 DEF LoaderTypeOK
  <2>3. OrderInv' BY DEF OrderInv, LoaderTypeOK
  <2>4. SomethingComes' /\ LoadedIsLoaded' BY <2>1 DEF SomethingComes, LoadedIsLoaded
  <2>5. CountInv' /\ StarterInv' BY <2>1 DEF CountInv, StarterInv, LoaderTypeOK
  <2>6. OneEventInv' BY <2>1 DEF OneEventInv, OrderInv, LoaderTypeOK
  <2> QED BY <2>2, <2>3, <2>4, <2>5, <2>6
<1>2. CASE front # "done"
  <2>1. \A e \in Callers : Waits(e)' = Waits(e) /\ Waits(e) \in Nat
    BY <1>2, WaitsUnchanged, WaitsNat DEF ElementLoads, answers
  <2> USE <1>2 DEF ElementLoads, scripts, answers
  <2>2. LoaderTypeOK' BY DEF LoaderTypeOK
  <2>3. OrderInv' BY DEF OrderInv, LoaderTypeOK
  <2>4. SomethingComes' /\ LoadedIsLoaded'
    <3>1. front = "none" BY DEF OrderInv, LoaderTypeOK
    <3>2. status = "loaded" BY <3>1 DEF OrderInv
    <3> QED BY <3>1, <3>2 DEF SomethingComes, LoadedIsLoaded
  <2>5. CountInv' /\ StarterInv' BY <2>1 DEF CountInv, StarterInv, LoaderTypeOK
  <2>6. OneEventInv' BY DEF OneEventInv, OrderInv, LoaderTypeOK
  <2> QED BY <2>2, <2>3, <2>4, <2>5, <2>6
<1> QED BY <1>1, <1>2

LEMMA DownEmptyStep ==
    ASSUME LoaderInv, DownEmpty
    PROVE  LoaderInv'
<1> USE DEF LoaderInv
<1>1. front = "done" /\ element = "none" BY DEF DownEmpty, OrderInv, LoaderTypeOK
<1>2. CASE Detect
  <2>1. /\ callbacks' = <<>> /\ callbacks' \in Seq(Callers)
        /\ called' \in [Callers -> Nat] /\ refused' = refused
        /\ \A e \in Callers :
              Waits(e) \in Nat /\ called'[e] = called[e] + Waits(e) /\ Waits(e)' = 0
    BY <1>2, RunFacts, WaitsNat DEF DownEmpty, Loaded, LoaderInv
  <2> USE <1>1, <1>2 DEF DownEmpty, Loaded, Detect
  <2>2. LoaderTypeOK' BY <2>1, LoaderAssumption DEF LoaderTypeOK
  <2>3. OrderInv' BY DEF OrderInv, LoaderTypeOK
  <2>4. SomethingComes' /\ LoadedIsLoaded' BY <2>1 DEF SomethingComes, LoadedIsLoaded
  <2>5. CountInv' /\ StarterInv' BY <2>1 DEF CountInv, StarterInv, LoaderTypeOK
  <2>6. OneEventInv' BY <2>1 DEF OneEventInv, OrderInv, LoaderTypeOK
  <2> QED BY <2>2, <2>3, <2>4, <2>5, <2>6
<1>3. CASE ~Detect
  <2>1. /\ callbacks' \in Seq(Callers) /\ callbacks' = callbacks
        /\ called' = called /\ refused' \in [Callers -> Nat]
        /\ \A e \in Callers :
              /\ Waits(e) \in Nat /\ Waits(e)' = Waits(e)
              /\ refused'[e] = refused[e] \/ (e = starter /\ refused'[e] = refused[e] + 1)
    BY <1>3, RefuseFacts, WaitsNat DEF DownEmpty, Failed, LoaderTypeOK
  <2>2. CountInv' /\ StarterInv'
    BY <1>3, <2>1, LoaderAssumption DEF CountInv, StarterInv, LoaderTypeOK, DownEmpty, Failed
  <2> USE <1>1, <1>3 DEF DownEmpty, Failed, Detect
  <2>3. LoaderTypeOK' BY <2>1, LoaderAssumption DEF LoaderTypeOK
  <2>4. OrderInv' BY DEF OrderInv, LoaderTypeOK
  <2>5. SomethingComes' /\ LoadedIsLoaded' BY DEF SomethingComes, LoadedIsLoaded
  <2>6. OneEventInv' BY FailedOnce DEF LoaderTypeOK
  <2> QED BY <2>2, <2>3, <2>4, <2>5, <2>6
<1> QED BY <1>2, <1>3

LEMMA DownAgainStep ==
    ASSUME LoaderInv, DownAgain
    PROVE  LoaderInv'
<1> USE DEF LoaderInv
<1>1. front = "done" /\ element = "none" BY DEF DownAgain, OrderInv, LoaderTypeOK
<1>2. CASE Detect
  <2>1. /\ callbacks' = <<>> /\ callbacks' \in Seq(Callers)
        /\ called' \in [Callers -> Nat] /\ refused' = refused
        /\ \A e \in Callers :
              Waits(e) \in Nat /\ called'[e] = called[e] + Waits(e) /\ Waits(e)' = 0
    BY <1>2, RunFacts, WaitsNat DEF DownAgain, Loaded, LoaderInv
  <2> USE <1>1, <1>2 DEF DownAgain, Loaded, Detect
  <2>2. LoaderTypeOK' BY <2>1, LoaderAssumption DEF LoaderTypeOK
  <2>3. OrderInv' BY DEF OrderInv, LoaderTypeOK
  <2>4. SomethingComes' /\ LoadedIsLoaded' BY <2>1 DEF SomethingComes, LoadedIsLoaded
  <2>5. CountInv' /\ StarterInv' BY <2>1 DEF CountInv, StarterInv, LoaderTypeOK
  <2>6. OneEventInv' BY <2>1 DEF OneEventInv, OrderInv, LoaderTypeOK
  <2> QED BY <2>2, <2>3, <2>4, <2>5, <2>6
<1>3. CASE ~Detect
  <2>1. /\ callbacks' \in Seq(Callers) /\ callbacks' = callbacks
        /\ called' = called /\ refused' \in [Callers -> Nat]
        /\ \A e \in Callers :
              /\ Waits(e) \in Nat /\ Waits(e)' = Waits(e)
              /\ refused'[e] = refused[e] \/ (e = starter /\ refused'[e] = refused[e] + 1)
    BY <1>3, RefuseFacts, WaitsNat DEF DownAgain, Failed, LoaderTypeOK
  <2>2. CountInv' /\ StarterInv'
    BY <1>3, <2>1, LoaderAssumption DEF CountInv, StarterInv, LoaderTypeOK, DownAgain, Failed
  <2> USE <1>1, <1>3 DEF DownAgain, Failed, Detect
  <2>3. LoaderTypeOK' BY <2>1, LoaderAssumption DEF LoaderTypeOK
  <2>4. OrderInv' BY DEF OrderInv, LoaderTypeOK
  <2>5. SomethingComes' /\ LoadedIsLoaded' BY DEF SomethingComes, LoadedIsLoaded
  <2>6. OneEventInv' BY DEF OneEventInv, LoaderTypeOK
  <2> QED BY <2>2, <2>3, <2>4, <2>5, <2>6
<1> QED BY <1>2, <1>3

\* A loader that has just been made.
LEMMA LoaderFresh == LoaderInit => LoaderInv
<1> SUFFICES ASSUME LoaderInit PROVE LoaderInv OBVIOUS
<1> USE DEF LoaderInit
<1>1. LoaderTypeOK BY LoaderAssumption DEF LoaderTypeOK
<1>2. OrderInv /\ SomethingComes /\ LoadedIsLoaded
    BY DEF OrderInv, SomethingComes, LoadedIsLoaded
<1>3. \A c \in Callers : Waits(c) = 0 BY <1>1, WaitsNat
<1>4. CountInv /\ StarterInv BY <1>3 DEF CountInv, StarterInv
<1>5. OneEventInv BY DEF OneEventInv
<1> QED BY <1>1, <1>2, <1>4, <1>5 DEF LoaderInv

LEMMA LoaderStep ==
    ASSUME LoaderInv, LoaderNext
    PROVE  LoaderInv'
<1>1. CASE \E c \in Callers : InitGeetest(c)
  <2>1. PICK c \in Callers : InitGeetest(c) BY <1>1
  <2>2. AskLoaded(c) \/ AskFailed(c) \/ AskLoading(c) \/ AskInit(c) BY <2>1 DEF InitGeetest
  <2> QED BY <2>1, <2>2, AskLoadedStep, AskFailedStep, AskLoadingStep, AskInitStep
<1>2. CASE Front
    BY <1>2, FrontLibraryStep, FrontElementStep, FrontEmptyStep, FrontAgainStep, FrontFailsStep
    DEF Front
<1>3. CASE Element
    BY <1>3, ElementLoadsStep, ElementFailsStep DEF Element
<1>4. CASE Down
    BY <1>4, DownLibraryStep, DownEmptyStep, DownAgainStep, DownFailsStep DEF Down
<1> QED BY <1>1, <1>2, <1>3, <1>4 DEF LoaderNext, Arrival

LEMMA LoaderStutter ==
    ASSUME LoaderInv, UNCHANGED loaderVars
    PROVE  LoaderInv'
<1> USE DEF LoaderInv, loaderVars, scripts, answers
<1>1. \A c \in Callers : Waits(c)' = Waits(c) BY WaitsUnchanged
<1>2. LoaderTypeOK' BY DEF LoaderTypeOK
<1>3. OrderInv' /\ SomethingComes' /\ LoadedIsLoaded'
    BY DEF OrderInv, SomethingComes, LoadedIsLoaded
<1>4. CountInv' BY <1>1 DEF CountInv
<1>5. StarterInv' BY <1>1 DEF StarterInv, LoaderTypeOK
<1>6. OneEventInv' BY DEF OneEventInv
<1> QED BY <1>2, <1>3, <1>4, <1>5, <1>6

\* The loader of a page that is loaded anew.
LEMMA LoaderAnew ==
    ASSUME LoaderInv, LoaderReset
    PROVE  LoaderInv'
<1> USE DEF LoaderReset
<1>1. callbacks' \in Seq(Callers) /\ callbacks' = <<>> OBVIOUS
<1>2. LoaderTypeOK' BY LoaderAssumption DEF LoaderTypeOK, LoaderInv
<1>3. OrderInv' /\ SomethingComes' /\ LoadedIsLoaded'
    BY DEF OrderInv, SomethingComes, LoadedIsLoaded
<1>4. ASSUME NEW c \in Callers PROVE Waits(c)' = 0
  <2>1. {i \in DOMAIN callbacks' : callbacks'[i] = c} = {} BY <1>1
  <2> QED BY <2>1, FS_EmptySet DEF Waits
<1>5. CountInv' BY <1>4 DEF CountInv
<1>6. StarterInv' /\ OneEventInv' BY DEF StarterInv, OneEventInv
<1> QED BY <1>2, <1>3, <1>5, <1>6 DEF LoaderInv

-----------------------------------------------------------------------------
(* The version note.                                                       *)

LEMMA NoteFresh == NoteInit => NoteInv
<1> SUFFICES ASSUME NoteInit PROVE NoteInv OBVIOUS
<1> USE DEF NoteInit
<1>1. stored \in 0 .. NoteVer /\ runs \in 0 .. MaxRuns /\ timers \in Nat /\ retries \in Nat
    BY NoteAssumption
<1>2. /\ framed \in BOOLEAN /\ outdated \in BOOLEAN /\ reloading \in BOOLEAN
      /\ dialog \in BOOLEAN /\ failed \in BOOLEAN
    OBVIOUS
<1>3. first \in BOOLEAN /\ seen \in BOOLEAN BY ZenonT(10)
<1>4. stored = 0 => first BY ZenonT(10)
<1>5. NoteSeen BY ZenonT(10) DEF NoteSeen
<1> QED BY <1>1, <1>2, <1>3, <1>4, <1>5 DEF NoteInv, NoteTypeOK

LEMMA NoteKept ==
    ASSUME NoteInv, [NoteStep \/ ReloadPage]_noteVars
    PROVE  NoteInv'
<1> USE NoteAssumption DEF NoteInv
<1>1. CASE RunScript
  <2> USE <1>1 DEF RunScript, history
  <2>1. NoteTypeOK' BY DEF NoteTypeOK
  <2>2. (stored = 0 => first)' BY DEF NoteTypeOK
  <2>3. NoteSeen' BY DEF NoteTypeOK, NoteSeen
  <2> QED BY <2>1, <2>2, <2>3
<1>2. CASE Timer
  <2> USE <1>2 DEF Timer, ShowUpdateDialog, history
  <2>1. NoteTypeOK'
    <3>1. /\ stored' \in 0 .. NoteVer /\ runs' \in 0 .. MaxRuns
          /\ timers' \in Nat /\ retries' \in Nat
      BY DEF NoteTypeOK
    <3>2. /\ framed' \in BOOLEAN /\ outdated' \in BOOLEAN /\ reloading' \in BOOLEAN
          /\ dialog' \in BOOLEAN /\ first' \in BOOLEAN /\ seen' \in BOOLEAN /\ failed' \in BOOLEAN
      BY ZenonT(20) DEF NoteTypeOK
    <3> QED BY <3>1, <3>2 DEF NoteTypeOK
  <2>2. (stored = 0 => first)' BY DEF NoteTypeOK
  <2>3. NoteSeen' BY DEF NoteTypeOK, NoteSeen
  <2> QED BY <2>1, <2>2, <2>3
<1>3. CASE Retry
  <2> USE <1>3 DEF Retry, ShowUpdateDialog, history
  <2>1. NoteTypeOK'
    <3>1. /\ stored' \in 0 .. NoteVer /\ runs' \in 0 .. MaxRuns
          /\ timers' \in Nat /\ retries' \in Nat
      BY DEF NoteTypeOK
    <3>2. /\ framed' \in BOOLEAN /\ outdated' \in BOOLEAN /\ reloading' \in BOOLEAN
          /\ dialog' \in BOOLEAN /\ first' \in BOOLEAN /\ seen' \in BOOLEAN /\ failed' \in BOOLEAN
      BY ZenonT(20) DEF NoteTypeOK
    <3> QED BY <3>1, <3>2 DEF NoteTypeOK
  <2>2. (stored = 0 => first)' BY DEF NoteTypeOK
  <2>3. NoteSeen' BY DEF NoteTypeOK, NoteSeen
  <2> QED BY <2>1, <2>2, <2>3
<1>4. CASE DialogLoads
    BY <1>4 DEF DialogLoads, NoteTypeOK, NoteSeen, history
<1>5. CASE OtherPage
  <2> USE <1>5 DEF OtherPage, history
  <2>1. NoteTypeOK'
    <3>1. /\ stored' \in 0 .. NoteVer /\ runs' \in 0 .. MaxRuns
          /\ timers' \in Nat /\ retries' \in Nat
      BY DEF NoteTypeOK
    <3>2. /\ framed' \in BOOLEAN /\ outdated' \in BOOLEAN /\ reloading' \in BOOLEAN
          /\ dialog' \in BOOLEAN /\ first' \in BOOLEAN /\ seen' \in BOOLEAN /\ failed' \in BOOLEAN
      BY ZenonT(20) DEF NoteTypeOK
    <3> QED BY <3>1, <3>2 DEF NoteTypeOK
  <2>2. (stored = 0 => first)' BY DEF NoteTypeOK
  <2>3. NoteSeen' BY DEF NoteTypeOK, NoteSeen
  <2> QED BY <2>1, <2>2, <2>3
<1>6. CASE ReloadPage
  <2> USE <1>6 DEF ReloadPage, history
  <2>1. NoteTypeOK'
    <3>1. /\ stored' \in 0 .. NoteVer /\ runs' \in 0 .. MaxRuns
          /\ timers' \in Nat /\ retries' \in Nat
      BY DEF NoteTypeOK
    <3>2. /\ framed' \in BOOLEAN /\ outdated' \in BOOLEAN /\ reloading' \in BOOLEAN
          /\ dialog' \in BOOLEAN /\ first' \in BOOLEAN /\ seen' \in BOOLEAN /\ failed' \in BOOLEAN
      BY ZenonT(20) DEF NoteTypeOK
    <3> QED BY <3>1, <3>2 DEF NoteTypeOK
  <2>2. (stored = 0 => first)' OBVIOUS
  <2>3. NoteSeen' BY DEF NoteSeen
  <2> QED BY <2>1, <2>2, <2>3
<1>7. CASE UNCHANGED noteVars BY <1>7 DEF noteVars, NoteTypeOK, NoteSeen, history
<1> QED BY <1>1, <1>2, <1>3, <1>4, <1>5, <1>6, <1>7 DEF NoteStep

-----------------------------------------------------------------------------
(* The page.                                                               *)

\* The loader's and the note's invariants hold on a page that runs both scripts
\* and is loaded anew at any moment.
THEOREM PageInvariance == PageSpec => []PageInv
<1>1. PageInit => PageInv BY LoaderFresh, NoteFresh DEF PageInit, PageInv
<1>2. PageInv /\ [PageNext]_pageVars => PageInv'
  <2> SUFFICES ASSUME PageInv, [PageNext]_pageVars PROVE PageInv' OBVIOUS
  <2> USE DEF PageInv
  <2>1. CASE LoaderNext /\ UNCHANGED noteVars BY <2>1, LoaderStep, NoteKept
  <2>2. CASE NoteStep /\ UNCHANGED loaderVars BY <2>2, LoaderStutter, NoteKept
  <2>3. CASE Reload BY <2>3, LoaderAnew, NoteKept DEF Reload
  <2>4. CASE UNCHANGED pageVars BY <2>4, LoaderStutter, NoteKept DEF pageVars
  <2> QED BY <2>1, <2>2, <2>3, <2>4 DEF PageNext
<1> QED BY <1>1, <1>2, PTL DEF PageSpec

\* Whatever scripts arrive, in whatever order, a caller of initGeetest is called back
\* once at the most, and not after it was told of an error where a script has one
\* load event (lib-393472a69e.js, lines 17-59).
THEOREM CallersAnsweredOnce == PageSpec => []AnsweredOnce
<1>1. PageInv => AnsweredOnce
  <2> SUFFICES ASSUME PageInv, NEW c \in Callers
               PROVE  called[c] <= 1 /\ (events = 1 => called[c] + refused[c] <= 1)
      BY DEF AnsweredOnce
  <2> USE DEF PageInv, LoaderInv
  <2>1. called[c] \in Nat /\ refused[c] \in Nat /\ Waits(c) \in Nat BY WaitsNat DEF LoaderTypeOK
  <2>2. called[c] <= 1 BY <2>1 DEF CountInv
  <2>3. events = 1 /\ refused[c] > 0 => refused[c] = 1 /\ called[c] = 0 BY DEF OneEventInv
  <2> QED BY <2>1, <2>2, <2>3
<1> QED BY <1>1, PageInvariance, PTL

\* The note is never recorded unseen, but for the two exceptions the code makes, across
\* reloads and other pages, for any number of runs of the script
\* (version.dynamic.js, lines 16-56).
THEOREM NoteShown == PageSpec => []NoteSeen
BY PageInvariance, PTL DEF PageInv, NoteInv

-----------------------------------------------------------------------------
(* initGeetest: termination.  Whoever waits has something to wait for, and   *)
(* what a page's scripts can still bring about is finite.                    *)

\* Who waits is called back by what is still to come, but for the two failures
\* that the queue is not told of: the fallback's, and gt_lib's.
WaitersHaveHope ==
    \A c \in Callers : Waits(c) > 0 =>
        \/ status = "fail" \/ element = "failed"
        \/ front = "requested" \/ element = "loading" \/ downs > 0

\* Nobody leaves the queue but by being called back, or with the page.
QueueForgets(c) == Waits(c) > 0 /\ Waits(c)' = 0 /\ ~(called'[c] > called[c])
NobodyForgotten == [][Reload \/ \A c \in Callers : ~QueueForgets(c)]_pageVars

\* An upper bound of the load events, and of gt_lib's, that can still come: one
\* of the api server's script may ask for the fallback, which has its own.
EventsLeft ==
      (IF front = "requested" THEN events * events + events ELSE 0)
    + (IF element = "loading" THEN 1 ELSE 0)
    + frontMore * (events + 1) + downs * events + downMore

\* Only a page's first caller makes new ones, once; every event uses up its own
\* and those it might still have brought about.
EventsUsedUp ==
    \/ Reload
    \/ /\ status # "init" => status' # "init"
       /\ \/ status = "init" /\ status' = "loading"
          \/ UNCHANGED <<front, element, frontMore, downs, downMore, events>>
          \/ EventsLeft' < EventsLeft
EventsEnd == [][EventsUsedUp]_pageVars

LEMMA EventWeights ==
    ASSUME NEW e \in Nat \ {0}, NEW n \in Nat
    PROVE  /\ e * e \in Nat /\ n * e \in Nat /\ n * (e + 1) \in Nat
           /\ (n + 1) * e = n * e + e
           /\ n > 0 => n - 1 \in Nat /\ (n - 1) * e = n * e - e
                       /\ (n - 1) * (e + 1) = n * (e + 1) - e - 1
           /\ (e - 1) * (e + 1) = e * e - 1
           /\ 0 * (e + 1) = 0
<1>1. /\ e * e \in Nat /\ n * e \in Nat /\ n * (e + 1) \in Nat OBVIOUS
<1>2. (n + 1) * e = n * e + e OBVIOUS
<1>3. (n - 1) * e = n * e - e /\ (n - 1) * (e + 1) = n * (e + 1) - e - 1 OBVIOUS
<1>4. (e - 1) * (e + 1) = e * e - 1 OBVIOUS
<1> QED BY <1>1, <1>2, <1>3, <1>4

LEMMA EventsLeftNat ==
    ASSUME LoaderTypeOK
    PROVE  events \in Nat \ {0} /\ EventsLeft \in Nat
<1>1. events \in Nat \ {0} /\ frontMore \in Nat /\ downs \in Nat /\ downMore \in Nat
  BY LoaderAssumption DEF LoaderTypeOK
<1>2. /\ events * events \in Nat /\ frontMore * (events + 1) \in Nat /\ downs * events \in Nat
  BY <1>1, EventWeights
<1> QED BY <1>1, <1>2 DEF EventsLeft

\* Whatever comes uses up what it was.
LEMMA ArrivalUsesUp ==
    ASSUME LoaderInv, Arrival
    PROVE  EventsLeft' < EventsLeft
<1> DEFINE e == events
<1>1. /\ e \in Nat \ {0} /\ frontMore \in Nat /\ downs \in Nat /\ downMore \in Nat
      /\ (front = "requested" => frontMore = 0 /\ element = "none")
  BY EventsLeftNat DEF LoaderInv, LoaderTypeOK, OrderInv
<1>2. events' = events BY DEF Arrival, Front, Element, Down, FrontLibrary, FrontElement,
    FrontEmpty, FrontAgain, FrontFails, ElementLoads, ElementFails, DownLibrary, DownEmpty,
    DownAgain, DownFails
<1>3. CASE FrontLibrary
  BY <1>1, <1>2, <1>3, EventWeights DEF FrontLibrary, EventsLeft
<1>4. CASE FrontElement
  BY <1>1, <1>2, <1>4, EventWeights DEF FrontElement, EventsLeft
<1>5. CASE FrontEmpty
  BY <1>1, <1>2, <1>5, EventWeights DEF FrontEmpty, EventsLeft
<1>6. CASE FrontAgain
  BY <1>1, <1>2, <1>6, EventWeights DEF FrontAgain, EventsLeft
<1>7. CASE FrontFails
  BY <1>1, <1>2, <1>7, EventWeights DEF FrontFails, EventsLeft
<1>8. CASE Element
  BY <1>1, <1>2, <1>8, EventWeights DEF Element, ElementLoads, ElementFails, EventsLeft, scripts
<1>9. CASE DownLibrary \/ DownFails
  BY <1>1, <1>2, <1>9, EventWeights DEF DownLibrary, DownFails, EventsLeft
<1>10. CASE DownEmpty
  BY <1>1, <1>2, <1>10, EventWeights DEF DownEmpty, EventsLeft
<1>11. CASE DownAgain
  BY <1>1, <1>2, <1>11, EventWeights DEF DownAgain, EventsLeft
<1> QED BY <1>3, <1>4, <1>5, <1>6, <1>7, <1>8, <1>9, <1>10, <1>11 DEF Arrival, Front, Down

\* A caller waits for something that is still to come, unless loading has failed
\* (lines 34-49, 105-122).
THEOREM SomethingToWaitFor == PageSpec => []WaitersHaveHope
<1>1. PageInv => WaitersHaveHope
  <2> SUFFICES ASSUME PageInv, NEW c \in Callers, Waits(c) > 0, status # "fail"
               PROVE  front = "requested" \/ element \in {"loading", "failed"} \/ downs > 0
      BY DEF WaitersHaveHope
  <2>1. callbacks # <<>> BY WaitsNat DEF PageInv, LoaderInv
  <2> QED BY <2>1 DEF PageInv, LoaderInv, SomethingComes, LoaderTypeOK
<1> QED BY <1>1, PageInvariance, PTL

\* The queue loses nobody, whatever comes while callers wait (lines 12-35, 107-125).
THEOREM QueueKeepsAll == PageSpec => NobodyForgotten
<1>1. ASSUME PageInv, LoaderNext, NEW c \in Callers
      PROVE  ~QueueForgets(c)
  <2>1. LoaderTypeOK /\ Waits(c) \in Nat /\ called[c] \in Nat /\ starter \in Callers \cup {Nobody}
    BY <1>1, WaitsNat DEF PageInv, LoaderInv, LoaderTypeOK
  <2>2. CASE UNCHANGED callbacks
    BY <2>1, <2>2, WaitsUnchanged DEF QueueForgets
  <2>3. CASE Run
    BY <2>1, <2>3, RunFacts DEF QueueForgets
  <2>4. ASSUME NEW d \in Callers, Wait(d) PROVE ~QueueForgets(c)
    BY <2>1, <2>4, WaitFacts DEF QueueForgets
  <2>5. ASSUME NEW d, Refuse(d) PROVE ~QueueForgets(c)
    BY <2>2, <2>5 DEF Refuse
  <2>6. CASE Arrival
    BY <1>1, <2>2, <2>3, <2>5, <2>6 DEF Arrival, Front, Element, Down, FrontLibrary, FrontElement,
       FrontEmpty, FrontAgain, FrontFails, ElementLoads, ElementFails, DownLibrary, DownEmpty,
       DownAgain, DownFails, Loaded, Failed, answers
  <2>7. ASSUME NEW d \in Callers, InitGeetest(d) PROVE ~QueueForgets(c)
    BY <2>2, <2>4, <2>5, <2>7 DEF InitGeetest, AskLoaded, AskFailed, AskLoading, AskInit
  <2> QED BY <1>1, <2>6, <2>7 DEF LoaderNext
<1>2. ASSUME NEW c \in Callers, UNCHANGED loaderVars
      PROVE  ~QueueForgets(c)
  BY <1>2, WaitsUnchanged DEF QueueForgets, loaderVars, answers
<1>3. PageInv /\ [PageNext]_pageVars => [Reload \/ \A c \in Callers : ~QueueForgets(c)]_pageVars
  BY <1>1, <1>2 DEF PageNext
<1> QED BY <1>3, PageInvariance, PTL DEF PageSpec, NobodyForgotten

\* Every event that comes uses up one of finitely many, until the page is left: with
\* SomethingToWaitFor, the loader can only rest when nobody waits or loading failed.
THEOREM LoaderProgress == PageSpec => EventsEnd /\ [](EventsLeft \in Nat)
<1>1. ASSUME PageInv, Arrival
      PROVE  EventsUsedUp
  <2>1. EventsLeft' < EventsLeft BY <1>1, ArrivalUsesUp DEF PageInv
  <2>2. status' # "init" \/ status' = status
    BY <1>1 DEF Arrival, Front, Element, Down, FrontLibrary, FrontElement,
       FrontEmpty, FrontAgain, FrontFails, ElementLoads, ElementFails, DownLibrary, DownEmpty,
       DownAgain, DownFails, Loaded, Failed
  <2> QED BY <2>1, <2>2 DEF EventsUsedUp
<1>2. ASSUME NEW c \in Callers, InitGeetest(c)
      PROVE  EventsUsedUp
  BY <1>2 DEF InitGeetest, AskLoaded, AskFailed, AskLoading, AskInit, EventsUsedUp, scripts
<1>3. ASSUME UNCHANGED loaderVars
      PROVE  EventsUsedUp
  BY <1>3 DEF loaderVars, scripts, EventsUsedUp
<1>4. PageInv /\ [PageNext]_pageVars => [EventsUsedUp]_pageVars
  BY <1>1, <1>2, <1>3 DEF PageNext, LoaderNext, EventsUsedUp
<1>5. PageInv => EventsLeft \in Nat BY EventsLeftNat DEF PageInv, LoaderInv
<1> QED BY <1>4, <1>5, PageInvariance, PTL DEF PageSpec, EventsEnd

-----------------------------------------------------------------------------
(* The calendar.                                                           *)

LEMMA DaysFacts ==
    ASSUME NEW y \in Int, NEW m \in Months
    PROVE  DaysInMonth(y, m) \in 28 .. 31
BY DEF DaysInMonth, IsLeapYear, Months

LEMMA OfMonthFacts ==
    ASSUME NEW y \in Int, NEW m \in Int, NEW d \in Int
    PROVE  OfMonth(y, m, d) \in [y : Int, m : Months, d : Int] /\ OfMonth(y, m, d).d = d
<1>1. m \div 12 \in Int /\ m % 12 \in Months BY DEF Months
<1> HIDE DEF Months
<1> QED BY <1>1 DEF OfMonth, Day

LEMMA OfMonthSame ==
    ASSUME NEW y \in Int, NEW m \in Months, NEW d \in Int
    PROVE  OfMonth(y, m, d) = Day(y, m, d)
<1>1. m \div 12 = 0 /\ m % 12 = m BY DEF Months
<1> QED BY <1>1 DEF OfMonth, Day

LEMMA OfMonthBefore ==
    ASSUME NEW y \in Int, NEW m \in Int, NEW d \in Int, m = -1
    PROVE  OfMonth(y, m, d) = Day(y - 1, 11, d)
<1>1. \A n \in Int : n = -1 => n \div 12 = -1 /\ n % 12 = 11
  <2>1. ASSUME NEW n \in Int
        PROVE  n \div 12 \in Int /\ n % 12 \in 0 .. 11 /\ n = 12 * (n \div 12) + (n % 12)
    OBVIOUS
  <2>2. \A q \in Int, r \in 0 .. 11 : -1 = 12 * q + r => q = -1 /\ r = 11 OBVIOUS
  <2> QED BY ONLY <2>1, <2>2
<1>2. m \div 12 = -1 /\ m % 12 = 11 BY <1>1
<1>3. y + (m \div 12) = y - 1 BY <1>2
<1> QED BY ONLY <1>2, <1>3 DEF OfMonth, Day

LEMMA OfMonthAfter ==
    ASSUME NEW y \in Int, NEW d \in Int
    PROVE  OfMonth(y, 12, d) = Day(y + 1, 0, d)
<1>1. 12 \div 12 = 1 /\ 12 % 12 = 0 OBVIOUS
<1> QED BY <1>1 DEF OfMonth, Day

\* A date, with any number of days.
Almost == [y : Int, m : Months, d : Int]

LEMMA CarryFacts ==
    ASSUME NEW t \in Almost, t.d >= 1
    PROVE  /\ Carry(t) \in Almost /\ Carry(t).d >= 1
           /\ t.d <= DaysInMonth(t.y, t.m) => Carry(t) = t
           /\ t.d > DaysInMonth(t.y, t.m) =>
                 /\ Carry(t) = OfMonth(t.y, t.m + 1, t.d - DaysInMonth(t.y, t.m))
                 /\ Carry(t).d <= t.d - 28
<1> DEFINE n == DaysInMonth(t.y, t.m)
<1>1. n \in 28 .. 31 /\ t.y \in Int /\ t.m \in Int /\ t.d \in Int
    BY DaysFacts DEF Almost, Months
<1>2. Carry(t) = IF t.d > n THEN OfMonth(t.y, t.m + 1, t.d - n) ELSE t
    BY <1>1 DEF Carry
<1> HIDE DEF n
<1>3. /\ OfMonth(t.y, t.m + 1, t.d - n) \in Almost
      /\ OfMonth(t.y, t.m + 1, t.d - n).d = t.d - n
  <2>1. t.m + 1 \in Int /\ t.d - n \in Int BY <1>1
  <2> QED BY <2>1, <1>1, OfMonthFacts DEF Almost
<1> QED BY <1>1, <1>2, <1>3 DEF n

\* Normal leaves a date alone and makes a date of up to 99 days.
LEMMA NormalFacts ==
    ASSUME NEW t \in Almost, t.d \in 1 .. 99
    PROVE  /\ IsDate(Normal(t))
           /\ t.d <= DaysInMonth(t.y, t.m) => Normal(t) = t
<1> DEFINE u == Carry(t)
           v == Carry(u)
<1>1. u \in Almost /\ u.d >= 1 BY CarryFacts
<1>2. v \in Almost /\ v.d >= 1 BY <1>1, CarryFacts
<1>3. Carry(v) \in Almost /\ Carry(v).d >= 1 BY <1>2, CarryFacts
<1>4. Normal(t) = Carry(v) BY DEF Normal
<1>5. t.d <= DaysInMonth(t.y, t.m) => u = t /\ v = t /\ Carry(v) = t BY CarryFacts
<1>6. Carry(v).d <= DaysInMonth(Carry(v).y, Carry(v).m)
  <2> DEFINE days(w) == DaysInMonth(w.y, w.m)
  <2>1. \A w \in Almost : days(w) \in 28 .. 31 /\ w.d \in Int BY DaysFacts DEF Almost
  <2>2. u.d <= 71 \/ (u = t /\ t.d <= days(t))
    BY <2>1, CarryFacts
  <2>3. v.d <= 43 \/ (v = u /\ u.d <= days(u))
    <3>1. CASE u.d <= days(u) BY <3>1, <1>1, CarryFacts
    <3>2. CASE u.d > days(u)
      <4>1. u.d <= 71 BY <2>1, <2>2, <3>2
      <4>2. v.d <= u.d - 28 BY <3>2, <1>1, CarryFacts
      <4> QED BY <4>1, <4>2, <2>1, <1>1, <1>2
    <3> QED BY <3>1, <3>2, <2>1, <1>1
  <2>4. CASE v.d <= days(v) BY <2>4, <1>2, CarryFacts
  <2>5. CASE v.d > days(v)
    <3>1. v.d <= 43 BY <2>1, <2>3, <2>5, <1>2
    <3>2. Carry(v).d <= v.d - 28 BY <2>5, <1>2, CarryFacts
    <3> QED BY <3>1, <3>2, <2>1, <1>2, <1>3
  <2> QED BY <2>4, <2>5, <2>1, <1>2
<1>7. IsDate(Carry(v))
  <2>1. Carry(v).y \in Int /\ Carry(v).m \in Months BY <1>3 DEF Almost
  <2>2. DaysInMonth(Carry(v).y, Carry(v).m) \in 28 .. 31 BY <2>1, DaysFacts
  <2> QED BY <1>3, <1>6, <2>2 DEF IsDate, Almost
<1> QED BY <1>4, <1>5, <1>7

LEMMA MakeDateFacts ==
    ASSUME NEW y \in Int, NEW m \in Int, NEW d \in 1 .. 99
    PROVE  /\ IsDate(MakeDate(y, m, d))
           /\ y >= 1000 /\ d <= 28 => MakeDate(y, m, d) = OfMonth(y, m, d)
           /\ y >= 1000 /\ IsDate(OfMonth(y, m, d)) => MakeDate(y, m, d) = OfMonth(y, m, d)
<1> DEFINE Y == IF y \in 0 .. 99 THEN 1900 + y ELSE y
           t == OfMonth(Y, m, d)
<1>1. Y \in Int /\ (y >= 1000 => Y = y) /\ d \in Int OBVIOUS
<1> HIDE DEF Y
<1>2. t \in Almost /\ t.d = d BY <1>1, OfMonthFacts DEF Almost
<1>3. DaysInMonth(t.y, t.m) \in 28 .. 31 BY <1>2, DaysFacts DEF Almost
<1>4. IsDate(Normal(t)) /\ (t.d <= DaysInMonth(t.y, t.m) => Normal(t) = t)
    BY <1>2, NormalFacts
<1>5. MakeDate(y, m, d) = Normal(t) BY DEF MakeDate, Y
<1> HIDE DEF t
<1>6. d <= 28 => Normal(t) = t BY <1>2, <1>3, <1>4
<1>7. IsDate(t) => Normal(t) = t BY <1>4 DEF IsDate
<1> QED BY <1>1, <1>4, <1>5, <1>6, <1>7 DEF t

\* The cells of a page before its month: Lead(v, w) + 1 of them.
Before(v, d) == OfMonth(v.y, v.m - 1, d)
After(v, d) == OfMonth(v.y, v.m + 1, d)
LastDay(v) == DaysInMonth(Before(v, 28).y, Before(v, 28).m)
Lead(v, w) == (Weekday(Before(v, LastDay(v))) - w + 7) % 7

\* The months next to a page's.
LEMMA NeighbourFacts ==
    ASSUME NEW v, IsDate(v), NEW d \in Int
    PROVE  /\ Before(v, d) \in Almost
           /\ Before(v, d) = IF v.m = 0 THEN Day(v.y - 1, 11, d) ELSE Day(v.y, v.m - 1, d)
           /\ After(v, d) = IF v.m = 11 THEN Day(v.y + 1, 0, d) ELSE Day(v.y, v.m + 1, d)
           /\ OfMonth(Before(v, 28).y, Before(v, 28).m + 1, d) = Day(v.y, v.m, d)
<1>1. v.y \in Int /\ v.m \in Months BY DEF IsDate
<1>2. v.m - 1 \in Int /\ v.m + 1 \in Int BY <1>1 DEF Months
<1>3. Before(v, d) \in Almost BY <1>1, <1>2, OfMonthFacts DEF Almost, Before
<1>4. ASSUME NEW n \in Int
      PROVE  Before(v, n) = IF v.m = 0 THEN Day(v.y - 1, 11, n) ELSE Day(v.y, v.m - 1, n)
  <2>1. CASE v.m = 0
    <3>1. v.m - 1 = -1 BY <2>1
    <3>2. OfMonth(v.y, v.m - 1, n) = Day(v.y - 1, 11, n) BY <3>1, <1>1, <1>2, OfMonthBefore
    <3> QED BY ONLY <3>2, <2>1 DEF Before
  <2>2. CASE v.m # 0
    <3>1. v.m - 1 \in Months BY <2>2, <1>1 DEF Months
    <3> QED BY <3>1, <2>2, <1>1, OfMonthSame DEF Before
  <2> QED BY <2>1, <2>2
<1>5. After(v, d) = IF v.m = 11 THEN Day(v.y + 1, 0, d) ELSE Day(v.y, v.m + 1, d)
  <2>1. CASE v.m = 11
    <3>1. OfMonth(v.y, 12, d) = Day(v.y + 1, 0, d) BY <1>1, OfMonthAfter
    <3>2. v.m + 1 = 12 BY <2>1
    <3> QED BY ONLY <3>1, <3>2, <2>1 DEF After
  <2>2. CASE v.m # 11
    <3>1. v.m + 1 \in Months BY <2>2, <1>1 DEF Months
    <3>2. OfMonth(v.y, v.m + 1, d) = Day(v.y, v.m + 1, d) BY <3>1, <1>1, OfMonthSame
    <3> QED BY ONLY <3>2, <2>2 DEF After
  <2> QED BY <2>1, <2>2
<1>6. OfMonth(Before(v, 28).y, Before(v, 28).m + 1, d) = Day(v.y, v.m, d)
  <2>1. CASE v.m = 0
    <3>1. Before(v, 28).y = v.y - 1 /\ Before(v, 28).m = 11 BY <2>1, <1>4 DEF Day
    <3>2. v.y - 1 \in Int /\ v.y - 1 + 1 = v.y BY <1>1
    <3>3. OfMonth(v.y - 1, 12, d) = Day(v.y - 1 + 1, 0, d) BY <3>2, OfMonthAfter
    <3>4. 11 + 1 = 12 OBVIOUS
    <3> QED BY ONLY <2>1, <3>1, <3>2, <3>3, <3>4
  <2>2. CASE v.m # 0
    <3>1. Before(v, 28).y = v.y /\ Before(v, 28).m = v.m - 1 BY <2>2, <1>4 DEF Day
    <3>2. v.m - 1 + 1 = v.m BY <1>1 DEF Months
    <3>3. OfMonth(v.y, v.m, d) = Day(v.y, v.m, d) BY <1>1, OfMonthSame
    <3> QED BY ONLY <3>1, <3>2, <3>3
  <2> QED BY <2>1, <2>2
<1> QED BY <1>3, <1>4, <1>5, <1>6

LEMMA WeekdayFacts ==
    ASSUME NEW t \in Almost
    PROVE  Weekday(t) \in 0 .. 6
<1> DEFINE p == t.y - 1
           n == 365 * p + (p \div 4) - (p \div 100) + (p \div 400) + DaysBefore(t.y, t.m) + t.d
<1>1. t.y \in Int /\ t.m \in Months /\ t.d \in Int BY DEF Almost
<1>2. DaysBefore(t.y, t.m) \in Int BY <1>1 DEF DaysBefore, Months
<1>3. p \in Int /\ (p \div 4) \in Int /\ (p \div 100) \in Int /\ (p \div 400) \in Int BY <1>1
<1>4. n \in Int
  <2> HIDE DEF p
  <2> QED BY <1>1, <1>2, <1>3
<1>5. Weekday(t) = n % 7 BY DEF Weekday
<1> HIDE DEF n
<1> QED BY <1>4, <1>5

\* The first cell is a day of the month before, at most a week before its end.
LEMMA FirstCellFacts ==
    ASSUME NEW v, IsDate(v), v.y >= 1000, NEW w \in 0 .. 6
    PROVE  /\ Lead(v, w) \in 0 .. 6 /\ LastDay(v) \in 28 .. 31
           /\ FirstCell(v, w) = Before(v, LastDay(v) - Lead(v, w))
<1> DEFINE p == Before(v, 28)
           n == LastDay(v)
           k == Lead(v, w)
           last == Before(v, n)
<1>1. v.y \in Int /\ v.m - 1 \in Int BY DEF IsDate, Months
<1>2. p \in Almost /\ p.d = 28
  <2>1. p \in Almost BY NeighbourFacts
  <2> QED BY <2>1 DEF Before, OfMonth, Day
<1>3. n \in 28 .. 31 BY <1>2, DaysFacts DEF Almost, LastDay
<1>4. MakeDate(v.y, v.m - 1, 28) = p
  <2>1. v.y >= 1000 /\ 28 \in 1 .. 99 /\ 28 <= 28 BY <1>1
  <2>2. MakeDate(v.y, v.m - 1, 28) = OfMonth(v.y, v.m - 1, 28) BY <1>1, <2>1, MakeDateFacts
  <2> QED BY <2>2 DEF Before
<1>5. \A d \in Int : [p EXCEPT !.d = d] = Before(v, d) /\ Before(v, d) \in Almost
  <2> SUFFICES ASSUME NEW d \in Int
               PROVE  [p EXCEPT !.d = d] = Before(v, d) /\ Before(v, d) \in Almost
      OBVIOUS
  <2>1. Before(v, d) \in Almost BY NeighbourFacts
  <2> QED BY <2>1 DEF Before, OfMonth, Day
<1>6. \A d \in Int : Before(v, d).y = p.y /\ Before(v, d).m = p.m /\ Before(v, d).d = d
    BY DEF Before, OfMonth, Day
<1>7. \A d \in 1 .. 31 : d <= n => Normal(Before(v, d)) = Before(v, d)
  <2> SUFFICES ASSUME NEW d \in 1 .. 31, d <= n PROVE Normal(Before(v, d)) = Before(v, d)
      OBVIOUS
  <2>1. Before(v, d) \in Almost /\ Before(v, d).d = d BY <1>5, <1>6
  <2>2. DaysInMonth(Before(v, d).y, Before(v, d).m) = n BY <1>6 DEF LastDay
  <2> QED BY <2>1, <2>2, NormalFacts
<1>8. SetDate(p, DaysInMonth(p.y, p.m)) = last
  <2>1. DaysInMonth(p.y, p.m) = n BY DEF LastDay
  <2>2. n \in Int /\ n \in 1 .. 31 /\ n <= n BY <1>3
  <2>3. [p EXCEPT !.d = n] = last BY <1>5, <2>2
  <2>4. Normal(last) = last BY <1>7, <2>2
  <2> QED BY ONLY <2>1, <2>3, <2>4 DEF SetDate
<1>9. last.d = n /\ last \in Almost BY <1>3, <1>5, <1>6
<1>10. k \in 0 .. 6
  <2>1. Weekday(last) \in 0 .. 6 BY <1>9, WeekdayFacts
  <2>2. Weekday(last) - w + 7 \in Int BY <2>1
  <2> HIDE DEF last
  <2>3. k = (Weekday(last) - w + 7) % 7 BY DEF Lead, last
  <2> QED BY <2>2, <2>3
<1>11. FirstCell(v, w) = SetDate(last, n - k)
    BY <1>4, <1>8, <1>9 DEF FirstCell, Lead
<1>12. SetDate(last, n - k) = Before(v, n - k)
  <2>1. [last EXCEPT !.d = n - k] = Before(v, n - k) BY DEF Before, OfMonth, Day
  <2>2. n - k \in 1 .. 31 /\ n - k <= n BY <1>3, <1>10
  <2> QED BY <2>1, <2>2, <1>7 DEF SetDate
<1> QED BY <1>3, <1>10, <1>11, <1>12

\* The cells of a page: days of the month before, of the month, of the month after.
LEMMA CellFacts ==
    ASSUME NEW v, IsDate(v), v.y >= 1000, NEW w \in 0 .. 6, NEW i \in Cells
    PROVE  LET c == Page(v, w)[i]
               j == i - Lead(v, w)
               n == DaysInMonth(v.y, v.m)
           IN  /\ IsDate(c)
               /\ j < 1 => c = Before(v, LastDay(v) + j)
               /\ j >= 1 /\ j <= n => c = Day(v.y, v.m, j)
               /\ j >= 1 /\ j > n => c = After(v, j - n)
<1> DEFINE c == Page(v, w)[i]
           k == Lead(v, w)
           j == i - k
           n == DaysInMonth(v.y, v.m)
           l == LastDay(v)
           x == l + j
           start == Before(v, x)
<1>1. i \in 0 .. 41 /\ k \in 0 .. 6 /\ l \in 28 .. 31 BY FirstCellFacts DEF Cells
<1>2. n \in 28 .. 31 /\ v.y \in Int /\ v.m \in Months BY DaysFacts DEF IsDate
<1>3. c = SetDate(FirstCell(v, w), FirstCell(v, w).d + i) BY DEF Page
<1>4. FirstCell(v, w) = Before(v, l - k) BY FirstCellFacts
<1> HIDE DEF c, k, n, l
<1>5. x \in 22 .. 72 /\ j \in -6 .. 41 /\ l - k \in Int BY <1>1
<1>6. c = Normal(start)
  <2>1. Before(v, l - k).d = l - k /\ [Before(v, l - k) EXCEPT !.d = x] = start
    BY DEF Before, OfMonth, Day
  <2>2. l - k + i = x BY <1>1
  <2> QED BY <2>1, <2>2, <1>3, <1>4 DEF SetDate
<1>7. start \in Almost /\ start.d = x /\ DaysInMonth(start.y, start.m) = l
  <2>1. start \in Almost BY <1>5, NeighbourFacts
  <2>2. start.d = x /\ start.y = Before(v, 28).y /\ start.m = Before(v, 28).m
    BY DEF Before, OfMonth, Day
  <2> QED BY <2>1, <2>2 DEF LastDay, l
<1>8. IsDate(c)
  <2>1. start.d \in 1 .. 99 BY <1>5, <1>7
  <2> QED BY <2>1, <1>6, <1>7, NormalFacts
<1>9. CASE j < 1
  <2>1. x <= l /\ x \in 1 .. 99 BY <1>9, <1>5, <1>1
  <2>2. Normal(start) = start BY <1>7, <2>1, NormalFacts
  <2>3. c = Before(v, l + j) BY <1>6, <2>2
  <2> QED BY <2>3, <1>9, <1>5, <1>8 DEF c, k, l, n
<1>10. CASE j >= 1
  <2> DEFINE here == Day(v.y, v.m, j)
  <2>1. Carry(start) = here
    <3>1. x > l /\ x >= 1 /\ x - l = j BY <1>10, <1>5, <1>1
    <3>2. Carry(start) = OfMonth(start.y, start.m + 1, j) BY <3>1, <1>7, CarryFacts
    <3>3. start.y = Before(v, 28).y /\ start.m = Before(v, 28).m BY DEF Before, OfMonth, Day
    <3>4. OfMonth(Before(v, 28).y, Before(v, 28).m + 1, j) = here BY <1>5, NeighbourFacts
    <3> QED BY ONLY <3>2, <3>3, <3>4
  <2>2. here \in Almost /\ here.y = v.y /\ here.m = v.m /\ here.d = j
    BY <1>2, <1>5 DEF Day, Almost
  <2>3. c = Carry(Carry(here)) BY <1>6, <2>1 DEF Normal
  <2> HIDE DEF here
  <2>4. CASE j <= n
    <3>1. Carry(here) = here BY <2>2, <2>4, <1>10, CarryFacts DEF n
    <3>2. c = here BY <2>3, <3>1
    <3> QED BY <3>2, <2>4, <1>10, <1>2, <1>5, <1>8 DEF here, c, k, n
  <2>5. CASE j > n
    <3> DEFINE there == After(v, j - n)
    <3>1. Carry(here) = there BY <2>2, <2>5, <1>10, CarryFacts DEF n, After
    <3>2. there \in Almost /\ there.d = j - n
      <4>1. v.y \in Int /\ v.m + 1 \in Int /\ j - n \in Int BY <1>2, <1>5 DEF Months
      <4> QED BY <4>1, OfMonthFacts DEF After, Almost
    <3>3. there.d \in 1 .. 13 BY <3>2, <2>5, <1>2, <1>5
    <3>4. there.d <= DaysInMonth(there.y, there.m)
      <4>1. DaysInMonth(there.y, there.m) \in 28 .. 31 BY <3>2, DaysFacts DEF Almost
      <4> QED BY <4>1, <3>3
    <3> HIDE DEF there
    <3>5. Carry(there) = there BY <3>2, <3>3, <3>4, CarryFacts
    <3>6. c = there BY <2>3, <3>1, <3>5
    <3> QED BY <3>6, <2>5, <1>10, <1>2, <1>5, <1>8 DEF there, c, k, n
  <2> QED BY <2>4, <2>5, <1>2, <1>5
<1> QED BY <1>9, <1>10, <1>5

\* The class of a cell tells its month.
Beside(v, class) ==
    CASE class = "old" -> v.m - 1 [] class = "new" -> v.m + 1 [] OTHER -> v.m

LEMMA ClassFacts ==
    ASSUME NEW v, IsDate(v), v.y >= 1000, NEW w \in 0 .. 6, NEW i \in Cells
    PROVE  LET c == Page(v, w)[i]
           IN  IsDate(c) /\ c = OfMonth(v.y, Beside(v, CellClass(v, c)), c.d)
<1> DEFINE c == Page(v, w)[i]
           j == i - Lead(v, w)
           n == DaysInMonth(v.y, v.m)
           l == LastDay(v)
           class == CellClass(v, c)
<1>1. v.y \in Int /\ v.m \in Months /\ v.m \in 0 .. 11 /\ v.y >= 1000 BY DEF IsDate, Months
<1>2. /\ IsDate(c)
      /\ j < 1 => c = Before(v, l + j)
      /\ j >= 1 /\ j <= n => c = Day(v.y, v.m, j)
      /\ j >= 1 /\ j > n => c = After(v, j - n)
    BY CellFacts
<1>3. j \in Int /\ l \in Int /\ n \in Int BY <1>1, FirstCellFacts, DaysFacts DEF Cells
<1>4. c.d \in 1 .. 31 BY <1>2 DEF IsDate
<1> SUFFICES c = OfMonth(v.y, Beside(v, class), c.d) BY <1>2
<1> HIDE DEF c, j, n, l, class
<1>5. CASE j < 1
  <2>1. c = Before(v, c.d)
    <3>1. c = Before(v, l + j) BY <1>5, <1>2
    <3>2. c.d = l + j BY ONLY <3>1 DEF Before, OfMonth, Day
    <3> QED BY ONLY <3>1, <3>2
  <2>2. c = IF v.m = 0 THEN Day(v.y - 1, 11, c.d) ELSE Day(v.y, v.m - 1, c.d)
    BY <2>1, <1>4, NeighbourFacts
  <2>3. class = "old" BY <2>2, <1>1 DEF class, CellClass, Day
  <2> QED BY ONLY <2>1, <2>3 DEF Before, Beside
<1>6. CASE j >= 1 /\ j <= n
  <2>1. c = Day(v.y, v.m, c.d) BY <1>6, <1>2 DEF Day
  <2>2. class = "" BY <2>1, <1>1 DEF class, CellClass, Day
  <2>3. OfMonth(v.y, v.m, c.d) = c BY <2>1, <1>1, <1>4, OfMonthSame
  <2>4. Beside(v, class) = v.m BY ONLY <2>2 DEF Beside
  <2> QED BY ONLY <2>3, <2>4
<1>7. CASE j >= 1 /\ j > n
  <2>1. c = After(v, c.d)
    <3>1. c = After(v, j - n) BY <1>7, <1>2
    <3>2. c.d = j - n BY ONLY <3>1 DEF After, OfMonth, Day
    <3> QED BY ONLY <3>1, <3>2
  <2>2. c = IF v.m = 11 THEN Day(v.y + 1, 0, c.d) ELSE Day(v.y, v.m + 1, c.d)
    BY <2>1, <1>4, NeighbourFacts
  <2>3. class = "new" BY <2>2, <1>1 DEF class, CellClass, Day
  <2> QED BY ONLY <2>1, <2>3 DEF After, Beside
<1> QED BY <1>5, <1>6, <1>7, <1>3

\* A click on a cell picks the cell's date, for fill draws what click reads, and
\* turns the page to its month.
LEMMA PickedFacts ==
    ASSUME IsDate(viewDate), viewDate.y >= 1000, NEW w \in 0 .. 6, NEW i \in Cells
    PROVE  LET c == Page(viewDate, w)[i]
               class == CellClass(viewDate, c)
           IN  /\ IsDate(c)
               /\ Picked(class, c.d, 31) = c
               /\ IsDate(Picked(class, c.d, 28)) /\ Picked(class, c.d, 28).d <= 28
               /\ Picked(class, c.d, 28).y = c.y /\ Picked(class, c.d, 28).m = c.m
<1> DEFINE c == Page(viewDate, w)[i]
           class == CellClass(viewDate, c)
           k == Beside(viewDate, class)
           e == IF 28 < c.d THEN 28 ELSE c.d
<1>1. IsDate(c) /\ c = OfMonth(viewDate.y, k, c.d) BY ClassFacts
<1>2. c.d \in 1 .. 31 BY <1>1 DEF IsDate
<1>3. viewDate.y \in Int /\ k \in Int BY DEF IsDate, Months, Beside
<1> HIDE DEF c, class
<1>4. /\ Picked(class, c.d, 31) = MakeDate(viewDate.y, k, c.d)
      /\ Picked(class, c.d, 28) = MakeDate(viewDate.y, k, e)
  <2>1. ~(31 < c.d) BY <1>2
  <2> QED BY ONLY <2>1 DEF Picked, k, e, Beside
<1>5. e \in 1 .. 28 /\ e \in 1 .. 99 /\ c.d \in 1 .. 99 BY <1>2
<1> HIDE DEF k, e
<1>6. MakeDate(viewDate.y, k, c.d) = c BY <1>1, <1>3, <1>5, MakeDateFacts
<1>7. IsDate(MakeDate(viewDate.y, k, e)) /\ MakeDate(viewDate.y, k, e) = OfMonth(viewDate.y, k, e)
  <2>1. e <= 28 /\ viewDate.y >= 1000 BY <1>5
  <2> QED BY <2>1, <1>3, <1>5, MakeDateFacts
<1>8. OfMonth(viewDate.y, k, e).d <= 28
  <2>1. OfMonth(viewDate.y, k, e).d = e BY DEF OfMonth, Day
  <2> QED BY <2>1, <1>5
<1>9. /\ OfMonth(viewDate.y, k, e).y = OfMonth(viewDate.y, k, c.d).y
      /\ OfMonth(viewDate.y, k, e).m = OfMonth(viewDate.y, k, c.d).m
  BY DEF OfMonth, Day
<1>10. OfMonth(viewDate.y, k, e).y = c.y /\ OfMonth(viewDate.y, k, e).m = c.m BY ONLY <1>9, <1>1
<1>11. /\ IsDate(c)
       /\ Picked(class, c.d, 31) = c
       /\ IsDate(Picked(class, c.d, 28)) /\ Picked(class, c.d, 28).d <= 28
       /\ Picked(class, c.d, 28).y = c.y /\ Picked(class, c.d, 28).m = c.m
  BY ONLY <1>1, <1>4, <1>6, <1>7, <1>8, <1>10
<1> QED BY <1>11 DEF c, class

-----------------------------------------------------------------------------
(* Reading a text.                                                         *)

LEMMA LastPlace ==
    \A n \in Nat : \A S \in SUBSET (1 .. n) :
        S # {} => \E i \in S : \A j \in S : j <= i
<1> SUFFICES ASSUME NEW n \in Nat, NEW S \in SUBSET (1 .. n), S # {}
             PROVE  \E i \in S : \A j \in S : j <= i
  OBVIOUS
<1> DEFINE R == OpToRel(<, Nat)
           T == {n - i : i \in S}
<1>1. IsWellFoundedOn(R, Nat) BY NatLessThanWellFounded
<1>2. T \subseteq Nat /\ T # {}
  <2>1. \A i \in 1 .. n : n - i \in Nat OBVIOUS
  <2>2. PICK i \in S : TRUE OBVIOUS
  <2>3. n - i \in T BY <2>2
  <2> QED BY <2>1, <2>3
<1> HIDE DEF R, T
<1>3. PICK x \in T : \A y \in T : ~ (<<y, x>> \in R) BY <1>1, <1>2, WFMin
<1>4. PICK i \in S : x = n - i BY <1>3 DEF T
<1>5. ASSUME NEW j \in S PROVE j <= i
  <2>1. n - j \in T /\ n - j \in Nat /\ x \in Nat BY <1>2, <1>3 DEF T
  <2>2. ~ (n - j < x) BY <1>3, <2>1 DEF R, OpToRel
  <2> QED BY <1>4, <2>1, <2>2
<1> QED BY <1>4, <1>5

LEMMA NumbersFacts == \A x \in Numbers : x \in Nat
BY DEF Numbers

\* A part of a text is the default, 1, or what the text has for such a field.
LEMMA PartFacts ==
    ASSUME NEW s, NEW format \in Seq(Fields), DOMAIN s = DOMAIN format, NEW fs, NEW default
    PROVE  \/ Part(s, format, fs, default) = default
           \/ Part(s, format, fs, default) = 1
           \/ \E i \in DOMAIN s \cap DOMAIN format :
                 format[i] \in fs /\ s[i] # 0 /\ Part(s, format, fs, default) = s[i]
<1> DEFINE places == {i \in DOMAIN format : format[i] \in fs}
           last == CHOOSE i \in places : \A j \in places : j <= i
<1>1. CASE places = {} BY <1>1 DEF Part
<1>2. CASE places # {}
  <2>1. Len(format) \in Nat /\ places \in SUBSET (1 .. Len(format)) OBVIOUS
  <2>2. \E i \in places : \A j \in places : j <= i
    <3> DEFINE n == Len(format)
    <3>1. n \in Nat BY <2>1
    <3>2. places \in SUBSET (1 .. n) BY <2>1
    <3> HIDE DEF places, n
    <3>3. places # {} BY <1>2
    <3> QED BY <3>1, <3>2, <3>3, LastPlace, Zenon
  <2>3. last \in places
    <3> HIDE DEF places
    <3> QED BY <2>2
  <2>4. last \in DOMAIN format /\ format[last] \in fs
    <3> HIDE DEF last
    <3> QED BY <2>3
  <2>5. Part(s, format, fs, default) = IF s[last] = 0 THEN 1 ELSE s[last]
    BY <1>2 DEF Part
  <2> HIDE DEF last, places
  <2> QED BY <2>4, <2>5
<1> QED BY <1>1, <1>2

\* A text, or what became of it, with a number for each field.
Numbered(s, format) == DOMAIN s = DOMAIN format /\ \A i \in DOMAIN s : s[i] \in Int

LEMMA PartIsInt ==
    ASSUME NEW s, NEW format \in Seq(Fields), Numbered(s, format), NEW fs, NEW default \in Int
    PROVE  Part(s, format, fs, default) \in Int
<1> DEFINE part == Part(s, format, fs, default)
<1>1. DOMAIN s = DOMAIN format BY DEF Numbered
<1>2. \/ part = default \/ part = 1
      \/ \E i \in DOMAIN s \cap DOMAIN format : format[i] \in fs /\ s[i] # 0 /\ part = s[i]
    BY <1>1, PartFacts
<1> HIDE DEF part
<1>3. part \in Int BY <1>2 DEF Numbered
<1> QED BY <1>3 DEF part

\* Every text that says no more days than there can be reads as a date.
LEMMA ParsedFacts ==
    ASSUME config \in Configs, NEW s, Readable(s, config.format)
    PROVE  IsDate(Parsed(s))
<1> DEFINE format == config.format
           full == FullYears(s, format)
           day == Part(s, format, {"d"}, Today.d)
           month == Part(s, format, {"m"}, Today.m + 1)
           year == YearPart(s, format, Today)
<1>1. s \in Seq(Numbers) /\ IsDate(Today) BY PickerAssumption DEF Readable
<1>2. format \in Seq(Fields) BY PickerAssumption
<1>3. Len(s) = Len(format) => \A i \in DOMAIN s : format[i] = "d" => s[i] <= 99
  BY DEF Readable
<1>4. Today.y \in Int /\ Today.m + 1 \in Int /\ Today.d \in 1 .. 31
  BY <1>1 DEF IsDate, Months
<1>5. CASE Len(s) # Len(format) BY <1>1, <1>5 DEF Parsed, ParseDate
<1>6. CASE Len(s) = Len(format)
  <2>1. ASSUME NEW i \in DOMAIN s PROVE s[i] \in Nat
    <3>1. s[i] \in Numbers BY <1>1
    <3> QED BY <3>1, NumbersFacts
  <2>2. Parsed(s) = MakeDate(year, month - 1, day)
    BY <1>6 DEF Parsed, ParseDate
  <2> HIDE DEF format
  <2>3. DOMAIN s = DOMAIN format BY <1>1, <1>2, <1>6
  <2>4. Numbered(s, format) BY <2>1, <2>3 DEF Numbered
  <2>5. Numbered(full, format)
    <3>1. DOMAIN full = DOMAIN format BY DEF FullYears
    <3>2. ASSUME NEW i \in DOMAIN format PROVE full[i] \in Int
      <4>1. s[i] \in Int BY <2>1, <2>3
      <4>2. full[i] = IF format[i] # "yy" THEN s[i] ELSE 2000 + (IF s[i] = 0 THEN 1 ELSE s[i])
        BY DEF FullYears
      <4> QED BY <4>1, <4>2
    <3> HIDE DEF full
    <3> QED BY <3>1, <3>2 DEF Numbered
  <2>6. day \in 1 .. 99
    <3>1. \/ day = Today.d \/ day = 1
          \/ \E i \in DOMAIN s \cap DOMAIN format :
                format[i] \in {"d"} /\ s[i] # 0 /\ day = s[i]
      BY <1>2, <2>3, PartFacts
    <3> HIDE DEF day
    <3>2. ASSUME NEW i \in DOMAIN s \cap DOMAIN format,
                 format[i] \in {"d"}, s[i] # 0, day = s[i]
          PROVE  day \in 1 .. 99
      <4>1. s[i] \in Nat BY <3>2, <2>1
      <4>2. s[i] <= 99 BY <3>2, <1>3, <1>6
      <4>3. s[i] # 0 /\ day = s[i] BY <3>2
      <4>4. \A x \in Nat : x <= 99 /\ x # 0 => x \in 1 .. 99 OBVIOUS
      <4> QED BY ONLY <4>1, <4>2, <4>3, <4>4
    <3> QED BY ONLY <3>1, <3>2, <1>4
  <2>7. month \in Int BY <1>2, <1>4, <2>4, PartIsInt
  <2>8. year \in Int
    <3> HIDE DEF full
    <3>1. Part(full, format, {"yy", "yyyy"}, Today.y) \in Int BY <1>2, <1>4, <2>5, PartIsInt
    <3> QED BY <3>1 DEF YearPart, full
  <2> HIDE DEF day, month, year
  <2>9. month - 1 \in Int BY <2>7
  <2> QED BY ONLY <2>2, <2>6, <2>8, <2>9, MakeDateFacts
<1> QED BY <1>5, <1>6

\* The texts that are typed or set can be read, ...
LEMMA TextsFacts ==
    ASSUME config \in Configs, NEW s \in Texts
    PROVE  Readable(s, config.format) /\ IsDate(Parsed(s))
<1>1. Readable(s, config.format) BY PickerAssumption
<1> QED BY <1>1, ParsedFacts

\* ... and so can what the picker writes.
LEMMA FormatFacts ==
    ASSUME NEW t, IsDate(t), t.y \in 1000 .. 9999, NEW format \in Seq(Fields)
    PROVE  Readable(FormatDate(t, format), format)
<1> DEFINE s == FormatDate(t, format)
           n == Len(format)
           y == t.y
           m == t.m
           d == t.d
<1>1. n \in Nat /\ DOMAIN format = 1 .. n OBVIOUS
<1>2. d \in 1 .. 31 /\ m \in 0 .. 11 /\ y \in 1000 .. 9999 BY DEF IsDate, Months
<1>3. ASSUME NEW i \in DOMAIN format
      PROVE  /\ format[i] = "d" => s[i] = d
             /\ format[i] = "m" => s[i] = m + 1
             /\ format[i] = "yy" => s[i] = y % 100
             /\ format[i] = "yyyy" => s[i] = y
  BY DEF FormatDate
<1>4. DOMAIN s = DOMAIN format /\ s = [i \in DOMAIN format |-> s[i]]
  <2>1. \A e : s = e => DOMAIN e = DOMAIN format /\ e = [i \in DOMAIN format |-> e[i]]
    BY DEF FormatDate
  <2> HIDE DEF s
  <2> QED BY <2>1
<1> HIDE DEF s, n, y, m, d
<1>5. /\ d \in Numbers /\ d <= 99 /\ m + 1 \in Numbers
      /\ y % 100 \in Numbers /\ y \in Numbers
  BY ONLY <1>2 DEF Numbers
<1>6. ASSUME NEW i \in DOMAIN format
      PROVE  s[i] \in Numbers /\ (format[i] = "d" => s[i] <= 99)
  <2>1. format[i] \in Fields OBVIOUS
  <2> DEFINE f == format[i]
             v == s[i]
  <2>2. /\ f = "d" => v = d
        /\ f = "m" => v = m + 1
        /\ f = "yy" => v = y % 100
        /\ f = "yyyy" => v = y
    BY <1>3
  <2>3. f \in {"d", "m", "yy", "yyyy"} BY <2>1 DEF Fields
  <2> HIDE DEF f, v
  <2>4. v \in Numbers /\ (f = "d" => v <= 99)
    <3>1. CASE f = "d"
      <4>1. v = d BY <2>2, <3>1
      <4> QED BY ONLY <4>1, <1>5
    <3>2. CASE f # "d"
      <4>1. v \in {m + 1, y % 100, y} BY ONLY <2>2, <2>3, <3>2
      <4> QED BY ONLY <4>1, <3>2, <1>5
    <3> QED BY <3>1, <3>2
  <2> QED BY <2>4 DEF f, v
<1>7. s \in Seq(Numbers)
  <2> DEFINE e == [i \in 1 .. n |-> s[i]]
  <2>1. s = e BY <1>1, <1>4
  <2>2. \A i \in 1 .. n : s[i] \in Numbers BY <1>1, <1>6
  <2>3. e \in Seq(Numbers) BY <1>1, <2>2
  <2> HIDE DEF e
  <2> QED BY <2>1, <2>3
<1>8. Readable(s, format) BY <1>4, <1>6, <1>7 DEF Readable
<1> QED BY <1>8 DEF s

-----------------------------------------------------------------------------
(* The picker.                                                             *)

\* A date that a page can be on.
PageDate(t) == IsDate(t) /\ InReach(t) /\ t.d <= 28

LEMMA YearsFacts ==
    ASSUME NEW t, InReach(t)
    PROVE  t.y >= 1000 /\ t.y \in 1000 .. 9999
<1> DEFINE n == t.y
<1>1. n \in Years BY DEF InReach
<1> HIDE DEF n
<1>2. n >= 1000 /\ n \in 1000 .. 9999 BY <1>1, PickerAssumption
<1> QED BY <1>2 DEF n

LEMMA ConfigFacts ==
    ASSUME config \in Configs
    PROVE  /\ config.startMode \in 0 .. 2 /\ config.minMode \in 0 .. 2
           /\ config.weekStart \in 0 .. 6 /\ config.format \in Seq(Fields)
<1>1. config \in [format : Seq(Fields), weekStart : 0 .. 6, minMode : ViewModes,
                  startMode : ViewModes, isInput : BOOLEAN]
  BY PickerAssumption
<1> QED BY <1>1 DEF ViewModes

LEMMA FirstOfFacts ==
    ASSUME NEW t, IsDate(t), InReach(t)
    PROVE  FirstOf(t) = Day(t.y, t.m, 1) /\ PageDate(FirstOf(t))
<1>1. t.y \in Int /\ t.m \in Months /\ t.m \in Int BY DEF IsDate, Months
<1>2. t.y >= 1000 BY YearsFacts
<1>3. /\ IsDate(MakeDate(t.y, t.m, 1))
      /\ MakeDate(t.y, t.m, 1) = OfMonth(t.y, t.m, 1)
  <2>1. 1 \in 1 .. 99 /\ 1 <= 28 OBVIOUS
  <2> QED BY ONLY <2>1, <1>1, <1>2, MakeDateFacts
<1>4. FirstOf(t) = Day(t.y, t.m, 1) BY <1>1, <1>3, OfMonthSame DEF FirstOf
<1>5. IsDate(FirstOf(t)) BY <1>3 DEF FirstOf
<1>6. FirstOf(t).y = t.y /\ FirstOf(t).m = t.m /\ FirstOf(t).d = 1 BY <1>4 DEF Day
<1> QED BY <1>4, <1>5, <1>6 DEF PageDate, InReach

\* Turning a page to another month or year keeps its day, which every month has.
LEMMA TurnFacts ==
    ASSUME NEW v, PageDate(v), NEW k \in Int
    PROVE  /\ SetMonth(v, k) = OfMonth(v.y, k, v.d)
           /\ IsDate(SetMonth(v, k)) /\ SetMonth(v, k).d = v.d
           /\ SetFullYear(v, k) = [v EXCEPT !.y = k]
           /\ IsDate(SetFullYear(v, k)) /\ SetFullYear(v, k).d = v.d
<1>1. v.y \in Int /\ v.m \in Months /\ v.d \in 1 .. 28 BY DEF PageDate, IsDate
<1>2. v \in [y : Int, m : Months, d : 1 .. 31] BY DEF PageDate, IsDate
<1>3. ASSUME NEW t \in Almost, t.d = v.d
      PROVE  Normal(t) = t /\ IsDate(Normal(t))
  <2>1. t.y \in Int /\ t.m \in Months BY DEF Almost
  <2>2. DaysInMonth(t.y, t.m) \in 28 .. 31 BY <2>1, DaysFacts
  <2>3. t.d <= DaysInMonth(t.y, t.m) /\ t.d \in 1 .. 99 BY <2>2, <1>1, <1>3
  <2> QED BY <2>3, NormalFacts
<1>4. OfMonth(v.y, k, v.d) \in Almost /\ OfMonth(v.y, k, v.d).d = v.d
  <2>1. v.d \in Int BY <1>1
  <2> QED BY <2>1, <1>1, OfMonthFacts DEF Almost
<1>5. [v EXCEPT !.y = k] \in Almost /\ [v EXCEPT !.y = k].d = v.d BY <1>2 DEF Almost
<1> QED BY <1>3, <1>4, <1>5 DEF SetMonth, SetFullYear

\* What the handlers share: the dates and the page, ...
DatesInv ==
    /\ config \in Configs
    /\ IsDate(date) /\ InReach(date)
    /\ PageDate(viewDate)
    /\ drawn = [view |-> viewDate, date |-> date]
    /\ Readable(text, config.format)
    /\ behind \in BOOLEAN

\* ... the mode, ...
ModesInv == viewMode \in ViewModes /\ panel = viewMode /\ strayed \in BOOLEAN /\ ModeInv

\* ... and the window.
WindowInv ==
    /\ resizes \in Nat /\ mousedowns \in Nat
    /\ shown \in BOOLEAN /\ over \in BOOLEAN /\ above \in BOOLEAN /\ scrolled \in BOOLEAN
    /\ PlacedInv

LEMMA PickerParts == PickerInv <=> DatesInv /\ ModesInv /\ WindowInv
BY DEF PickerInv, PickerTypeOK, DrawnInv, DatesInv, ModesInv, WindowInv, PageDate

LEMMA PickerPartsNext == DatesInv' /\ ModesInv' /\ WindowInv' => PickerInv'
BY DEF PickerInv, PickerTypeOK, DrawnInv, DatesInv, ModesInv, WindowInv, PageDate

LEMMA DatesKept ==
    ASSUME DatesInv, UNCHANGED <<config, dates>>
    PROVE  DatesInv'
BY DEF DatesInv, dates, InReach, PageDate, IsDate

LEMMA ModesKept ==
    ASSUME ModesInv, UNCHANGED <<config, modes, shown>>
    PROVE  ModesInv'
BY DEF ModesInv, ModeInv, modes

LEMMA WindowKept ==
    ASSUME WindowInv, UNCHANGED window
    PROVE  WindowInv'
BY DEF WindowInv, PlacedInv, window

\* What set writes can be read again.
LEMMA WrittenFacts ==
    ASSUME config \in Configs, NEW t, IsDate(t), InReach(t)
    PROVE  Readable(FormatDate(t, config.format), config.format)
<1> DEFINE format == config.format
<1>1. t.y \in 1000 .. 9999 BY YearsFacts
<1>2. format \in Seq(Fields) BY ConfigFacts
<1> HIDE DEF format
<1>3. Readable(FormatDate(t, format), format) BY <1>1, <1>2, FormatFacts
<1> QED BY <1>3 DEF format

\* The constructor.
LEMMA PickerStart ==
    ASSUME PickerInit
    PROVE  PickerInv
<1> USE DEF PickerInit
<1>1. config \in Configs /\ text \in Texts OBVIOUS
<1>2. Readable(text, config.format) /\ IsDate(date) /\ InReach(date) BY <1>1, TextsFacts
<1>3. PageDate(viewDate) BY <1>2, FirstOfFacts
<1>4. DatesInv BY <1>1, <1>2, <1>3 DEF DatesInv
<1>5. ModesInv BY <1>1, ConfigFacts DEF ModesInv, ModeInv, ViewModes
<1>6. WindowInv
  <2>1. /\ resizes = 0 /\ mousedowns = 0
        /\ shown = FALSE /\ over \in BOOLEAN /\ above = FALSE /\ scrolled = FALSE
    OBVIOUS
  <2>2. resizes \in Nat /\ mousedowns \in Nat BY <2>1
  <2>3. shown \in BOOLEAN /\ above \in BOOLEAN /\ scrolled \in BOOLEAN /\ ~shown BY <2>1, Zenon
  <2>4. ~(resizes > 0) BY <2>1
  <2> QED BY <2>1, <2>2, <2>3, <2>4, Zenon DEF WindowInv, PlacedInv
<1> QED BY <1>4, <1>5, <1>6, PickerParts

LEMMA ShowStep ==
    ASSUME PickerInv, Show
    PROVE  PickerInv'
<1> USE DEF Show, Place
<1>1. DatesInv /\ ModesInv /\ WindowInv BY PickerParts
<1>2. DatesInv' BY <1>1, DatesKept
<1>3. ModesInv' BY <1>1 DEF ModesInv, ModeInv
<1>4. WindowInv'
  <2>1. resizes' \in Nat /\ mousedowns' \in Nat /\ resizes' > 0 BY <1>1 DEF WindowInv
  <2>2. shown' = TRUE /\ over \in BOOLEAN /\ over' = over /\ above' = over /\ scrolled' = FALSE
    BY <1>1 DEF WindowInv
  <2> QED BY <2>1, <2>2, Zenon DEF WindowInv, PlacedInv
<1> QED BY <1>2, <1>3, <1>4, PickerPartsNext

LEMMA HideStep ==
    ASSUME PickerInv, Hide
    PROVE  PickerInv'
<1> USE DEF Hide
<1>1. DatesInv /\ ModesInv /\ WindowInv BY PickerParts
<1>2. DatesInv' BY <1>1, DatesKept
<1>3. ModesInv'
  <2>1. config \in Configs BY <1>1 DEF DatesInv
  <2> QED BY <2>1, ConfigFacts DEF ModesInv, ModeInv, ViewModes
<1>4. WindowInv'
  <2>1. mousedowns \in Nat /\ over \in BOOLEAN /\ above \in BOOLEAN BY <1>1 DEF WindowInv
  <2>2. resizes' \in Nat /\ ~(resizes' > 0)
    <3>1. resizes' = 0 OBVIOUS
    <3> QED BY <3>1
  <2>3. shown' = FALSE /\ scrolled' \in BOOLEAN BY Zenon
  <2>4. UNCHANGED <<mousedowns, over, above>> OBVIOUS
  <2> QED BY <2>1, <2>2, <2>3, <2>4, Zenon DEF WindowInv, PlacedInv
<1> QED BY <1>2, <1>3, <1>4, PickerPartsNext

LEMMA RoomStep ==
    ASSUME PickerInv, Resize \/ Scroll
    PROVE  PickerInv'
<1> USE DEF Resize, Scroll
<1>1. DatesInv /\ ModesInv /\ WindowInv BY PickerParts
<1>2. DatesInv' BY <1>1, DatesKept
<1>3. ModesInv' BY <1>1, ModesKept
<1>4. WindowInv'
  <2>1. UNCHANGED <<shown, resizes, mousedowns>> /\ over' \in BOOLEAN OBVIOUS
  <2>2. CASE Resize /\ resizes > 0
    <3>1. above' = over' /\ scrolled' = FALSE BY <2>2
    <3> QED BY <1>1, <2>1, <3>1, Zenon DEF WindowInv, PlacedInv
  <2>3. CASE Resize /\ ~(resizes > 0)
    <3>1. UNCHANGED <<above, scrolled>> /\ ~shown BY <1>1, <2>3 DEF WindowInv, PlacedInv
    <3> QED BY <1>1, <2>1, <3>1, Zenon DEF WindowInv, PlacedInv
  <2>4. CASE Scroll
    <3>1. above' = above /\ scrolled' = shown BY <2>4
    <3> QED BY <1>1, <2>1, <3>1, Zenon DEF WindowInv, PlacedInv
  <2> QED BY <2>2, <2>3, <2>4
<1> QED BY <1>2, <1>3, <1>4, PickerPartsNext

\* A date from outside and its page.
LEMMA DateStep ==
    ASSUME PickerInv, UNCHANGED <<config, modes, window>>,
           IsDate(date'), InReach(date'), viewDate' = FirstOf(date'), Fill,
           Readable(text', config.format), behind' \in BOOLEAN
    PROVE  PickerInv'
<1>1. DatesInv /\ ModesInv /\ WindowInv BY PickerParts
<1>2. config \in Configs /\ config' = config BY <1>1 DEF DatesInv
<1>3. IsDate(date') /\ InReach(date') OBVIOUS
<1>4. PageDate(viewDate') BY <1>3, FirstOfFacts
<1>5. DatesInv' BY <1>2, <1>3, <1>4 DEF DatesInv, Fill, PageDate, IsDate, InReach
<1>6. ModesInv' /\ WindowInv' BY <1>1, ModesKept, WindowKept DEF window
<1> QED BY <1>5, <1>6, PickerPartsNext

\* showMode, by steps up or down, while the popup is visible or called by the app.
LEMMA ModeStep ==
    ASSUME PickerInv, UNCHANGED <<config, shown>>, NEW dir \in -2 .. 2, ShowMode(dir),
           strayed' \in BOOLEAN, shown \/ strayed' = TRUE
    PROVE  ModesInv'
<1>1. config \in Configs /\ viewMode \in 0 .. 2 BY DEF PickerInv, PickerTypeOK, ViewModes
<1>2. config.minMode \in 0 .. 2 BY <1>1, ConfigFacts
<1> DEFINE up == IF viewMode + dir < 2 THEN viewMode + dir ELSE 2
           min == config.minMode
<1>3. up \in -2 .. 2 BY <1>1
<1>4. /\ viewMode' = IF dir = 0 THEN viewMode ELSE IF up > min THEN up ELSE min
      /\ panel' = viewMode'
  BY DEF ShowMode
<1> HIDE DEF up
<1>5. viewMode' \in 0 .. 2 /\ (viewMode' = viewMode \/ viewMode' >= min)
  BY <1>1, <1>2, <1>3, <1>4
<1>6. config.startMode >= min => viewMode >= min BY DEF PickerInv, ModeInv
<1>7. ~shown' => strayed' OBVIOUS
<1> QED BY <1>4, <1>5, <1>6, <1>7 DEF ModesInv, ModeInv, ViewModes

\* What a click does to the dates.
LEMMA PageStep ==
    ASSUME PickerInv, UNCHANGED <<config, window>>, ModesInv', Fill, Set,
           IsDate(date'), InReach(date'), PageDate(viewDate')
    PROVE  PickerInv'
<1>1. DatesInv /\ ModesInv /\ WindowInv BY PickerParts
<1>2. WindowInv' BY <1>1, WindowKept
<1>3. behind' = FALSE BY Zenon DEF Set
<1>4. Readable(text', config.format) BY <1>1, WrittenFacts DEF DatesInv, Set
<1>5. DatesInv' BY <1>1, <1>3, <1>4 DEF DatesInv, Fill, PageDate, IsDate, InReach
<1> QED BY <1>2, <1>5, PickerPartsNext

LEMMA ArrowStep ==
    ASSUME PickerInv, NEW k \in {-1, 1}, ClickArrow(k)
    PROVE  PickerInv'
<1> USE DEF ClickArrow
<1>1. DatesInv /\ ModesInv BY PickerParts
<1>2. ModesInv' BY <1>1, ModesKept DEF window
<1>3. IsDate(date') /\ InReach(date') BY <1>1 DEF DatesInv, IsDate, InReach
<1>4. PageDate(viewDate) /\ viewMode \in 0 .. 2 BY <1>1 DEF DatesInv, ModesInv, ViewModes
<1>5. viewDate.m + k \in Int /\ viewDate.y + k \in Int /\ viewDate.y + 10 * k \in Int
  BY <1>4 DEF PageDate, IsDate, Months
<1>6. IsDate(Turned(k)) /\ Turned(k).d = viewDate.d
  <2>1. CASE viewMode = 0 BY <2>1, <1>4, <1>5, TurnFacts DEF Turned
  <2>2. CASE viewMode = 1 BY <2>2, <1>4, <1>5, TurnFacts DEF Turned
  <2>3. CASE viewMode = 2 BY <2>3, <1>4, <1>5, TurnFacts DEF Turned
  <2> QED BY <2>1, <2>2, <2>3, <1>4
<1>7. PageDate(viewDate') BY <1>4, <1>6 DEF PageDate
<1> QED BY <1>2, <1>3, <1>7, PageStep

\* A month or a year is chosen.
LEMMA ChooseStep ==
    ASSUME PickerInv, shown, Choose, IsDate(viewDate'), viewDate'.d = viewDate.d
    PROVE  PickerInv'
<1> USE DEF Choose
<1>1. PageDate(viewDate) BY DEF PickerInv, PickerTypeOK, PageDate
<1>2. PageDate(viewDate') BY <1>1 DEF PageDate
<1>3. IsDate(date') /\ InReach(date') BY DEF IsDate, InReach
<1>4. ModesInv'
  <2>1. UNCHANGED <<config, shown>> /\ shown BY DEF window
  <2>2. -1 \in -2 .. 2 /\ ShowMode(-1) OBVIOUS
  <2>3. strayed' \in BOOLEAN BY DEF PickerInv, PickerTypeOK
  <2> QED BY ONLY <2>1, <2>2, <2>3, PickerInv, ModeStep
<1> QED BY <1>2, <1>3, <1>4, PageStep

LEMMA DayStep ==
    ASSUME PickerInv, NEW i \in Cells, ClickDay(i)
    PROVE  PickerInv'
<1> DEFINE c == DrawnPage[i]
           class == CellClass(drawn.view, c)
<1>1. DatesInv /\ ModesInv BY PickerParts
<1>2. ModesInv' BY <1>1, ModesKept DEF ClickDay, window
<1>3. drawn.view = viewDate BY <1>1 DEF DatesInv
<1>4. c = Page(viewDate, config.weekStart)[i] /\ class = CellClass(viewDate, c)
  BY <1>3 DEF DrawnPage
<1>5. date' = Picked(class, c.d, 31) /\ viewDate' = Picked(class, c.d, 28) BY DEF ClickDay
<1>6. IsDate(viewDate) /\ viewDate.y >= 1000 /\ config.weekStart \in 0 .. 6
  BY <1>1, YearsFacts, ConfigFacts DEF DatesInv, PageDate
<1> HIDE DEF c, class
<1>7. /\ IsDate(c) /\ date' = c
      /\ IsDate(viewDate') /\ viewDate'.d <= 28 /\ viewDate'.y = c.y /\ viewDate'.m = c.m
  BY <1>4, <1>5, <1>6, PickedFacts
<1>8. InReach(date') BY DEF ClickDay
<1>9. PageDate(viewDate') BY <1>7, <1>8 DEF PageDate, InReach
<1>10. IsDate(date') BY <1>7 DEF IsDate
<1> QED BY <1>2, <1>8, <1>9, <1>10, PageStep DEF ClickDay

LEMMA ClickStep ==
    ASSUME PickerInv, Click
    PROVE  PickerInv'
<1>1. CASE ClickSwitch
  <2> USE <1>1 DEF ClickSwitch
  <2>1. DatesInv' BY PickerParts, DatesKept
  <2>2. ModesInv'
    <3>1. UNCHANGED <<config, shown>> /\ 1 \in -2 .. 2 /\ shown /\ ShowMode(1) BY DEF window
    <3>2. strayed' \in BOOLEAN BY DEF PickerInv, PickerTypeOK
    <3> QED BY ONLY <3>1, <3>2, PickerInv, ModeStep
  <2>3. WindowInv' BY PickerParts, WindowKept
  <2> QED BY <2>1, <2>2, <2>3, PickerPartsNext
<1>2. ASSUME NEW k \in {-1, 1}, ClickArrow(k) PROVE PickerInv' BY <1>2, ArrowStep
<1>3. PageDate(viewDate) BY DEF PickerInv, PickerTypeOK, PageDate
<1>4. ASSUME NEW m \in Months, ClickMonth(m) PROVE PickerInv'
  <2>1. m \in Int BY DEF Months
  <2>2. IsDate(SetMonth(viewDate, m)) /\ SetMonth(viewDate, m).d = viewDate.d
    BY <1>3, <2>1, TurnFacts
  <2>3. shown /\ Choose /\ viewDate' = SetMonth(viewDate, m) BY <1>4 DEF ClickMonth
  <2> QED BY <2>2, <2>3, ChooseStep
<1>5. ASSUME NEW i \in 0 .. 11, ClickYear(i) PROVE PickerInv'
  <2> DEFINE y == YearCell(drawn.view, i)
  <2>1. drawn.view = viewDate BY DEF PickerInv, DrawnInv
  <2>2. y \in Int
    <3>1. viewDate.y \in Int BY <1>3 DEF PageDate, IsDate
    <3> QED BY <2>1, <3>1 DEF YearCell
  <2>3. shown /\ Choose /\ viewDate' = SetFullYear(viewDate, y) BY <1>5 DEF ClickYear
  <2> HIDE DEF y
  <2>4. IsDate(SetFullYear(viewDate, y)) /\ SetFullYear(viewDate, y).d = viewDate.d
    BY <1>3, <2>2, TurnFacts
  <2> QED BY <2>3, <2>4, ChooseStep
<1>6. ASSUME NEW i \in Cells, ClickDay(i) PROVE PickerInv' BY <1>6, DayStep
<1> QED BY <1>1, <1>2, <1>4, <1>5, <1>6, Click DEF Click

LEMMA PickerStep ==
    ASSUME PickerInv, [PickerNext]_pickerVars
    PROVE  PickerInv'
<1>. config \in Configs BY DEF PickerInv, PickerTypeOK
<1>1. ASSUME NEW t, IsDate(t), SetTo(t) PROVE PickerInv'
  <2>1. behind' = FALSE BY <1>1, Zenon DEF SetTo, Set
  <2>2. Readable(text', config.format) BY <1>1, WrittenFacts DEF SetTo, Set
  <2> QED BY <1>1, <2>1, <2>2, DateStep DEF SetTo
<1>2. ASSUME NEW s \in Texts, SetValue(s) \/ Update(s) PROVE PickerInv'
  <2>1. IsDate(Parsed(s)) BY TextsFacts
  <2>2. CASE SetValue(s) BY <2>1, <2>2, <1>1 DEF SetValue
  <2>3. CASE Update(s)
    <3>1. behind' \in BOOLEAN BY <2>3, Zenon DEF Update
    <3>2. Readable(text', config.format) BY <2>3 DEF Update, PickerInv, PickerTypeOK
    <3> QED BY <2>1, <2>3, <3>1, <3>2, DateStep DEF Update
  <2> QED BY <1>2, <2>2, <2>3
<1>3. ASSUME NEW s \in Texts, Keyup(s) PROVE PickerInv'
  <2>1. behind' \in BOOLEAN BY <1>3, Zenon DEF Keyup
  <2> QED BY <1>3, <2>1, TextsFacts, DateStep DEF Keyup
<1>4. CASE CallPlace
  <2> USE <1>4 DEF CallPlace, Place
  <2>1. DatesInv' BY PickerParts, DatesKept
  <2>2. ModesInv' BY PickerParts, ModesKept
  <2>3. WindowInv' BY PickerParts DEF WindowInv, PlacedInv
  <2> QED BY <2>1, <2>2, <2>3, PickerPartsNext
<1>5. CASE CallSet
  <2> USE <1>5 DEF CallSet
  <2>1. DatesInv'
    <3>1. behind' \in BOOLEAN BY Zenon DEF Set
    <3>2. Readable(text', config.format) BY PickerParts, WrittenFacts DEF DatesInv, Set
    <3> QED BY <3>1, <3>2, PickerParts DEF DatesInv, PageDate, IsDate, InReach
  <2>2. ModesInv' BY PickerParts, ModesKept DEF window
  <2>3. WindowInv' BY PickerParts, WindowKept
  <2> QED BY <2>1, <2>2, <2>3, PickerPartsNext
<1>6. CASE CallFill
  <2> USE <1>6 DEF CallFill
  <2>1. DatesInv' BY PickerParts DEF DatesInv, Fill, PageDate, IsDate, InReach
  <2>2. ModesInv' BY PickerParts, ModesKept DEF window
  <2>3. WindowInv' BY PickerParts, WindowKept
  <2> QED BY <2>1, <2>2, <2>3, PickerPartsNext
<1>7. CASE UpdateFromText
  <2>1. Readable(text, config.format) BY DEF PickerInv, PickerTypeOK
  <2>2. behind' \in BOOLEAN BY <1>7, Zenon DEF UpdateFromText
  <2> QED BY <1>7, <2>1, <2>2, ParsedFacts, DateStep DEF UpdateFromText
<1>8. ASSUME NEW dir \in -2 .. 2, CallShowMode(dir) PROVE PickerInv'
  <2> USE <1>8 DEF CallShowMode
  <2>1. DatesInv' BY PickerParts, DatesKept
  <2>2. ModesInv'
    <3>1. UNCHANGED <<config, shown>> /\ ShowMode(dir) BY DEF window
    <3>2. strayed' \in BOOLEAN /\ (shown \/ strayed' = TRUE) BY DEF PickerInv, PickerTypeOK
    <3> QED BY ONLY <3>1, <3>2, PickerInv, dir \in -2 .. 2, ModeStep
  <2>3. WindowInv' BY PickerParts, WindowKept
  <2> QED BY <2>1, <2>2, <2>3, PickerPartsNext
<1>9. ASSUME NEW t \in Dates, SetValueDate(t) PROVE PickerInv'
  <2>1. IsDate(t) BY PickerAssumption
  <2> QED BY <1>1, <1>9, <2>1 DEF SetValueDate
<1>10. CASE Call
  BY <1>10, <1>2, <1>4, <1>5, <1>6, <1>7, <1>8, <1>9, ShowStep, HideStep DEF Call
<1>11. CASE MouseDown BY <1>11, HideStep DEF MouseDown
<1>12. CASE UNCHANGED pickerVars
  <2> USE <1>12 DEF pickerVars
  <2>1. DatesInv' BY PickerParts, DatesKept
  <2>2. ModesInv' BY PickerParts, ModesKept DEF window
  <2>3. WindowInv' BY PickerParts, WindowKept
  <2> QED BY <2>1, <2>2, <2>3, PickerPartsNext
<1> QED BY <1>3, <1>10, <1>11, <1>12, ClickStep, RoomStep DEF PickerNext

\* The popup, the page, the mode and the window's handlers agree in every state of a
\* picker, whatever its options, its texts and its days (lib-393472a69e.js, lines
\* 286-627): but for the place of a popup under which the page has been scrolled, and
\* for the mode of a hidden one that the app itself has changed.
THEOREM PickerInvariance == PickerSpec => []PickerInv
BY PickerStart, PickerStep, PTL DEF PickerSpec

\* Clicking any cell of any page picks the date the cell stands for (lines 488-503 and
\* 581-590).
THEOREM ClickPicks == PickerSpec => []ClickPicksCell
<1>1. PickerInv => ClickPicksCell
  <2> SUFFICES ASSUME PickerInv, NEW i \in Cells
               PROVE  Picked(CellClass(drawn.view, DrawnPage[i]), DrawnPage[i].d, 31) = DrawnPage[i]
    BY DEF ClickPicksCell
  <2>1. DatesInv BY PickerParts
  <2>2. drawn.view = viewDate BY <2>1 DEF DatesInv
  <2>3. IsDate(viewDate) /\ viewDate.y >= 1000 /\ config.weekStart \in 0 .. 6
    BY <2>1, YearsFacts, ConfigFacts DEF DatesInv, PageDate
  <2> QED BY <2>2, <2>3, PickedFacts DEF DrawnPage
<1> QED BY <1>1, PickerInvariance, PTL

LEMMA MonthsFacts ==
    ASSUME NEW y \in Int, NEW n \in Int, NEW d
    PROVE  12 * OfMonth(y, n, d).y + OfMonth(y, n, d).m = 12 * y + n
<1> DEFINE q == n \div 12
           r == n % 12
<1>1. q \in Int /\ r \in Int /\ n = 12 * q + r OBVIOUS
<1>2. OfMonth(y, n, d).y = y + q /\ OfMonth(y, n, d).m = r BY DEF OfMonth, Day
<1> HIDE DEF q, r
<1>3. 12 * (y + q) + r = 12 * y + n BY <1>1
<1> QED BY <1>2, <1>3

\* An arrow turns to the neighbouring month, year or decade, from every page
\* (lines 547-557).
THEOREM ArrowsTurnOnePage == PickerSpec => StepsOnePage
<1> DEFINE Step(k) ==
        LET step == CASE viewMode = 0 -> 1 [] viewMode = 1 -> 12 [] OTHER -> 120
        IN /\ 12 * viewDate'.y + viewDate'.m = 12 * viewDate.y + viewDate.m + step * k
           /\ viewDate'.d = viewDate.d
<1>1. ASSUME PickerInv, NEW k \in {-1, 1}, ClickArrow(k) PROVE Step(k)
  <2>1. PageDate(viewDate) /\ viewMode \in 0 .. 2
    BY <1>1, PickerParts DEF DatesInv, ModesInv, ViewModes
  <2>2. viewDate.y \in Int /\ viewDate.m \in Int /\ viewDate.d \in Int
    BY <2>1 DEF PageDate, IsDate, Months
  <2>3. viewDate' = Turned(k) BY <1>1 DEF ClickArrow
  <2>4. viewDate.m + k \in Int /\ viewDate.y + k \in Int /\ viewDate.y + 10 * k \in Int BY <2>2
  <2>5. CASE viewMode = 0
    <3>1. viewDate' = OfMonth(viewDate.y, viewDate.m + k, viewDate.d)
      BY <2>5, <2>1, <2>3, <2>4, TurnFacts DEF Turned
    <3>2. 12 * viewDate'.y + viewDate'.m = 12 * viewDate.y + (viewDate.m + k)
      BY <3>1, <2>2, <2>4, MonthsFacts
    <3>3. viewDate'.d = viewDate.d BY <3>1 DEF OfMonth, Day
    <3>4. 12 * viewDate.y + (viewDate.m + k) = 12 * viewDate.y + viewDate.m + 1 * k BY <2>2
    <3> QED BY <2>5, <3>2, <3>3, <3>4
  <2>6. ASSUME NEW n \in Int, viewDate' = [viewDate EXCEPT !.y = viewDate.y + n]
        PROVE  /\ 12 * viewDate'.y + viewDate'.m = 12 * viewDate.y + viewDate.m + 12 * n
               /\ viewDate'.d = viewDate.d
    <3>1. viewDate'.y = viewDate.y + n /\ viewDate'.m = viewDate.m /\ viewDate'.d = viewDate.d
      BY <2>6, <2>1 DEF PageDate, IsDate
    <3>2. 12 * (viewDate.y + n) + viewDate.m = 12 * viewDate.y + viewDate.m + 12 * n BY <2>2
    <3> QED BY <3>1, <3>2
  <2>7. CASE viewMode = 1
    <3>1. viewDate' = [viewDate EXCEPT !.y = viewDate.y + k]
      BY <2>7, <2>1, <2>3, <2>4, TurnFacts DEF Turned
    <3> QED BY <3>1, <2>6, <2>7
  <2>8. CASE viewMode = 2
    <3>1. viewDate' = [viewDate EXCEPT !.y = viewDate.y + 10 * k]
      BY <2>8, <2>1, <2>3, <2>4, TurnFacts DEF Turned
    <3>2. 10 * k \in Int /\ 12 * (10 * k) = 120 * k OBVIOUS
    <3> QED BY <3>1, <3>2, <2>6, <2>8
  <2> QED BY <2>1, <2>5, <2>7, <2>8
<1>2. PickerInv => [\A k \in {-1, 1} : ClickArrow(k) => Step(k)]_pickerVars BY <1>1
<1> QED BY <1>2, PickerInvariance, PTL DEF StepsOnePage

-----------------------------------------------------------------------------
(* The weekdays.                                                           *)

\* The days since the beginning of year 1, of which Weekday takes the rest by 7.
DayNumber(t) ==
    LET p == t.y - 1
    IN 365 * p + (p \div 4) - (p \div 100) + (p \div 400) + DaysBefore(t.y, t.m) + t.d

LEMMA DaysBeforeFacts ==
    ASSUME NEW y \in Int, NEW m \in Months
    PROVE  /\ DaysBefore(y, m) \in Int
           /\ m < 11 => DaysBefore(y, m + 1) = DaysBefore(y, m) + DaysInMonth(y, m)
           /\ m = 11 => DaysBefore(y, m) + DaysInMonth(y, m) = IF IsLeapYear(y) THEN 366 ELSE 365
           /\ DaysBefore(y, 0) = 0
<1> DEFINE leap == IsLeapYear(y)
<1>1. m \in 0 .. 11 BY DEF Months
<1> HIDE DEF leap
<1> USE DEF DaysBefore, DaysInMonth
<1>2. CASE m \in 0 .. 3
  <2>1. CASE m = 0 BY <2>1 DEF leap
  <2>2. CASE m = 1 BY <2>2 DEF leap
  <2>3. CASE m = 2 BY <2>3 DEF leap
  <2>4. CASE m = 3 BY <2>4 DEF leap
  <2> QED BY <1>2, <2>1, <2>2, <2>3, <2>4
<1>3. CASE m \in 4 .. 7 BY <1>3 DEF leap
<1>4. CASE m \in 8 .. 11 BY <1>4 DEF leap
<1> QED BY <1>1, <1>2, <1>3, <1>4

LEMMA QuotientStep ==
    ASSUME NEW y \in Int, NEW c \in {4, 100, 400}
    PROVE  /\ y \div c \in Int /\ (y - 1) \div c \in Int
           /\ y \div c = ((y - 1) \div c) + (IF y % c = 0 THEN 1 ELSE 0)
<1>1. CASE c = 4 BY <1>1
<1>2. CASE c = 100 BY <1>2
<1>3. CASE c = 400 BY <1>3
<1> QED BY <1>1, <1>2, <1>3

\* The first day of a month follows the last one of the month before.
LEMMA NextMonth ==
    ASSUME NEW v, IsDate(v), NEW d \in Int
    PROVE  /\ DayNumber(Day(v.y, v.m, d)) \in Int
           /\ DayNumber(After(v, d)) = DayNumber(Day(v.y, v.m, DaysInMonth(v.y, v.m) + d))
<1> DEFINE y == v.y
           m == v.m
           n == DaysInMonth(y, m)
           N(z) == 365 * (z - 1) + ((z - 1) \div 4) - ((z - 1) \div 100) + ((z - 1) \div 400)
<1>1. y \in Int /\ m \in Months /\ m \in 0 .. 11 /\ n \in 28 .. 31
  BY DaysFacts DEF IsDate, Months
<1>2. \A z, k, e \in Int : DayNumber(Day(z, k, e)) = N(z) + DaysBefore(z, k) + e
  BY DEF DayNumber, Day
<1>3. /\ DaysBefore(y, m) \in Int /\ DaysBefore(y + 1, 0) = 0
      /\ m < 11 => DaysBefore(y, m + 1) = DaysBefore(y, m) + n
      /\ m = 11 => DaysBefore(y, m) + n = IF IsLeapYear(y) THEN 366 ELSE 365
  <2>1. y + 1 \in Int /\ 0 \in Months BY <1>1 DEF Months
  <2> QED BY <1>1, <2>1, DaysBeforeFacts
<1>4. N(y) \in Int /\ N(y + 1) = N(y) + IF IsLeapYear(y) THEN 366 ELSE 365
  <2>1. /\ y \div 4 \in Int /\ (y - 1) \div 4 \in Int
        /\ y \div 4 = ((y - 1) \div 4) + (IF y % 4 = 0 THEN 1 ELSE 0)
    BY <1>1, QuotientStep
  <2>2. /\ y \div 100 \in Int /\ (y - 1) \div 100 \in Int
        /\ y \div 100 = ((y - 1) \div 100) + (IF y % 100 = 0 THEN 1 ELSE 0)
    BY <1>1, QuotientStep
  <2>3. /\ y \div 400 \in Int /\ (y - 1) \div 400 \in Int
        /\ y \div 400 = ((y - 1) \div 400) + (IF y % 400 = 0 THEN 1 ELSE 0)
    BY <1>1, QuotientStep
  <2>4. /\ y % 400 = 0 => y % 100 = 0
        /\ y % 100 = 0 => y % 4 = 0
    BY <1>1
  <2>5. N(y + 1) = 365 * y + (y \div 4) - (y \div 100) + (y \div 400)
    <3>1. (y + 1) - 1 = y BY <1>1
    <3> QED BY ONLY <3>1
  <2>6. N(y) = 365 * (y - 1) + ((y - 1) \div 4) - ((y - 1) \div 100) + ((y - 1) \div 400)
    OBVIOUS
  <2> HIDE DEF N, y
  <2>7. 365 * (y - 1) = 365 * y - 365 /\ 365 * y \in Int BY <1>1
  <2> QED BY <2>1, <2>2, <2>3, <2>4, <2>5, <2>6, <2>7 DEF IsLeapYear
<1>5. After(v, d) = IF m = 11 THEN Day(y + 1, 0, d) ELSE Day(y, m + 1, d)
  BY NeighbourFacts
<1> HIDE DEF y, m, n, N
<1>6. DayNumber(Day(y, m, n + d)) = N(y) + DaysBefore(y, m) + (n + d)
  <2>1. m \in Int /\ n + d \in Int BY <1>1
  <2> QED BY <1>1, <1>2, <2>1
<1>7. DayNumber(Day(y, m, d)) = N(y) + DaysBefore(y, m) + d
  <2>1. m \in Int BY <1>1
  <2> QED BY <1>1, <1>2, <2>1
<1>8. DayNumber(After(v, d)) = DayNumber(Day(y, m, n + d))
  <2>1. CASE m < 11
    <3>1. After(v, d) = Day(y, m + 1, d) /\ m + 1 \in Int BY <1>1, <1>5, <2>1
    <3>2. DayNumber(After(v, d)) = N(y) + DaysBefore(y, m + 1) + d BY <1>1, <1>2, <3>1
    <3> QED BY <1>1, <1>3, <1>4, <1>6, <3>2, <2>1
  <2>2. CASE m = 11
    <3>1. After(v, d) = Day(y + 1, 0, d) /\ y + 1 \in Int BY <1>1, <1>5, <2>2
    <3>2. DayNumber(After(v, d)) = N(y + 1) + DaysBefore(y + 1, 0) + d BY <1>2, <3>1
    <3> QED BY <1>1, <1>3, <1>4, <1>6, <3>2, <2>2
  <2> QED BY <1>1, <2>1, <2>2
<1>9. DayNumber(Day(y, m, d)) \in Int BY <1>3, <1>4, <1>7
<1> QED BY <1>8, <1>9 DEF y, m, n

LEMMA Additive ==
    ASSUME NEW y \in Int, NEW m \in Months, NEW d \in Int, NEW e \in Int
    PROVE  DayNumber(Day(y, m, d + e)) = DayNumber(Day(y, m, d)) + e
<1> DEFINE N == 365 * (y - 1) + ((y - 1) \div 4) - ((y - 1) \div 100) + ((y - 1) \div 400)
                  + DaysBefore(y, m)
<1>1. \A x \in Int : DayNumber(Day(y, m, x)) = N + x BY DEF DayNumber, Day
<1>2. N \in Int
  <2>1. DaysBefore(y, m) \in Int BY DaysBeforeFacts
  <2>2. (y - 1) \div 4 \in Int /\ (y - 1) \div 100 \in Int /\ (y - 1) \div 400 \in Int OBVIOUS
  <2> QED BY <2>1, <2>2
<1> HIDE DEF N
<1> QED BY <1>1, <1>2

\* The cells are numbered on from the day before the month's first.
LEMMA CellNumber ==
    ASSUME NEW v, IsDate(v), v.y >= 1000, NEW w \in 0 .. 6, NEW i \in Cells
    PROVE  /\ DayNumber(Day(v.y, v.m, 0)) \in Int
           /\ Weekday(Before(v, LastDay(v))) = DayNumber(Day(v.y, v.m, 0)) % 7
           /\ DayNumber(Page(v, w)[i]) = DayNumber(Day(v.y, v.m, 0)) + (i - Lead(v, w))
<1> DEFINE c == Page(v, w)[i]
           j == i - Lead(v, w)
           n == DaysInMonth(v.y, v.m)
           l == LastDay(v)
           N0 == DayNumber(Day(v.y, v.m, 0))
           p == Before(v, 28)
<1>1. v.y \in Int /\ v.m \in Months BY DEF IsDate
<1>2. j \in Int /\ l \in 28 .. 31 /\ l \in Int /\ n \in Int
  BY <1>1, FirstCellFacts, DaysFacts DEF Cells
<1>3. /\ j < 1 => c = Before(v, l + j)
      /\ j >= 1 /\ j <= n => c = Day(v.y, v.m, j)
      /\ j >= 1 /\ j > n => c = After(v, j - n)
  BY CellFacts
<1>4. ASSUME NEW d \in Int PROVE DayNumber(Day(v.y, v.m, d)) = N0 + d /\ N0 \in Int
  <2>1. 0 \in Int /\ d = 0 + d OBVIOUS
  <2>2. N0 \in Int BY <2>1, NextMonth
  <2>3. DayNumber(Day(v.y, v.m, 0 + d)) = N0 + d BY <1>1, <2>1, Additive
  <2> QED BY <2>1, <2>2, <2>3
<1>5. IsDate(p)
  <2>1. p \in Almost /\ 28 \in Int BY NeighbourFacts
  <2>2. p.d = 28 BY DEF Before, OfMonth, Day
  <2>3. DaysInMonth(p.y, p.m) \in 28 .. 31 BY <2>1, DaysFacts DEF Almost
  <2> HIDE DEF p
  <2> QED BY <2>1, <2>2, <2>3 DEF IsDate, Almost
<1>6. ASSUME NEW d \in Int PROVE DayNumber(Before(v, l + d)) = N0 + d
  <2>1. After(p, d) = Day(v.y, v.m, d) BY NeighbourFacts DEF After
  <2>2. DayNumber(After(p, d)) = DayNumber(Day(p.y, p.m, l + d))
    <3>1. l = DaysInMonth(p.y, p.m) BY DEF LastDay
    <3> HIDE DEF p, l
    <3> QED BY <3>1, <1>5, NextMonth
  <2>3. Day(p.y, p.m, l + d) = Before(v, l + d) BY DEF Before, OfMonth, Day
  <2> HIDE DEF p, l, N0
  <2> QED BY <2>1, <2>2, <2>3, <1>4
<1> HIDE DEF j, l, n, N0
<1>7. DayNumber(c) = N0 + j
  <2>1. CASE j < 1
    <3> HIDE DEF c
    <3> QED BY <2>1, <1>2, <1>3, <1>6
  <2>2. CASE j >= 1 /\ j <= n
    <3> HIDE DEF c
    <3> QED BY <2>2, <1>2, <1>3, <1>4
  <2>3. CASE j >= 1 /\ j > n
    <3>1. c = After(v, j - n) /\ j - n \in Int BY <2>3, <1>2, <1>3
    <3>2. DayNumber(After(v, j - n)) = DayNumber(Day(v.y, v.m, n + (j - n)))
      BY <3>1, NextMonth DEF n
    <3>3. n + (j - n) = j BY <1>2
    <3> HIDE DEF c
    <3> QED BY <3>1, <3>2, <3>3, <1>2, <1>4
  <2> QED BY <1>2, <2>1, <2>2, <2>3
<1>8. Weekday(Before(v, l)) = N0 % 7
  <2>1. DayNumber(Before(v, l + 0)) = N0 + 0 /\ N0 \in Int BY <1>4, <1>6
  <2>2. l + 0 = l /\ N0 + 0 = N0 BY <1>2, <2>1
  <2>3. Weekday(Before(v, l)) = DayNumber(Before(v, l)) % 7 BY DEF Weekday, DayNumber
  <2> QED BY ONLY <2>1, <2>2, <2>3
<1>9. N0 \in Int
  <2>1. 0 \in Int OBVIOUS
  <2> QED BY <2>1, <1>4
<1> QED BY <1>7, <1>8, <1>9 DEF j, l, N0

LEMMA Columns ==
    ASSUME NEW n \in Int, NEW w \in 0 .. 6, NEW i \in Cells,
           NEW k, k = ((n % 7) - w + 7) % 7
    PROVE  (n + (i - k)) % 7 = (w + (i % 7)) % 7
BY DEF Cells

\* Every page has its whole month, each day under its weekday, for every week start and
\* every month of every year (lines 451-459 and 470-508).
THEOREM PagesAreWhole == PickerSpec => []PageWhole
<1>1. PickerInv => PageWhole
  <2> SUFFICES ASSUME PickerInv PROVE PageWhole OBVIOUS
  <2> DEFINE v == viewDate
             w == config.weekStart
             page == Page(v, w)
             n == DaysInMonth(v.y, v.m)
             k == Lead(v, w)
  <2>1. DatesInv BY PickerParts
  <2>2. drawn.view = v BY <2>1 DEF DatesInv
  <2>3. IsDate(v) /\ v.y >= 1000 /\ w \in 0 .. 6
    BY <2>1, YearsFacts, ConfigFacts DEF DatesInv, PageDate
  <2>4. k \in 0 .. 6 BY <2>3, FirstCellFacts
  <2>5. n \in 28 .. 31 BY <2>3, DaysFacts DEF IsDate
  <2> HIDE DEF v, w, n, k
  <2>6. ASSUME NEW d \in 1 .. n PROVE \E i \in Cells : Day(v.y, v.m, d) = page[i]
    <3>1. k + d \in Cells BY <2>4, <2>5 DEF Cells
    <3>2. (k + d) - k = d /\ d >= 1 /\ d <= n BY <2>4, <2>5
    <3>3. (k + d) - k >= 1 /\ (k + d) - k <= n => page[k + d] = Day(v.y, v.m, (k + d) - k)
      BY <2>3, <3>1, CellFacts DEF n, k
    <3>4. page[k + d] = Day(v.y, v.m, d) BY ONLY <3>2, <3>3
    <3> QED BY ONLY <3>1, <3>4
  <2>7. ASSUME NEW i \in Cells PROVE Weekday(page[i]) = ColumnHead(w, i % 7)
    <3> DEFINE N0 == DayNumber(Day(v.y, v.m, 0))
    <3>1. /\ N0 \in Int
          /\ Weekday(Before(v, LastDay(v))) = N0 % 7
          /\ DayNumber(page[i]) = N0 + (i - k)
      BY <2>3, CellNumber DEF k
    <3>2. k = ((N0 % 7) - w + 7) % 7 BY <3>1 DEF k, Lead
    <3>3. Weekday(page[i]) = DayNumber(page[i]) % 7 BY DEF Weekday, DayNumber
    <3> HIDE DEF N0, page
    <3>4. (N0 + (i - k)) % 7 = (w + (i % 7)) % 7 BY <2>3, <3>1, <3>2, Columns
    <3> QED BY ONLY <3>1, <3>3, <3>4 DEF ColumnHead
  <2>8. DrawnPage = page /\ viewDate = v /\ config.weekStart = w
    BY <2>2 DEF DrawnPage, v, w
  <2> HIDE DEF page
  <2>9. {Day(v.y, v.m, d) : d \in 1 .. n} \subseteq {page[i] : i \in Cells} BY <2>6
  <2> QED BY ONLY <2>7, <2>8, <2>9 DEF PageWhole, n
<1> QED BY <1>1, PickerInvariance, PTL

\* setDate(getDate() + 1), by which fill goes from one cell to the next.
NextDay(t) == SetDate(t, t.d + 1)

LEMMA NextDayFacts ==
    ASSUME NEW t, IsDate(t)
    PROVE  NextDay(t) = IF t.d < DaysInMonth(t.y, t.m) THEN Day(t.y, t.m, t.d + 1) ELSE After(t, 1)
<1> DEFINE n == DaysInMonth(t.y, t.m)
           u == Day(t.y, t.m, t.d + 1)
<1>1. t \in [y : Int, m : Months, d : 1 .. 31] /\ n \in 28 .. 31 /\ t.d <= n
  BY DaysFacts DEF IsDate
<1>2. [t EXCEPT !.d = t.d + 1] = u BY <1>1 DEF Day
<1>3. u \in Almost /\ u.d = t.d + 1 /\ u.y = t.y /\ u.m = t.m BY <1>1 DEF Day, Almost
<1>4. NextDay(t) = Normal(u) BY <1>2 DEF NextDay, SetDate
<1> HIDE DEF n, u
<1>5. n = DaysInMonth(u.y, u.m) BY <1>3 DEF n
<1>6. CASE t.d < n
  <2>1. u.d \in 1 .. 99 /\ u.d <= n BY <1>1, <1>3, <1>6
  <2>2. Normal(u) = u BY <1>3, <1>5, <2>1, NormalFacts
  <2> QED BY <1>4, <1>6, <2>2 DEF n, u
<1>7. CASE ~(t.d < n)
  <2> DEFINE there == After(t, 1)
  <2>1. t.d = n BY <1>1, <1>7
  <2>2. u.d >= 1 /\ u.d > n /\ u.d - n = 1 BY <1>1, <1>3, <2>1
  <2>3. Carry(u) = there BY <1>3, <1>5, <2>2, CarryFacts DEF After
  <2>4. there \in Almost /\ there.d = 1
    <3>1. t.y \in Int /\ t.m + 1 \in Int /\ 1 \in Int BY <1>1 DEF Months
    <3> QED BY <3>1, OfMonthFacts DEF After, Almost
  <2>5. there.d <= DaysInMonth(there.y, there.m)
    <3>1. DaysInMonth(there.y, there.m) \in 28 .. 31 BY <2>4, DaysFacts DEF Almost
    <3> QED BY <2>4, <3>1
  <2> HIDE DEF there
  <2>6. there.d >= 1 BY <2>4
  <2>7. Carry(there) = there BY <2>4, <2>5, <2>6, CarryFacts
  <2>8. Normal(u) = there BY <2>3, <2>7 DEF Normal
  <2> QED BY <1>4, <1>7, <2>8 DEF n, there
<1> QED BY <1>6, <1>7

\* CellFacts, for the place j of a cell in its month.
LEMMA CellAt ==
    ASSUME NEW v, IsDate(v), v.y >= 1000, NEW w \in 0 .. 6, NEW i \in Cells,
           NEW j, j = i - Lead(v, w)
    PROVE  LET c == Page(v, w)[i]
               n == DaysInMonth(v.y, v.m)
           IN  /\ IsDate(c) /\ j \in -6 .. 41
               /\ j < 1 => c = Before(v, LastDay(v) + j)
               /\ j >= 1 /\ j <= n => c = Day(v.y, v.m, j)
               /\ j >= 1 /\ j > n => c = After(v, j - n)
<1>1. Lead(v, w) \in 0 .. 6 BY FirstCellFacts
<1>2. j \in -6 .. 41 BY <1>1 DEF Cells
<1> QED BY <1>2, CellFacts

\* Whatever the month and the week start, each cell is the day after the one before.
LEMMA CellsGoOn ==
    ASSUME NEW v, IsDate(v), v.y >= 1000, NEW w \in 0 .. 6, NEW i \in 0 .. 40,
           NEW c, c = Page(v, w)[i], NEW e, e = Page(v, w)[i + 1],
           NEW j, j = i - Lead(v, w)
    PROVE  e = NextDay(c)
<1> DEFINE n == DaysInMonth(v.y, v.m)
           l == LastDay(v)
           p == Before(v, 28)
<1>1. i \in Cells /\ i + 1 \in Cells BY DEF Cells
<1>2. l \in 28 .. 31 /\ Lead(v, w) \in 0 .. 6 BY FirstCellFacts
<1>3. v.y \in Int /\ v.m \in Months /\ n \in 28 .. 31 BY DaysFacts DEF IsDate
<1>4. /\ IsDate(c)
      /\ j < 1 => c = Before(v, l + j)
      /\ j >= 1 /\ j <= n => c = Day(v.y, v.m, j)
      /\ j >= 1 /\ j > n => c = After(v, j - n)
  BY <1>1, CellAt
<1>5. j + 1 = i + 1 - Lead(v, w) BY <1>2
<1>6. j \in -6 .. 40 BY <1>2
<1>7. /\ j + 1 < 1 => e = Before(v, l + (j + 1))
      /\ j + 1 >= 1 /\ j + 1 <= n => e = Day(v.y, v.m, j + 1)
      /\ j + 1 >= 1 /\ j + 1 > n => e = After(v, j + 1 - n)
  <2> DEFINE h == i + 1
             x == j + 1
  <2>1. h \in Cells /\ x = h - Lead(v, w) BY <1>1, <1>2, <1>5, <1>6
  <2>2. e = Page(v, w)[h] OBVIOUS
  <2> HIDE DEF h, x, n, l
  <2>3. /\ x < 1 => Page(v, w)[h] = Before(v, LastDay(v) + x)
        /\ x >= 1 /\ x <= DaysInMonth(v.y, v.m) => Page(v, w)[h] = Day(v.y, v.m, x)
        /\ x >= 1 /\ x > DaysInMonth(v.y, v.m) => Page(v, w)[h] = After(v, x - DaysInMonth(v.y, v.m))
    BY <2>1, CellAt
  <2>4. /\ x < 1 => e = Before(v, l + x)
        /\ x >= 1 /\ x <= n => e = Day(v.y, v.m, x)
        /\ x >= 1 /\ x > n => e = After(v, x - n)
    BY ONLY <2>2, <2>3 DEF n, l
  <2> QED BY <1>3, <1>6, <2>4 DEF x
<1> HIDE DEF n, l, p
<1>8. c.d < DaysInMonth(c.y, c.m) => NextDay(c) = Day(c.y, c.m, c.d + 1)
  BY <1>4, NextDayFacts
<1>9. ~(c.d < DaysInMonth(c.y, c.m)) => NextDay(c) = After(c, 1)
  BY <1>4, NextDayFacts
<1>10. CASE j < 1
  <2>1. c = Before(v, l + j) BY <1>4, <1>10
  <2>2. c.d = l + j /\ c.y = p.y /\ c.m = p.m BY <2>1 DEF Before, OfMonth, Day, p
  <2>3. DaysInMonth(c.y, c.m) = l BY <2>2 DEF LastDay, l, p
  <2>4. CASE j < 0
    <3>1. c.d < l /\ l + j + 1 = l + (j + 1) /\ j + 1 < 1 BY <1>2, <1>6, <2>2, <2>4
    <3>2. NextDay(c) = Day(p.y, p.m, l + (j + 1)) BY <1>8, <2>2, <2>3, <3>1
    <3>3. Day(p.y, p.m, l + (j + 1)) = Before(v, l + (j + 1)) BY DEF Before, OfMonth, Day, p
    <3> QED BY <1>7, <3>1, <3>2, <3>3
  <2>5. CASE j = 0
    <3>1. ~(c.d < l) BY <1>2, <2>2, <2>5
    <3>2. NextDay(c) = After(c, 1) BY <1>9, <2>3, <3>1
    <3>3. After(c, 1) = OfMonth(p.y, p.m + 1, 1) BY <2>2 DEF After
    <3>4. OfMonth(p.y, p.m + 1, 1) = Day(v.y, v.m, 1)
      <4>1. 1 \in Int OBVIOUS
      <4> QED BY <4>1, NeighbourFacts DEF p
    <3>5. e = Day(v.y, v.m, 1) BY <1>3, <1>7, <2>5
    <3> QED BY <3>2, <3>3, <3>4, <3>5
  <2> QED BY <1>6, <1>10, <2>4, <2>5
<1>11. CASE j >= 1 /\ j <= n
  <2>1. c.d = j /\ c.y = v.y /\ c.m = v.m BY <1>4, <1>11 DEF Day
  <2>2. DaysInMonth(c.y, c.m) = n BY <2>1 DEF n
  <2>3. CASE j < n
    <3>1. NextDay(c) = Day(v.y, v.m, j + 1) BY <1>8, <2>1, <2>2, <2>3
    <3>2. e = Day(v.y, v.m, j + 1) BY <1>3, <1>6, <1>7, <1>11, <2>3
    <3> QED BY <3>1, <3>2
  <2>4. CASE j = n
    <3>1. NextDay(c) = After(c, 1) BY <1>3, <1>9, <2>1, <2>2, <2>4
    <3>2. After(c, 1) = After(v, 1) BY <2>1 DEF After
    <3>3. j + 1 - n = 1 /\ j + 1 >= 1 /\ j + 1 > n BY <1>3, <2>4
    <3>4. e = After(v, 1) BY <1>7, <3>3
    <3> QED BY <3>1, <3>2, <3>4
  <2> QED BY <1>3, <1>6, <1>11, <2>3, <2>4
<1>12. CASE j >= 1 /\ j > n
  <2>1. c = After(v, j - n) BY <1>4, <1>12
  <2>2. c.d = j - n /\ c.y = After(v, 1).y /\ c.m = After(v, 1).m BY <2>1 DEF After, OfMonth, Day
  <2>3. DaysInMonth(c.y, c.m) \in 28 .. 31 BY <1>4, DaysFacts DEF IsDate
  <2>4. c.d < DaysInMonth(c.y, c.m) BY <1>3, <1>6, <1>12, <2>2, <2>3
  <2>5. NextDay(c) = Day(After(v, 1).y, After(v, 1).m, j - n + 1) BY <1>8, <2>2, <2>4
  <2>6. Day(After(v, 1).y, After(v, 1).m, j - n + 1) = After(v, j - n + 1)
    BY DEF After, OfMonth, Day
  <2>7. j + 1 - n = j - n + 1 /\ j + 1 >= 1 /\ j + 1 > n BY <1>3, <1>6, <1>12
  <2>8. e = After(v, j - n + 1) BY <1>7, <2>7
  <2> QED BY <2>5, <2>6, <2>8
<1> QED BY <1>3, <1>6, <1>10, <1>11, <1>12

\* The popup shows 42 days in a row, none of them twice, as fill walks them (lines
\* 470-508): what clicks read back is never one day for two cells.
DaysInARow ==
    LET page == DrawnPage
    IN /\ \A i \in 0 .. 40 : page[i + 1] = NextDay(page[i])
       /\ \A i, j \in Cells : page[i] = page[j] => i = j

THEOREM PagesAreDaysInARow == PickerSpec => []DaysInARow
<1>1. PickerInv => DaysInARow
  <2> SUFFICES ASSUME PickerInv PROVE DaysInARow OBVIOUS
  <2> DEFINE v == viewDate
             w == config.weekStart
             page == Page(v, w)
             N0 == DayNumber(Day(v.y, v.m, 0))
             k == Lead(v, w)
  <2>1. DatesInv BY PickerParts
  <2>2. drawn.view = v BY <2>1 DEF DatesInv
  <2>3. IsDate(v) /\ v.y >= 1000 /\ w \in 0 .. 6
    BY <2>1, YearsFacts, ConfigFacts DEF DatesInv, PageDate
  <2>4. DrawnPage = page BY <2>2 DEF DrawnPage
  <2> HIDE DEF v, w
  <2>5. \A i \in 0 .. 40 : page[i + 1] = NextDay(page[i]) BY <2>3, CellsGoOn DEF page
  <2>6. k \in 0 .. 6 BY <2>3, FirstCellFacts
  <2>7. \A i \in Cells : N0 \in Int /\ DayNumber(page[i]) = N0 + (i - k) BY <2>3, CellNumber
  <2> HIDE DEF page, N0, k
  <2>8. ASSUME NEW i \in Cells, NEW j \in Cells, page[i] = page[j] PROVE i = j
    <3>1. N0 \in Int /\ N0 + (i - k) = N0 + (j - k) BY <2>7, <2>8
    <3> QED BY <2>6, <3>1 DEF Cells
  <2> QED BY ONLY <2>4, <2>5, <2>8 DEF DaysInARow
<1> QED BY <1>1, PickerInvariance, PTL

-----------------------------------------------------------------------------
(* Writing a text.                                                         *)

\* The text has x for the fields fs, and the format has such a field.
Says(s, format, fs, x) ==
    /\ x # 0
    /\ \E i \in DOMAIN format : format[i] \in fs
    /\ \A i \in DOMAIN format : format[i] \in fs => s[i] = x

\* A part that all fields of a kind write is the one read, whichever comes last.
LEMMA PartRead ==
    ASSUME NEW s, NEW format \in Seq(Fields), NEW fs, NEW default, NEW x,
           Says(s, format, fs, x)
    PROVE  Part(s, format, fs, default) = x
<1> USE DEF Says
<1> DEFINE places == {i \in DOMAIN format : format[i] \in fs}
           last == CHOOSE i \in places : \A j \in places : j <= i
<1>1. places # {} OBVIOUS
<1>2. \E i \in places : \A j \in places : j <= i
  <2> DEFINE n == Len(format)
  <2>1. n \in Nat OBVIOUS
  <2>2. places \in SUBSET (1 .. n) OBVIOUS
  <2> HIDE DEF places, n
  <2> QED BY <1>1, <2>1, <2>2, LastPlace, Zenon
<1>3. last \in places
  <2> HIDE DEF places
  <2> QED BY <1>2
<1>4. s[last] = x
  <2> HIDE DEF last
  <2> QED BY <1>3
<1>5. Part(s, format, fs, default) = IF s[last] = 0 THEN 1 ELSE s[last] BY <1>1 DEF Part
<1> HIDE DEF last
<1> QED BY <1>4, <1>5

\* A date that is written by a whole format is read back.
LEMMA RoundTrip ==
    ASSUME NEW t, IsDate(t), t.y >= 1000, NEW format \in Seq(Fields), Whole(format),
           (\E i \in DOMAIN format : format[i] = "yy") => t.y \in 2001 .. 2099,
           NEW today
    PROVE  ParseDate(FormatDate(t, format), format, today) = t
<1> DEFINE s == FormatDate(t, format)
           y == t.y
           m == t.m
           d == t.d
<1>1. y \in Int /\ m \in Months /\ m \in 0 .. 11 /\ d \in 1 .. 31 /\ y >= 1000
  BY DEF IsDate, Months
<1>2. t = Day(y, m, d) BY DEF IsDate, Day
<1>3. ASSUME NEW i \in DOMAIN format
      PROVE  /\ format[i] = "d" => s[i] = d
             /\ format[i] = "m" => s[i] = m + 1
             /\ format[i] = "yy" => s[i] = y % 100
             /\ format[i] = "yyyy" => s[i] = y
  BY DEF FormatDate
<1>4. Len(s) = Len(format)
  <2> DEFINE n == Len(format)
  <2>1. n \in Nat /\ DOMAIN format = 1 .. n OBVIOUS
  <2>2. \A e : s = e => DOMAIN e = DOMAIN format /\ e = [i \in DOMAIN format |-> e[i]]
    BY DEF FormatDate
  <2> HIDE DEF s, n
  <2>3. s = [i \in 1 .. n |-> s[i]] BY <2>1, <2>2
  <2>4. Len([i \in 1 .. n |-> s[i]]) = n BY <2>1
  <2> QED BY <2>3, <2>4 DEF n
<1>5. (\E i \in DOMAIN format : format[i] = "yy") => y \in 2001 .. 2099 OBVIOUS
<1> HIDE DEF s, y, m, d
<1>6. ASSUME NEW default PROVE Part(s, format, {"d"}, default) = d
  <2> DEFINE fs == {"d"}
  <2>1. d # 0 BY <1>1
  <2>2. \E i \in DOMAIN format : format[i] \in fs BY DEF Whole
  <2>3. \A i \in DOMAIN format : format[i] \in fs => s[i] = d BY <1>3
  <2> HIDE DEF fs
  <2>4. Says(s, format, fs, d) BY <2>1, <2>2, <2>3 DEF Says
  <2>5. Part(s, format, fs, default) = d BY <2>4, PartRead
  <2> QED BY <2>5 DEF fs
<1>7. ASSUME NEW default PROVE Part(s, format, {"m"}, default) = m + 1
  <2> DEFINE fs == {"m"}
             x == m + 1
  <2>1. x # 0 BY <1>1
  <2>2. \E i \in DOMAIN format : format[i] \in fs BY DEF Whole
  <2>3. \A i \in DOMAIN format : format[i] \in fs => s[i] = x BY <1>3
  <2> HIDE DEF fs, x
  <2>4. Says(s, format, fs, x) BY <2>1, <2>2, <2>3 DEF Says
  <2>5. Part(s, format, fs, default) = x BY <2>4, PartRead
  <2> QED BY <2>5 DEF fs, x
<1>8. YearPart(s, format, today) = y
  <2> DEFINE fs == {"yy", "yyyy"}
             full == FullYears(s, format)
  <2>1. y # 0 BY <1>1
  <2>2. \E i \in DOMAIN format : format[i] \in fs BY DEF Whole
  <2>3. ASSUME NEW i \in DOMAIN format, format[i] \in fs PROVE full[i] = y
    <3>1. full[i] = IF format[i] # "yy" THEN s[i] ELSE 2000 + (IF s[i] = 0 THEN 1 ELSE s[i])
      BY DEF FullYears
    <3>2. CASE format[i] = "yyyy" BY <3>1, <3>2, <1>3
    <3>3. CASE format[i] = "yy"
      <4>1. y \in 2001 .. 2099 /\ s[i] = y % 100 BY <3>3, <1>3, <1>5
      <4>2. s[i] # 0 /\ 2000 + s[i] = y BY ONLY <4>1
      <4> QED BY ONLY <3>1, <3>3, <4>2
    <3> QED BY <2>3, <3>2, <3>3
  <2> HIDE DEF fs, full
  <2>4. Says(full, format, fs, y) BY <2>1, <2>2, <2>3 DEF Says
  <2>5. Part(full, format, fs, today.y) = y BY <2>4, PartRead
  <2> QED BY <2>5 DEF YearPart, full, fs
<1>9. ParseDate(s, format, today) = MakeDate(y, (m + 1) - 1, d)
  BY <1>4, <1>6, <1>7, <1>8 DEF ParseDate
<1>10. (m + 1) - 1 = m /\ m \in Int /\ d \in 1 .. 99 /\ d \in Int BY <1>1
<1>11. OfMonth(y, m, d) = t BY <1>1, <1>2, <1>10, OfMonthSame
<1>12. MakeDate(y, m, d) = t
  <2>1. IsDate(OfMonth(y, m, d)) BY <1>11
  <2> QED BY ONLY <2>1, <1>1, <1>10, <1>11, MakeDateFacts
<1> QED BY <1>9, <1>10, <1>12 DEF s

\* Where the text comes from: the date was read from it, or it was written from the date.
Written == behind \/ date = Parsed(text) \/ text = FormatDate(date, config.format)

LEMMA WrittenStep ==
    ASSUME Written, [PickerNext]_pickerVars
    PROVE  Written'
<1> USE DEF Written, Parsed
<1>1. CASE Set /\ UNCHANGED config BY <1>1 DEF Set
<1>2. ASSUME NEW s \in Texts, Update(s) PROVE Written' BY <1>2 DEF Update
<1>3. ASSUME NEW s \in Texts, Keyup(s) PROVE Written' BY <1>3 DEF Keyup
<1>4. CASE UNCHANGED <<config, dates>> BY <1>4 DEF dates
<1>5. ASSUME NEW t, SetTo(t) PROVE Written' BY <1>5, <1>1 DEF SetTo
<1>6. CASE Call
  <2>1. CASE Show \/ Hide \/ CallPlace \/ \E dir \in -2 .. 2 : CallShowMode(dir)
    BY <2>1, <1>4 DEF Show, Hide, CallPlace, CallShowMode
  <2>2. CASE CallSet BY <2>2, <1>1 DEF CallSet
  <2>3. CASE CallFill BY <2>3 DEF CallFill
  <2>4. CASE UpdateFromText BY <2>4 DEF UpdateFromText
  <2> QED BY <1>6, <1>2, <1>5, <2>1, <2>2, <2>3, <2>4 DEF Call, SetValue, SetValueDate
<1>7. CASE Click
  <2>1. CASE ClickSwitch BY <2>1, <1>4 DEF ClickSwitch
  <2>2. CASE \E k \in {-1, 1} : ClickArrow(k) BY <2>2, <1>1 DEF ClickArrow
  <2>3. CASE \E m \in Months : ClickMonth(m) BY <2>3, <1>1 DEF ClickMonth, Choose
  <2>4. CASE \E i \in 0 .. 11 : ClickYear(i) BY <2>4, <1>1 DEF ClickYear, Choose
  <2>5. CASE \E i \in Cells : ClickDay(i) BY <2>5, <1>1 DEF ClickDay
  <2> QED BY <1>7, <2>1, <2>2, <2>3, <2>4, <2>5 DEF Click
<1>8. CASE MouseDown \/ Resize \/ Scroll \/ UNCHANGED pickerVars
  BY <1>8, <1>4 DEF MouseDown, Hide, Resize, Scroll, pickerVars
<1> QED BY <1>3, <1>6, <1>7, <1>8 DEF PickerNext

\* The text of an input reads back as the picker's date, whoever wrote it, in every format
\* with a day, a month and a year (lines 397-449 and 681-732).
THEOREM TextIsTheDates == PickerSpec => []TextAgrees
<1>1. PickerInit => Written BY DEF PickerInit, Written
<1>2. PickerSpec => []Written BY <1>1, WrittenStep, PTL DEF PickerSpec
<1>3. PickerInv /\ Written => TextAgrees
  <2> SUFFICES ASSUME PickerInv, ~behind, Whole(config.format),
                      (\E i \in DOMAIN config.format : config.format[i] = "yy")
                         => date.y \in 2001 .. 2099,
                      text = FormatDate(date, config.format)
               PROVE  Parsed(text) = date
    BY DEF TextAgrees, Written
  <2>1. IsDate(date) /\ InReach(date) /\ config \in Configs BY DEF PickerInv, PickerTypeOK
  <2>2. date.y >= 1000 BY <2>1, YearsFacts
  <2> DEFINE format == config.format
  <2>3. format \in Seq(Fields) BY <2>1, PickerAssumption
  <2>4. Whole(format) /\ ((\E i \in DOMAIN format : format[i] = "yy") => date.y \in 2001 .. 2099)
    OBVIOUS
  <2>5. Parsed(text) = ParseDate(FormatDate(date, format), format, Today) BY DEF Parsed
  <2> HIDE DEF format
  <2>6. ParseDate(FormatDate(date, format), format, Today) = date
    BY <2>1, <2>2, <2>3, <2>4, RoundTrip
  <2> QED BY <2>5, <2>6
<1> QED BY <1>2, <1>3, PickerInvariance, PTL

=============================================================================
