-------------------------- MODULE ModuleRouter_proofs --------------------------
(* Proofs about ModuleRouter, for any classes, methods and number of modules.  *)
EXTENDS ModuleRouter, TLAPS

LEMMA UrlFacts ==
  /\ \A u \in Urls : u[1] \in Classes /\ u[2] \in Selectors /\ u = <<u[1], u[2]>>
  /\ \A c \in Classes, s \in Selectors :
        <<c, s>> \in Urls /\ <<c, s>>[1] = c /\ <<c, s>>[2] = s
  BY DEF Urls

LEMMA NoRouteFacts == NoRoute \notin Invocations
  BY DEF NoRoute, Invocations

\* Where a url leads is a route to the module of the class, or none.
LEMMA ExpectedFacts ==
  ASSUME TypeOK, NEW c \in Classes, NEW s \in Selectors, modules[c] # 0
  PROVE  /\ Expected(c, s) \in Invocations \union {NoRoute}
         /\ Expected(c, s) # NoRoute => Expected(c, s).module = modules[c]
  <1>1. modules[c] \in 1 .. MaxModules
    BY RouterAssumption DEF TypeOK
  <1>2. CASE s \in ClassMethods[c]
    <2>1. Expected(c, s) = [module |-> modules[c], type |-> "class"]
      BY <1>2 DEF Expected
    <2>. QED
      BY <1>1, <2>1 DEF Invocations, Types
  <1>3. CASE s \in InstanceMethods[c] \ ClassMethods[c]
    <2>1. Expected(c, s) = [module |-> modules[c], type |-> "instance"]
      BY <1>3 DEF Expected
    <2>. QED
      BY <1>1, <2>1 DEF Invocations, Types
  <1>4. CASE s \notin InstanceMethods[c] /\ s \notin ClassMethods[c]
    BY <1>4 DEF Expected
  <1>. QED
    BY <1>2, <1>3, <1>4

\* Building the routes of a class sets those that are expected, and no others.
LEMMA BuiltFacts ==
  ASSUME TypeOK, NEW c \in Classes, NEW u \in Urls, modules[c] # 0
  PROVE  Built(routers, c)[u] =
            IF u[1] = c /\ Expected(c, u[2]) # NoRoute THEN Expected(c, u[2]) ELSE routers[u]
  <1>. DEFINE inst == Routed(routers, c, "instance")
  <1>0. modules[c] \in Nat
    BY DEF TypeOK
  <1>1. inst[u] = IF u[1] = c /\ u[2] \in InstanceMethods[c]
                  THEN [module |-> modules[c], type |-> "instance"] ELSE routers[u]
    BY DEF Routed
  <1>2. Built(routers, c)[u] = IF u[1] = c /\ u[2] \in ClassMethods[c]
                               THEN [module |-> modules[c], type |-> "class"] ELSE inst[u]
    BY DEF Built, Routed
  <1>3. /\ [module |-> modules[c], type |-> "instance"] # NoRoute
        /\ [module |-> modules[c], type |-> "class"] # NoRoute
    BY DEF NoRoute
  <1>. HIDE DEF inst
  <1>4. CASE u[2] \in ClassMethods[c]
    BY <1>2, <1>3, <1>1, <1>4 DEF Expected
  <1>5. CASE u[2] \in InstanceMethods[c] \ ClassMethods[c]
    BY <1>2, <1>3, <1>1, <1>5 DEF Expected
  <1>6. CASE u[2] \notin InstanceMethods[c] /\ u[2] \notin ClassMethods[c]
    BY <1>2, <1>3, <1>1, <1>6 DEF Expected
  <1>. QED
    BY <1>4, <1>5, <1>6

LEMMA InitIInv == Init => IInv
  <1>. SUFFICES ASSUME Init PROVE IInv
    OBVIOUS
  <1>1. TypeOK
    BY RouterAssumption DEF Init, TypeOK
  <1>2. NoDangling
    BY DEF Init, NoDangling
  <1>3. RoutesWhole
    BY UrlFacts DEF Init, RoutesWhole
  <1>4. TargetInv
    BY DEF Init, TargetInv
  <1>. QED
    BY <1>1, <1>2, <1>3, <1>4 DEF IInv

\* A class without a module has no routes.
LEMMA Unrouted ==
  ASSUME TypeOK, NoDangling, NEW u \in Urls, modules[u[1]] = 0
  PROVE  routers[u] = NoRoute
  BY DEF TypeOK, NoDangling, Invocations

\* Removing routes leaves those of the other classes, and none of this one.
LEMMA RemoveFacts ==
  ASSUME TypeOK, NoDangling, NEW c \in Classes, RemoveRoutes(c)
  PROVE  /\ routers' \in [Urls -> Invocations \union {NoRoute}]
         /\ \A u \in Urls : routers'[u] = IF u[1] = c THEN NoRoute ELSE routers[u]
  BY Unrouted DEF RemoveRoutes, TypeOK

LEMMA AddStep ==
  ASSUME IInv, NEW c \in Classes, NEW cache \in BOOLEAN, AddModule(c, cache)
  PROVE  IInv'
  <1>0. TypeOK /\ NoDangling /\ RoutesWhole /\ TargetInv
    BY DEF IInv
  <1>1. /\ routers' \in [Urls -> Invocations \union {NoRoute}]
        /\ \A u \in Urls : routers'[u] = IF u[1] = c THEN NoRoute ELSE routers[u]
    BY <1>0, RemoveFacts DEF AddModule
  <1>2. made' = made + 1 /\ made' \in 0 .. MaxModules
    BY <1>0, RouterAssumption DEF AddModule, TypeOK
  <1>3. /\ modules' \in [Classes -> 0 .. made']
        /\ \A d \in Classes : modules'[d] = IF d = c THEN made' ELSE modules[d]
    BY <1>0, <1>2 DEF AddModule, TypeOK
  <1>4. /\ shouldCache' \in [Classes -> BOOLEAN] /\ target' \in [Classes -> BOOLEAN]
        /\ instances' \in [Classes -> 0 .. 2]
    BY <1>0 DEF AddModule, TypeOK
  <1>5. TypeOK'
    BY <1>1, <1>2, <1>3, <1>4 DEF TypeOK
  <1>6. NoDangling'
    BY <1>0, <1>1, <1>3, UrlFacts DEF NoDangling
  <1>7. RoutesWhole'
    <2>. SUFFICES ASSUME NEW d \in Classes, NEW s \in Selectors, NEW t \in Selectors,
                         routers'[<<d, s>>] # NoRoute
                  PROVE  routers'[<<d, t>>] = Expected(d, t)'
      BY DEF RoutesWhole
    <2>1. /\ d # c
          /\ routers'[<<d, s>>] = routers[<<d, s>>] /\ routers'[<<d, t>>] = routers[<<d, t>>]
      BY <1>1, UrlFacts
    <2>2. routers[<<d, t>>] = Expected(d, t)
      BY <1>0, <2>1 DEF RoutesWhole
    <2>3. Expected(d, t)' = Expected(d, t)
      BY <1>3, <2>1 DEF Expected
    <2>. QED
      BY <2>1, <2>2, <2>3
  <1>8. TargetInv'
    BY <1>0 DEF AddModule, TypeOK, TargetInv
  <1>. QED
    BY <1>5, <1>6, <1>7, <1>8 DEF IInv

LEMMA RemoveStep ==
  ASSUME IInv, NEW c \in Classes, RemoveModule(c)
  PROVE  IInv'
  <1>0. TypeOK /\ NoDangling /\ RoutesWhole /\ TargetInv
    BY DEF IInv
  <1>1. /\ routers' \in [Urls -> Invocations \union {NoRoute}]
        /\ \A u \in Urls : routers'[u] = IF u[1] = c THEN NoRoute ELSE routers[u]
    BY <1>0, RemoveFacts DEF RemoveModule
  <1>2. UNCHANGED <<made, modules, shouldCache, target, instances>>
    BY DEF RemoveModule, module
  <1>3. TypeOK'
    BY <1>0, <1>1, <1>2 DEF TypeOK
  <1>4. NoDangling'
    BY <1>0, <1>1, <1>2 DEF NoDangling
  <1>5. RoutesWhole'
    <2>. SUFFICES ASSUME NEW d \in Classes, NEW s \in Selectors, NEW t \in Selectors,
                         routers'[<<d, s>>] # NoRoute
                  PROVE  routers'[<<d, t>>] = Expected(d, t)'
      BY DEF RoutesWhole
    <2>1. routers'[<<d, s>>] = routers[<<d, s>>] /\ routers'[<<d, t>>] = routers[<<d, t>>]
      BY <1>1, UrlFacts
    <2>2. routers[<<d, t>>] = Expected(d, t)
      BY <1>0, <2>1 DEF RoutesWhole
    <2>3. Expected(d, t)' = Expected(d, t)
      BY <1>2 DEF Expected
    <2>. QED
      BY <2>1, <2>2, <2>3
  <1>6. TargetInv'
    BY <1>0, <1>2 DEF TargetInv
  <1>. QED
    BY <1>3, <1>4, <1>5, <1>6 DEF IInv

LEMMA RouteStep ==
  ASSUME IInv, NEW u \in Urls, Route(u)
  PROVE  IInv'
  <1>. DEFINE c == u[1]
  <1>0. TypeOK /\ NoDangling /\ RoutesWhole /\ TargetInv
    BY DEF IInv
  <1>1. UNCHANGED <<made, modules, shouldCache>>
    BY DEF Route, module
  <1>2. c \in Classes /\ u[2] \in Selectors /\ u = <<c, u[2]>>
    BY UrlFacts
  <1>. HIDE DEF c
  <1>3. /\ routers' \in [Urls -> Invocations \union {NoRoute}]
        /\ NoDangling' /\ RoutesWhole'
    <2>1. CASE UNCHANGED routers
      <3>1. RoutesWhole'
        BY <1>0, <1>1, <2>1 DEF RoutesWhole, Expected
      <3>. QED
        BY <1>0, <1>1, <2>1, <3>1 DEF TypeOK, NoDangling
    <2>2. CASE routers[u] = NoRoute /\ modules[c] # 0 /\ routers' = Built(routers, c)
      <3>1. \A v \in Urls : v[1] = c => routers[v] \in {NoRoute, Expected(c, v[2])}
        <4>. SUFFICES ASSUME NEW v \in Urls, v[1] = c, routers[v] # NoRoute
                      PROVE  routers[v] = Expected(c, v[2])
          OBVIOUS
        <4>1. v = <<c, v[2]>> /\ v[2] \in Selectors
          BY UrlFacts
        <4>. QED
          BY <1>0, <1>2, <4>1 DEF RoutesWhole
      <3>2. \A v \in Urls : routers'[v] = IF v[1] = c THEN Expected(c, v[2]) ELSE routers[v]
        BY <1>0, <1>2, <2>2, <3>1, BuiltFacts
      <3>3. routers' \in [Urls -> Invocations \union {NoRoute}]
        <4>1. routers' = [v \in Urls |-> routers'[v]]
          BY <2>2 DEF Built, Routed
        <4>2. \A v \in Urls : routers'[v] \in Invocations \union {NoRoute}
          BY <1>0, <1>2, <2>2, <3>2, ExpectedFacts, UrlFacts DEF TypeOK
        <4>. QED
          BY <4>1, <4>2
      <3>4. NoDangling'
        BY <1>0, <1>1, <1>2, <2>2, <3>2, ExpectedFacts, UrlFacts DEF NoDangling
      <3>5. RoutesWhole'
        <4>. SUFFICES ASSUME NEW d \in Classes, NEW s \in Selectors, NEW t \in Selectors,
                             routers'[<<d, s>>] # NoRoute
                      PROVE  routers'[<<d, t>>] = Expected(d, t)'
          BY DEF RoutesWhole
        <4>1. Expected(d, t)' = Expected(d, t)
          BY <1>1 DEF Expected
        <4>2. CASE d = c
          BY <3>2, <4>1, <4>2, UrlFacts
        <4>3. CASE d # c
          <5>1. routers'[<<d, s>>] = routers[<<d, s>>] /\ routers'[<<d, t>>] = routers[<<d, t>>]
            BY <3>2, <4>3, UrlFacts
          <5>. QED
            BY <1>0, <4>1, <5>1 DEF RoutesWhole
        <4>. QED
          BY <4>2, <4>3
      <3>. QED
        BY <3>3, <3>4, <3>5
    <2>. QED
      BY <2>1, <2>2 DEF Route, Lookup, c
  <1>4. /\ target' \in [Classes -> BOOLEAN] /\ instances' \in [Classes -> 0 .. 2]
        /\ TargetInv'
    <2>1. CASE UNCHANGED <<target, instances>>
      BY <1>0, <1>1, <2>1 DEF TypeOK, TargetInv
    <2>2. CASE GetTarget(c) /\ ~target[c]
      <3>1. /\ target' = [target EXCEPT ![c] = shouldCache[c]]
            /\ instances' = [instances EXCEPT ![c] = IF @ = 0 THEN 1 ELSE 2]
        BY <2>2 DEF GetTarget
      <3>2. target' \in [Classes -> BOOLEAN] /\ instances' \in [Classes -> 0 .. 2]
        BY <1>0, <1>2, <3>1 DEF TypeOK
      <3>3. TargetInv'
        <4>. SUFFICES ASSUME NEW d \in Classes, shouldCache[d]
                      PROVE  instances'[d] = IF target'[d] THEN 1 ELSE 0
          BY <1>1 DEF TargetInv
        <4>1. CASE d = c
          <5>1. instances[c] = 0
            BY <1>0, <2>2, <4>1 DEF TargetInv
          <5>2. instances'[c] = 1
            BY <1>0, <1>2, <3>1, <5>1 DEF TypeOK
          <5>3. target'[c] = shouldCache[c]
            BY <1>0, <1>2, <3>1 DEF TypeOK
          <5>. QED
            BY <4>1, <5>2, <5>3
        <4>2. CASE d # c
          BY <1>0, <3>1, <4>2 DEF TypeOK, TargetInv
        <4>. QED
          BY <4>1, <4>2
      <3>. QED
        BY <3>2, <3>3
    <2>. QED
      BY <2>1, <2>2 DEF Route, GetTarget, c
  <1>5. TypeOK'
    BY <1>0, <1>1, <1>3, <1>4 DEF TypeOK
  <1>. QED
    BY <1>3, <1>4, <1>5 DEF IInv

\* The routes are a cache of the modules in every order of additions, removals
\* and calls (addModule, removeModule, routerInvocation, target).
THEOREM Invariance == Spec => []IInv
  <1>1. Init => IInv
    BY InitIInv
  <1>2. ASSUME IInv, [Next]_vars PROVE IInv'
    <2>1. CASE UNCHANGED vars
      <3>1. TypeOK /\ NoDangling /\ RoutesWhole /\ TargetInv
        BY <1>2 DEF IInv
      <3>2. RoutesWhole'
        BY <2>1, <3>1 DEF vars, RoutesWhole, Expected
      <3>. QED
        BY <2>1, <3>1, <3>2 DEF vars, IInv, TypeOK, NoDangling, TargetInv
    <2>. QED
      BY <1>2, <2>1, AddStep, RemoveStep, RouteStep DEF Next
  <1>. QED
    BY <1>1, <1>2, PTL DEF Spec

\* No route outlives the module it points to (lines 49, 166 and 307).
THEOREM RoutesAlive == Spec => []NoDangling
  BY Invariance, PTL DEF IInv

\* The routes of a class are all there and up to date, or none is (lines 256-273).
THEOREM RoutesCached == Spec => []RoutesWhole
  BY Invariance, PTL DEF IInv

\* A module that keeps its target makes one instance at most (lines 567-572).
THEOREM InstanceKept == Spec => []OneInstance
  <1>1. IInv => OneInstance
    BY DEF IInv, TargetInv, OneInstance
  <1>. QED
    BY <1>1, Invariance, PTL
=============================================================================
