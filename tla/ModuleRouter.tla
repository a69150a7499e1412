---------------------------- MODULE ModuleRouter ----------------------------
(***************************************************************************)
(* BMModuleRouter: classes are added as modules, and their methods are     *)
(* called by url, "Class.method".  The routes of a module are built when   *)
(* one of them is first looked up, and kept.  A route points back to its   *)
(* module without retaining it, and the dictionary of modules is all that  *)
(* keeps a module alive: a route that outlives its module points to freed  *)
(* memory, which removeModule reads for every route there is.              *)
(*                                                                         *)
(* The marshalling of arguments and results is not modelled, and a url is  *)
(* a pair of a class and a selector.                                       *)
(***************************************************************************)
EXTENDS Naturals

CONSTANTS Classes, Selectors,
          InstanceMethods, ClassMethods, \* the selectors of each class
          MaxModules                     \* bound on the modules ever added

ASSUME RouterAssumption ==
    /\ InstanceMethods \in [Classes -> SUBSET Selectors]
    /\ ClassMethods \in [Classes -> SUBSET Selectors]
    /\ MaxModules \in Nat

VARIABLES made,        \* how many modules have been added, which numbers them
          modules,     \* the module of each class; 0 for none
          shouldCache, \* does it keep its target?
          target,      \* has it one?
          instances,   \* instances of the class it has made: 0, 1, 2 for more
          routers      \* the route for each url

vars == <<made, modules, shouldCache, target, instances, routers>>
module == <<made, modules, shouldCache>>

Urls == Classes \X Selectors
Types == {"instance", "class"}
Invocations == [module : 1 .. MaxModules, type : Types]
NoRoute == [module |-> 0, type |-> "none"]

Init ==
    /\ made = 0
    /\ modules = [c \in Classes |-> 0]
    /\ shouldCache = [c \in Classes |-> FALSE]
    /\ target = [c \in Classes |-> FALSE]
    /\ instances = [c \in Classes |-> 0]
    /\ routers = [u \in Urls |-> NoRoute]

\* Mutant: one route is left in place.
RemoveOne(c) ==
    \E s \in Selectors :
        routers' = [u \in Urls |-> IF u = <<c, s>> THEN NoRoute ELSE routers[u]]

\* removeModule: the routes go, if there is a module; the module stays.
RemoveRoutes(c) ==
    routers' = [u \in Urls |-> IF u[1] = c /\ modules[c] # 0 THEN NoRoute ELSE routers[u]]

RemoveModule(c) ==
    /\ RemoveRoutes(c)
    /\ UNCHANGED <<module, target, instances>>

\* Mutant: a module is replaced without its routes.
AddOver(c, cache) ==
    /\ made < MaxModules
    /\ made' = made + 1
    /\ modules' = [modules EXCEPT ![c] = made']
    /\ shouldCache' = [shouldCache EXCEPT ![c] = cache]
    /\ target' = [target EXCEPT ![c] = FALSE]
    /\ instances' = [instances EXCEPT ![c] = 0]
    /\ UNCHANGED routers

\* addModule: a new module takes the place of the one of its class, if any.
AddModule(c, cache) ==
    /\ made < MaxModules
    /\ made' = made + 1
    /\ RemoveRoutes(c)
    /\ modules' = [modules EXCEPT ![c] = made']
    /\ shouldCache' = [shouldCache EXCEPT ![c] = cache]
    /\ target' = [target EXCEPT ![c] = FALSE]
    /\ instances' = [instances EXCEPT ![c] = 0]

\* addRouters: a route for each method of a type, over what was there.
Routed(r, c, type) ==
    LET methods == IF type = "class" THEN ClassMethods[c] ELSE InstanceMethods[c]
    IN  [u \in Urls |-> IF u[1] = c /\ u[2] \in methods
                        THEN [module |-> modules[c], type |-> type]
                        ELSE r[u]]

\* Both types, the class methods over the instance methods.
Built(r, c) == Routed(Routed(r, c, "instance"), c, "class")

\* routerInvocation: the route, if need be built with all those of the module.
Lookup(u) ==
    routers' = IF routers[u] = NoRoute /\ modules[u[1]] # 0 THEN Built(routers, u[1])
                                                            ELSE routers

\* Mutant: the target that is made is not kept.
MakeTarget(c) ==
    /\ instances' = [instances EXCEPT ![c] = IF @ = 0 THEN 1 ELSE 2]
    /\ UNCHANGED target

\* target of a module, or else a new instance: kept if that was asked for.
GetTarget(c) ==
    IF target[c]
    THEN UNCHANGED <<target, instances>>
    ELSE /\ target' = [target EXCEPT ![c] = shouldCache[c]]
         /\ instances' = [instances EXCEPT ![c] = IF @ = 0 THEN 1 ELSE 2]

\* route and target, which do the same to the router's state.  They use the
\* module of the route, which is that of the class (NoDangling).
Route(u) ==
    /\ Lookup(u)
    /\ IF routers'[u] # NoRoute THEN GetTarget(u[1]) ELSE UNCHANGED <<target, instances>>
    /\ UNCHANGED module

Next ==
    \/ \E c \in Classes, cache \in BOOLEAN : AddModule(c, cache)
    \/ \E c \in Classes : RemoveModule(c)
    \/ \E u \in Urls : Route(u)

Spec == Init /\ [][Next]_vars

-----------------------------------------------------------------------------
TypeOK ==
    /\ made \in 0 .. MaxModules
    /\ modules \in [Classes -> 0 .. made]
    /\ shouldCache \in [Classes -> BOOLEAN]
    /\ target \in [Classes -> BOOLEAN]
    /\ instances \in [Classes -> 0 .. 2]
    /\ routers \in [Urls -> Invocations \union {NoRoute}]

\* No route outlives its module, to which it holds an unretained pointer that
\* the next removeModule of any class, or the next call, follows (lines 49, 166
\* and 307): when a class is added again, all routes to the module it replaces
\* are gone before that module is.
NoDangling ==
    \A u \in Urls : routers[u] # NoRoute => routers[u].module = modules[u[1]]

\* Where a url of class c leads once the routes are built: to the class method,
\* if there is one.
Expected(c, s) ==
    CASE s \in ClassMethods[c] -> [module |-> modules[c], type |-> "class"]
      [] s \in InstanceMethods[c] \ ClassMethods[c] ->
            [module |-> modules[c], type |-> "instance"]
      [] OTHER -> NoRoute

\* The routes are a cache of the modules: those of a class are all there and up
\* to date, or none is; so a lookup that misses may take it that there is no
\* such method when it has built the routes (lines 256-273).
RoutesWhole ==
    \A c \in Classes : \A s, t \in Selectors :
        routers[<<c, s>>] # NoRoute => routers[<<c, t>>] = Expected(c, t)

\* A module that keeps its target makes one instance at most until its class is
\* added again, whatever mixture of routes, targets and removals uses it (lines
\* 276-289, 305-307 and 567-572).
OneInstance == \A c \in Classes : shouldCache[c] => instances[c] <= 1
-----------------------------------------------------------------------------
(* The inductive invariant.                                                *)

\* A target that was made has been kept, where that was asked for.
TargetInv ==
    \A c \in Classes : shouldCache[c] => instances[c] = IF target[c] THEN 1 ELSE 0

IInv == TypeOK /\ NoDangling /\ RoutesWhole /\ TargetInv
=============================================================================
