--------------------------- MODULE MCModuleRouter ---------------------------
(* Two classes, so that the routes of one have to survive what is done to the *)
(* other, and five modules, so that each class can be replaced.  The first    *)
(* class has a selector that is an instance and a class method.               *)
EXTENDS ModuleRouter

CONSTANTS c1, c2, s1, s2, s3

MCInstanceMethods == [c \in {c1, c2} |-> IF c = c1 THEN {s1, s2} ELSE {s2}]
MCClassMethods == [c \in {c1, c2} |-> IF c = c1 THEN {s2} ELSE {s3}]
=============================================================================
