CONSTANTS
    c1 = c1
    c2 = c2
    s1 = s1
    s2 = s2
    s3 = s3
    Classes = {c1, c2}
    Selectors = {s1, s2, s3}
    InstanceMethods <- MCInstanceMethods
    ClassMethods <- MCClassMethods
    MaxModules = 5
SPECIFICATION Spec
INVARIANTS NoDangling RoutesWhole OneInstance
