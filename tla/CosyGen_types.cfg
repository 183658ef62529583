\* Every reactor definition of up to two of three components and up to two requests.
CONSTANTS
    ComponentNames = {c1, c2, c3}
    RequestNames = {r1, r2}
    MinComponents = 0
    MaxComponents = 2
    MaxRequests = 2

SPECIFICATION Spec
INVARIANT GeneratedTypesConsistent
