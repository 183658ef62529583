\* Definitions with at least one component: the request arms are emitted once per component.
CONSTANTS
    ComponentNames = {c1, c2, c3}
    RequestNames = {r1, r2}
    MinComponents = 1
    MaxComponents = 2
    MaxRequests = 2

SPECIFICATION Spec
INVARIANT DispatchMatchesEvents
