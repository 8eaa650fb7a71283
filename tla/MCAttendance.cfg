\* Two players and two sockets; one unit of time is enough to observe.
SPECIFICATION Spec
CONSTANTS
    Players = {ada, ben}
    Sockets = {c1, c2}
    None = None
    Sovereigns = {}
    Nowhere = Nowhere
    Observe = 1
SYMMETRY Symmetry
VIEW View
INVARIANTS
    RecordedAreThere
PROPERTIES
    ObservedLongEnough
