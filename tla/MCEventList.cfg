SPECIFICATION Spec
CONSTANTS
    Types = {"list", "heap", "calendar"}
    Times = {0, 1, 7}
    MaxEvents = 6
INVARIANTS NoEventLost EarliestUnlessRemoved
