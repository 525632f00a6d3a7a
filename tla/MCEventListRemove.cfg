SPECIFICATION Spec
CONSTANTS
    Types = {"heap"}
    Times = {0, 1, 7}
    MaxEvents = 7
INVARIANTS EarliestFirst
