SPECIFICATION Spec
CONSTANTS
    Ext = {e1, e2}
    Group = {g1}
    Save = {s1}
    MaxClicks = 2
    MaxOthers = 1
    MaxReqs = 2
INVARIANTS TypeOK SavedMeansMember ListIsStored
PROPERTIES DoorSurvives OthersKeepTheirGroups
CHECK_DEADLOCK FALSE
SYMMETRY MCSymmetry
