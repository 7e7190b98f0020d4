SPECIFICATION FairSpec
CONSTANTS
    Week = 4
    Member = {m1}
    ExtNumber = {10}
    GroupId = {1}
    GroupNumber = {90}
    Pages = {"ring_groups", "extension_groups", "holidays", "outbound_rules", "trunk_dids", "presence_rules", "phonebook", "inbound", "schedules", "ivr", "devices"}
    MaxRows = 2
    MaxReqs = 2
    Bounds <- MCBounds
INVARIANTS TypeOK ListIsStored TargetFitsType BusyIsUnderWay
PROPERTIES OnlyTouchedFieldsChange OneDayAtATime DraftSurvives FormsComeBack
CHECK_DEADLOCK FALSE
